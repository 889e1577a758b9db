--------------------------- MODULE MCLaunchLibrary ---------------------------
(* Payloads of up to MaxItems items: one name of every class of names, one   *)
(* text of every class of texts.                                             *)
EXTENDS RelevantLaunches

PrecisionNames == {"minute", "hour", "quarter 2", "fortnight"}
StatusNames == {"go", "hold", "in flight", "tbd", "scrubbed"}
Times == {7}

\* Letters in two cases, white space, and the comma that joins pad and location.
LowerCase == [letter \in {"a", "A", "b", "B", " ", ","} |->
                CASE letter = "A" -> "a" [] letter = "B" -> "b" [] OTHER -> letter]
SpaceLetters == {" "}
Provider == <<"A">>
Terms == <<<<"B">>, <<"a", "b">>, <<",">>>>
CommaText == <<",", " ">>
Texts == {<<>>, <<"a">>, <<"b">>, <<"a", "B">>, <<" ", "a">>, <<" ">>}
DefaultNames == [id \in Id |-> <<"b">>]

PlainItem(id) ==
  [id |-> id, name |-> <<"a">>, provider |-> <<"a">>, net |-> 7,
   precision |-> "minute", status |-> "go", missionName |-> <<>>,
   missionDescription |-> <<>>, pad |-> <<>>, location |-> <<>>]

\* Every combination of net, precision and status; every combination of
\* searched fields; every provider; and an item without identifier.
TimedItems ==
  {[PlainItem(id) EXCEPT !.net = net, !.precision = precision, !.status = status] :
     id \in Id, net \in Times \cup {Absent, Garbled},
     precision \in PrecisionNames \cup {Absent},
     status \in StatusNames \cup {Absent}}
NamedItems ==
  {[PlainItem(id) EXCEPT !.name = name, !.missionName = mission,
      !.missionDescription = description, !.pad = pad, !.location = location] :
     id \in Id, name \in {<<>>, <<"a">>},
     mission, description, pad, location \in {<<>>, <<"a", "B">>}}
ProvidedItems == {[PlainItem(id) EXCEPT !.provider = provider, !.name = <<"b">>] :
                    id \in Id, provider \in Texts}
Bodies == {"object", "other_json", "no_json"}
Items == TimedItems \cup NamedItems \cup ProvidedItems \cup {PlainItem(Absent)}
=============================================================================
