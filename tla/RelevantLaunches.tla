--------------------------- MODULE RelevantLaunches ---------------------------
(***************************************************************************)
(* From the answer of the source to the launches it is relevant to decide  *)
(* about: the fetch of LaunchLibrary, then the relevance test decideCycle  *)
(* (src/src/core.cpp) puts to every fetched launch in turn.                *)
(***************************************************************************)
EXTENDS LaunchLibrary, Relevance

VARIABLE matched  \* the terms each launch tested so far matched

\* What the source says is text the relevance test can search.
ASSUME ListingAssumption == Text \cup {Comma} \subseteq Seq(Letter)

listingVars == <<vars, matched>>

ListingInit == Init /\ matched = <<>>

\* Mutant: the first irrelevant launch ends the loop.
EvaluateNext_StopsAtIrrelevant ==
  /\ pc = "fetched"
  /\ Len(matched) < Len(launches)
  /\ matched' = LET terms == evaluateRelevance(launches[Len(matched) + 1])
                IN IF terms # <<>> THEN Append(matched, terms)
                   ELSE matched \o [i \in 1 .. Len(launches) - Len(matched) |-> <<>>]
  /\ UNCHANGED vars

EvaluateNext ==
  /\ pc = "fetched"
  /\ Len(matched) < Len(launches)
  /\ matched' = Append(matched, evaluateRelevance(launches[Len(matched) + 1]))
  /\ UNCHANGED vars

ListingNext == (Next /\ UNCHANGED matched) \/ EvaluateNext

ListingSpec == ListingInit /\ [][ListingNext]_listingVars

-----------------------------------------------------------------------------
(* Properties *)

\* Everything the source says about a launch that may be searched.
Says(item) ==
  {IF item.name # <<>> THEN item.name ELSE DefaultName[item.id],
   item.missionName, item.missionDescription, item.pad, item.location,
   IF <<>> \in {item.pad, item.location} THEN <<>>
   ELSE item.pad \o Comma \o item.location}

\* The term stands somewhere in the text, in whatever case.
Contained(term, text) ==
  \E start \in 0 .. Len(text) - Len(term) :
    \A i \in 1 .. Len(term) : Lower[term[i]] = Lower[text[start + i]]

\* An item is judged relevant by exactly the terms that stand in something the
\* source says about it, on either side in whatever case, and only if its
\* provider is the configured one (relevance.hpp:3-6, CONTEXT.md:71-73); the
\* fields that are missing and the items around it make no difference.
SearchesEveryField ==
  pc = "fetched" =>
    /\ Len(matched) <= Place(Len(items))
    /\ \A k \in 1 .. Len(items) :
         Mappable(k) /\ Place(k) <= Len(matched) =>
           matched[Place(k)] =
             IF toLower(trim(items[k].provider)) = toLower(LaunchProvider)
             THEN InOrder({term \in ToSet(IncludeTerms) :
                             \E text \in Says(items[k]) : Contained(term, text)})
             ELSE <<>>

-----------------------------------------------------------------------------
(* The inductive invariant behind it, with that of the fetch *)

\* The launches tested so far, each judged by itself.
MatchedInv ==
  /\ pc # "fetched" => matched = <<>>
  /\ matched \in Seq({evaluateRelevance(launches[i]) : i \in DOMAIN launches})
  /\ Len(matched) <= Len(launches)
  /\ \A i \in 1 .. Len(matched) : matched[i] = evaluateRelevance(launches[i])
=============================================================================
