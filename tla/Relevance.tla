------------------------------ MODULE Relevance ------------------------------
(***************************************************************************)
(* Which launches are relevant (src/src/relevance.cpp), with the string    *)
(* helpers it uses (src/src/strings.cpp) and Launch::searchableFields      *)
(* (src/src/domain.cpp).                                                   *)
(*                                                                         *)
(* A text is a sequence of letters; the empty text stands for an absent    *)
(* optional too, since the code treats both alike.                         *)
(***************************************************************************)
EXTENDS Integers, Sequences, SequencesExt

CONSTANTS
  Lower,           \* std::tolower: letters to letters
  Space,           \* the letters std::isspace accepts
  LaunchProvider,  \* config.launchProvider
  IncludeTerms     \* config.includeTerms, in order

Letter == DOMAIN Lower

\* loadConfig accepts a provider and a non-empty list of terms, each of which
\* is a non-empty text without white space at its ends.
Trimmed(text) == text[1] \notin Space /\ text[Len(text)] \notin Space

ASSUME RelevanceAssumption ==
  /\ Lower \in [Letter -> Letter] /\ Space \subseteq Letter
  /\ LaunchProvider \in Seq(Letter) \ {<<>>} /\ Trimmed(LaunchProvider)
  /\ IncludeTerms \in Seq(Seq(Letter) \ {<<>>}) \ {<<>>}
  /\ \A i \in DOMAIN IncludeTerms : Trimmed(IncludeTerms[i])

toLower(text) == [i \in DOMAIN text |-> Lower[text[i]]]

\* The text without the white space at its ends.
trim(text) ==
  LET kept == {i \in DOMAIN text : text[i] \notin Space}
  IN IF kept = {} THEN <<>> ELSE SubSeq(text, Min(kept), Max(kept))

\* std::string::find.
Occurs(term, text) == term \in SubSeqs(text)

searchableFields(launch) ==
  {launch.name, launch.missionName, launch.missionDescription, launch.padName}
    \ {<<>>}

\* Mutant: the provider is compared as it is spelled.
ProviderMatches_Exactly(launch) == trim(launch.provider) = trim(LaunchProvider)

ProviderMatches(launch) ==
  toLower(trim(launch.provider)) = toLower(trim(LaunchProvider))

\* Those of the configured terms that are in the set, in the order configured.
InOrder(terms) == SelectSeq(IncludeTerms, LAMBDA term : term \in terms)

matchedTerms(launch) ==
  InOrder({term \in ToSet(IncludeTerms) :
             \E field \in searchableFields(launch) : Occurs(toLower(term), toLower(field))})

\* The terms a relevant launch matched; none if it is not relevant.
evaluateRelevance(launch) ==
  IF ProviderMatches(launch) THEN matchedTerms(launch) ELSE <<>>
=============================================================================
