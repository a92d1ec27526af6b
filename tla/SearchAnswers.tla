--------------------------- MODULE SearchAnswers ---------------------------
(***************************************************************************)
(* api_http.go and checker.go: what becomes of the service's answer to     *)
(* SearchHashes, from the wire to the threats that are reported.           *)
(* A threat type or an attribute is its number on the wire; the matches of *)
(* an answer, the details of a match and the attributes of a detail are    *)
(* sets, as no order of theirs matters.                                    *)
(***************************************************************************)
EXTENDS Naturals

CONSTANT PrefixOf  \* PrefixOf[h]: the first four bytes of hash h

ThreatTypes == 1..4  \* threatName
Canary == 1
FrameOnly == 2

\* A detail of a type or with an attribute that is not known is dropped.
DetailsWithoutUnknown(match) ==
  {[d EXCEPT !.attributes = @ \cap {Canary, FrameOnly}] :
     d \in {d \in match.details : d.type \in ThreatTypes}}
Details(match) ==
  {d \in match.details : d.type \in ThreatTypes /\ d.attributes \subseteq {Canary, FrameOnly}}

\* HTTPAPI.SearchHashes: one bad match fails the whole answer.
SearchFails(requested, answer) ==
  \E match \in answer : ~match.whole \/ PrefixOf[match.hash] \notin requested

FullHashes(answer) ==
  {[hash |-> match.hash, details |-> Details(match)] : match \in answer}

\* collectThreats, for hash h.
Collected(h, matches) ==
  UNION {{d.type : d \in {d \in match.details : d.attributes = {}}} :
         match \in {match \in matches : match.hash = h}}
===========================================================================
