---------------------------- MODULE MCAlgorithms ----------------------------
(***************************************************************************)
(* The pure algorithms, each against a definition of what it computes, for *)
(* every input up to a bound. A behaviour chooses one input, in two steps. *)
(***************************************************************************)
EXTENDS Rice, Merging, URLs, SearchAnswers, Backoffs, HashLists

CONSTANTS
  Width,        \* the bytes of an entry: 4, 8, 16 or 32 in the code
  MaxEntries,   \* bound, and maxEntries of DecodeRiceHashes
  MaxBits,      \* bound: the encoded data of a Rice block
  MaxRaw,       \* bound: the part of a raw URL that varies
  MaxPath,      \* bound: the length of a canonical path
  MaxFailures   \* bound: failures in a row

ASSUME BoundAssumption ==
  /\ MaxEntries \in Nat /\ MaxBits \in Nat /\ MaxRaw \in Nat
  /\ MaxPath \in Nat /\ MaxFailures \in Nat

\* Every width has room for the quotients and for a parameter below it.
ASSUME WidthAssumption == Width \in Nat \ {0} /\ QuotientBits <= Width * ByteBits

VARIABLE case

\* The first step chooses an algorithm and a number, the second the rest.

Seed(kind, x) == [algorithm |-> "none", kind |-> kind, x |-> x]
Seeded(kind) == case.algorithm = "none" /\ case.kind = kind
Chosen(kind) == case.algorithm = kind

SortedSeqs(S, n) == {s \in SeqOf(S, n) : StrictlyIncreasing(s)}
----
(* Rice blocks, and lists to encode *)

Entries == 0..Power2(Width * ByteBits) - 1
Datas == UNION {[1..n * ByteBits -> {0, 1}] : n \in 0..MaxBits \div ByteBits}

ChooseBlock ==
  /\ Seeded("block")
  /\ \E k \in 0..Width * ByteBits - 1, count \in 0..MaxEntries, data \in Datas, w \in {1, Width} :
       /\ w = Width \/ data = << >>
       /\ case' = [algorithm |-> "block", block |-> RiceBlock(w, case.x, k, count, data)]

ChooseList ==
  /\ Seeded("list")
  /\ \E more \in SortedSeqs({y \in Entries : y > case.x}, MaxEntries),
        k \in Width * ByteBits - QuotientBits..Width * ByteBits - 2 :
       case' = [algorithm |-> "list", list |-> <<case.x>> \o more, k |-> k]

\* The encoding: each delta as its quotient in unary and k bits of remainder, the
\* lowest first, and zeros up to a whole byte.
DeltaBits(delta, k) ==
  [i \in 1..delta \div Power2(k) |-> 1] \o <<0>>
  \o [i \in 1..k |-> (delta \div Power2(i - 1)) % 2]
EncodeStep(list, k, s) ==
  IF s.i >= Len(list) THEN s
  ELSE [i |-> s.i + 1, bits |-> s.bits \o DeltaBits(list[s.i + 1] - list[s.i], k)]
Deltas(list, k) ==
  Repeated(LAMBDA s : EncodeStep(list, k, s), [i |-> 1, bits |-> << >>], Len(list) - 1).bits
RiceData(list, k) ==
  LET bits == Deltas(list, k)
  IN bits \o [i \in 1..(0 - Len(bits)) % ByteBits |-> 0]

DecodedIsEncoded(b) ==
  LET got == DecodeRice(Width, b, MaxEntries)
  IN got.err = "none" =>
       /\ b.firstWidth = Width /\ Len(got.entries) = b.count + 1 /\ b.count < MaxEntries
       /\ StrictlyIncreasing(got.entries) /\ ToSet(got.entries) \subseteq Entries
       /\ got.entries[1] = b.first /\ RiceData(got.entries, b.k) = b.data
EncodedIsDecoded(list, k) ==
  LET got == DecodeRice(Width, RiceBlock(Width, list[1], k, Len(list) - 1, RiceData(list, k)), MaxEntries)
  IN IF Len(list) > MaxEntries THEN got.err = "ErrDecodeLimit"
     ELSE got.err = "none" /\ got.entries = list

\* Decoding is the inverse of encoding: what is decoded is sorted, fits its width
\* and has no other encoding, padding included, that is accepted; and whatever is
\* encoded is decoded, up to the limit (decodeRice).
RiceInverse ==
  /\ Chosen("block") => DecodedIsEncoded(case.block)
  /\ Chosen("list") => EncodedIsDecoded(case.list, case.k)
----
(* Partial updates *)

Numbers == 1..5
Lists == SortedSeqs(Numbers, 5)

ChooseMerge ==
  /\ Seeded("merge")
  /\ \E additions \in Lists, removals \in SortedSeqs(0..Len(case.x) - 1, Len(case.x)) :
       case' = [algorithm |-> "merge", base |-> case.x, additions |-> additions, removals |-> removals]

MergeCorrect(base, additions, removals) ==
  LET merged == Merge(base, additions, removals)
      left == Survivors(ToSet(base), removals)
  IN IF left \cap ToSet(additions) # {} THEN merged.duplicate
     ELSE /\ ~merged.duplicate /\ StrictlyIncreasing(merged.out)
          /\ ToSet(merged.out) = left \cup ToSet(additions)
SearchCorrect(list, h) == Matches(list, h) <=> h \in ToSet(list)

\* The merge of a partial update builds the list HashLists says it does, or
\* refuses it when it says so; and a binary search finds what is in a list and
\* nothing else (ApplyUpdate, Matches).
MergeAgrees ==
  Chosen("merge") => /\ MergeCorrect(case.base, case.additions, case.removals)
                     /\ \A h \in 0..6 : SearchCorrect(case.additions, h)
----
(* URLs *)

\* "A", "x", the digits 0 to 2 and the bytes that take a URL apart.
HostBytes == {65, 120, 48, 49, 50, Percent, Dot, Slash, Colon, At}
PathBytes == {Percent, 50, 53, 69, Slash, Dot, Question}

ChooseRaw ==
  /\ Seeded("raw")
  /\ \/ /\ case.x \in HostBytes
        /\ \E s \in SeqOf(HostBytes, MaxRaw - 1) : case' = [algorithm |-> "raw", raw |-> <<case.x>> \o s]
     \/ /\ case.x \in PathBytes
        /\ \E s \in SeqOf(PathBytes, MaxRaw - 1) :
             case' = [algorithm |-> "raw", raw |-> <<97, Slash, case.x>> \o s]

Replaced(raw, i, s) == Before(raw, i) \o s \o After(raw, i)

\* The same URL spelled otherwise: a byte escaped, though it may be part of an
\* escape; a tab in between; or an empty, "." or "x/.." component added to the path.
Respellings(raw) ==
  {Replaced(raw, i, Encoded(raw[i])) : i \in DOMAIN raw} \cup
  {Replaced(raw, i, <<9, raw[i]>>) : i \in DOMAIN raw} \cup
  {Replaced(raw, i, s) :
     i \in {i \in DOMAIN raw : raw[i] = Slash /\ \A j \in 1..i - 1 : raw[j] \notin {Question, Percent}},
     s \in {<<Slash, Slash>>, <<Slash, Dot, Slash>>, <<Slash, 120, Slash, Dot, Dot, Slash>>}}

\* The canonical form does not depend on how a URL is spelled: "valid percent
\* escapes are decoded repeatedly", before the host, the port, the path and the
\* query are told apart, and the path is cleaned after (Canonicalize). And it is
\* the canonical form of itself.
SpellingIgnored ==
  Chosen("raw") =>
    LET u == Canonicalize(case.raw)
        text == u.host \o u.path \o (IF u.hasQuery THEN <<Question>> ELSE << >>) \o u.query
    IN /\ \A raw \in Respellings(case.raw) : Canonicalize(raw) = u
       /\ u # Refused => Canonicalize(text) = u

Queries == {<<FALSE, << >>>>, <<TRUE, << >>>>, <<TRUE, <<97>>>>}

ChooseExpressions ==
  /\ Seeded("expressions")
  /\ \E base \in 0..case.x, path \in SeqOf({Slash, 97}, MaxPath - 1), query \in Queries :
       /\ \A i \in DOMAIN path : path[i] = Slash => i > 1 /\ path[i - 1] # Slash
       /\ case' = [algorithm |-> "expressions", labels |-> [i \in 1..case.x |-> i], base |-> base,
                   url |-> [path |-> <<Slash>> \o path, hasQuery |-> query[1], query |-> query[2]]]

Exact(u) == IF u.hasQuery THEN u.path \o <<Question>> \o u.query ELSE u.path
Directories(path) ==
  {SubSeq(path, 1, i) : i \in {i \in DOMAIN path :
     path[i] = Slash /\ Cardinality({j \in 1..i : path[j] = Slash}) <= 4}}

AllExpressions(labels, base, u) ==
  LET n == Len(labels)
      got == Expressions(labels, base, u)
      sizes == {n} \cup {m \in 1..n : base > 0 /\ m >= base /\ m <= base + 3}
      hosts == {SubSeq(labels, n - m + 1, n) : m \in sizes}
  IN /\ ToSet(got) = hosts \X ({Exact(u), u.path} \cup Directories(u.path))
     /\ \A i, j \in DOMAIN got : got[i] = got[j] => i = j
     /\ Len(got) <= 30 /\ got[1] = <<labels, Exact(u)>>

\* The expressions are the host and its suffixes from the registrable domain up
\* to three labels more, each with the path with and without its query and the
\* directories above it, four at most: all of them, each once, at most thirty,
\* the exact URL first (Expressions).
ExpressionsComplete ==
  Chosen("expressions") => AllExpressions(case.labels, case.base, case.url)
----
(* Answers of the service *)

SomeDetails == [type : {0, 1, 4, 5}, attributes : {{}, {1}, {3}, {1, 3}, {2, 3}}]
SomeMatches(n) ==
  [hash : DOMAIN PrefixOf, whole : BOOLEAN, details : {ToSet(s) : s \in SeqOf(SomeDetails, n)}]

ChooseSearch ==
  /\ Seeded("search")
  /\ \E requested \in SUBSET {PrefixOf[h] : h \in DOMAIN PrefixOf} :
     \/ \E match \in SomeMatches(2) :
          /\ match.hash = case.x
          /\ case' = [algorithm |-> "search", requested |-> requested, answer |-> {match}]
     \/ \E one, two \in SomeMatches(1) :
          /\ one.hash = case.x
          /\ case' = [algorithm |-> "search", requested |-> requested, answer |-> {one, two}]

EnforcedOf(h, requested, answer) ==
  {t \in ThreatTypes :
     /\ PrefixOf[h] \in requested
     /\ \E match \in answer : match.hash = h /\ [type |-> t, attributes |-> {}] \in match.details}

\* A hash is a threat of exactly the types the service gives it without any
\* attribute: one that is not known to the code, as much as one that is, keeps a
\* detail from being enforced, without hiding the others of the same hash; and
\* nothing is learnt of a hash that was not asked for (SearchHashes, collectThreats).
Enforced ==
  Chosen("search") /\ ~SearchFails(case.requested, case.answer) =>
    \A h \in DOMAIN PrefixOf :
      Collected(h, FullHashes(case.answer)) = EnforcedOf(h, case.requested, case.answer)
----
(* Retries *)

ChooseBackoff ==
  /\ Seeded("backoff")
  /\ \E max \in case.x..MaxInt, failures \in 1..MaxFailures :
       case' = [algorithm |-> "backoff", initial |-> case.x, max |-> max, failures |-> failures]

Doubles(initial, max, failures) ==
  LET doubled == initial * Power2(failures - 1)
  IN RetryDelay(initial, max, failures) = IF doubled < max THEN doubled ELSE max

\* The delay is doubled with every failure up to the longest, and no number of
\* failures makes it overflow (retryDelay).
BackoffDoubles ==
  Chosen("backoff") => Doubles(case.initial, case.max, case.failures)
----
Init ==
  case \in {Seed(kind, x) : kind \in {"block", "list"}, x \in Entries}
       \cup {Seed("merge", x) : x \in Lists}
       \cup {Seed("raw", x) : x \in HostBytes \cup PathBytes}
       \cup {Seed("expressions", x) : x \in 1..7}
       \cup {Seed("search", x) : x \in DOMAIN PrefixOf}
       \cup {Seed("backoff", x) : x \in 1..MaxInt}

Next ==
  \/ ChooseBlock \/ ChooseList \/ ChooseMerge \/ ChooseRaw
  \/ ChooseExpressions \/ ChooseSearch \/ ChooseBackoff

Spec == Init /\ [][Next]_case

MCPrefixOf == <<1, 1, 2>>
=============================================================================
