--------------------------- MODULE MCURLChecker ---------------------------
(***************************************************************************)
(* Small instances of URLChecker: URL "one" has hash 1; URL "two" has hash *)
(* 2, which shares the prefix of hash 1, and hash 3 with one of its own.   *)
(***************************************************************************)
EXTENDS URLChecker, TLC

MCPrefix == [h \in Hashes |-> IF h = 3 THEN "q" ELSE "p"]
MCExpressions == [one |-> <<1>>, two |-> <<2, 3>>]

BothModes == {"local-list", "real-time"}

\* What a request is given: one URL or the other, or both.
Either == {<<"one">>, <<"two">>}
Both == {<<"two", "one">>}

NoLists == [ready |-> FALSE, threat |-> {}, global |-> {}]
SomeLists == {NoLists,
              [ready |-> TRUE, threat |-> {"p", "q"}, global |-> {1}],
              [ready |-> TRUE, threat |-> {"q"}, global |-> {}]}
FullLists == {[ready |-> TRUE, threat |-> {"p", "q"}, global |-> {}]}
FullOrNot == {NoLists} \cup FullLists

Symmetry == Permutations(Requests)
==========================================================================
