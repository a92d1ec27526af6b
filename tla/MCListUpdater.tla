-------------------------- MODULE MCListUpdater --------------------------
(***************************************************************************)
(* Small instances of ListUpdater: list A of 4-byte prefixes, list B of    *)
(* full hashes, and X, a list in the snapshot that is not selected.        *)
(***************************************************************************)
EXTENDS ListUpdater, TLC

JustA == {"A"}
AandB == {"A", "B"}
AandX == {"A", "X"}

MCWidth == [n \in Selected |-> IF n = "A" THEN 4 ELSE 32]

\* Three versions: entries added and removed, then none changed.
MCContent == [n \in Selected |-> << {1, 3}, {2, 3}, {2, 3} >>]

Reply(version, wait, full, meta, fault) ==
  [version |-> version, wait |-> wait, full |-> full, meta |-> meta, fault |-> fault]

\* An honest answer, full or partial, and one of each fault.
EveryFault ==
  {Reply(2, 2, FALSE, FALSE, f) : f \in {"none", "data", "base", "width", "wait", "index"}}
    \cup {Reply(1, 0, TRUE, TRUE, "none"), Reply(3, 1, FALSE, FALSE, "none")}

FewReplies ==
  {Reply(1, 1, TRUE, FALSE, "none"), Reply(2, 2, FALSE, FALSE, "none"),
   Reply(2, 3, FALSE, FALSE, "data")}

\* Snapshots: lists as an earlier run stored them.
StoredList(n, w, v, wait, at, meta) ==
  LET entries == MCContent["A"][v] IN
  ListState(HashList(w, entries), v, <<w, entries>>, wait, at, meta)

Holding(a, x) == [n \in Names |-> IF n = "A" THEN a ELSE IF n = "X" THEN x ELSE NoList]

GoodA == StoredList("A", 4, 1, 1, 1, TRUE)

NothingStored == {Stored("absent", Empty)}

ManyStores ==
  {Stored(k, Empty) : k \in {"absent", "corrupt", "newer", "oversized"}}
    \cup {Snapshot(Holding(a, x)) :
            a \in {NoList, GoodA,
                   StoredList("A", 4, 1, 1, 3, FALSE),  \* later than now, no metadata
                   StoredList("A", 8, 1, 1, 1, TRUE),   \* of another width
                   [GoodA EXCEPT !.hashes.data = {9}],  \* damaged
                   [GoodA EXCEPT !.wait = 0 - 1]},
            x \in {NoList, StoredList("X", 4, 1, 0, 1, TRUE)}}

FewStores == {Stored("absent", Empty), Snapshot(Holding(GoodA, NoList))}

OtherShape == {Stored("newerShape", Empty)}

\* Callers are told apart by nothing.
Symmetry == Permutations(Callers)
==========================================================================
