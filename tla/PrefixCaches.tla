--------------------------- MODULE PrefixCaches ---------------------------
(***************************************************************************)
(* search_cache.go: the operations of prefixCache, each of which holds its *)
(* mutex throughout, as operators on what it keeps: a map from prefixes to *)
(* entries and the list of the prefixes, most recently used first.         *)
(***************************************************************************)
EXTENDS Integers, Sequences

EmptyCache == [entries |-> << >>, lru |-> << >>]

\* matches: the hashes under the prefix that the service has as threats.
Entry(matches, expires) == [matches |-> matches, expires |-> expires]

\* The list without the element that the entry of p points to.
Without(s, p) ==
  IF \E i \in DOMAIN s : s[i] = p
  THEN LET at == CHOOSE i \in DOMAIN s : s[i] = p
       IN [i \in 1..Len(s) - 1 |-> s[IF i < at THEN i ELSE i + 1]]
  ELSE s
\* Map f with x for p.
With(f, p, x) == [q \in DOMAIN f \cup {p} |-> IF q = p THEN x ELSE f[q]]

MoveToFront(s, p) == <<p>> \o Without(s, p)

Removed(c, p) ==
  [entries |-> [q \in DOMAIN c.entries \ {p} |-> c.entries[q]],
   lru     |-> Without(c.lru, p)]

\* prefixCache.get: whether it finds prefix p, and what it leaves behind. An
\* expired entry is removed.
HitForever(c, p, now) == p \in DOMAIN c.entries
Hit(c, p, now) == p \in DOMAIN c.entries /\ now < c.entries[p].expires

AfterGet(c, p, now) ==
  IF Hit(c, p, now) THEN [c EXCEPT !.lru = MoveToFront(@, p)]
  ELSE IF p \in DOMAIN c.entries THEN Removed(c, p)
  ELSE c

\* prefixCache.put, with the least recently used entry dropped when there is
\* one too many.
PutUnbounded(c, p, entry, capacity) ==
  IF capacity <= 0 THEN c
  ELSE [entries |-> With(c.entries, p, entry), lru |-> MoveToFront(c.lru, p)]
Put(c, p, entry, capacity) ==
  LET full == [entries |-> With(c.entries, p, entry), lru |-> MoveToFront(c.lru, p)]
  IN IF capacity <= 0 THEN c
     ELSE IF Len(full.lru) > capacity THEN Removed(full, full.lru[Len(full.lru)])
     ELSE full
==========================================================================
