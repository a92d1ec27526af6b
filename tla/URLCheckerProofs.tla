------------------------- MODULE URLCheckerProofs -------------------------
(***************************************************************************)
(* Theorems about URLChecker for every value of its constants.             *)
(***************************************************************************)
EXTENDS URLChecker, TLAPS
----
(* Sequences *)

Once(s) == \A i, j \in DOMAIN s : s[i] = s[j] => i = j

LEMMA HeadAndTail ==
  ASSUME NEW S, NEW s \in Seq(S), s # << >>
  PROVE  /\ Head(s) \in S /\ Tail(s) \in Seq(S)
         /\ Given(s) = {Head(s)} \cup Given(Tail(s))
<1>1. /\ Len(s) \in Nat \ {0} /\ DOMAIN s = 1..Len(s) /\ Head(s) = s[1]
      /\ Tail(s) \in Seq(S) /\ Len(Tail(s)) = Len(s) - 1 /\ DOMAIN Tail(s) = 1..Len(s) - 1
      /\ \A i \in 1..Len(s) - 1 : Tail(s)[i] = s[i + 1]
  OBVIOUS
<1>2. \A i \in 1..Len(s) : s[i] = Head(s) \/ (i - 1 \in 1..Len(s) - 1 /\ s[i] = Tail(s)[i - 1])
  BY <1>1
<1>3. Given(s) \subseteq {Head(s)} \cup Given(Tail(s))
  <2> SUFFICES ASSUME NEW i \in 1..Len(s) PROVE s[i] \in {Head(s)} \cup Given(Tail(s))
    BY <1>1 DEF Given
  <2>1. CASE s[i] = Head(s)
    BY <2>1
  <2>2. CASE i - 1 \in 1..Len(s) - 1 /\ s[i] = Tail(s)[i - 1]
    BY <1>1, <2>2 DEF Given
  <2> QED BY <1>2, <2>1, <2>2
<1>4. \A i \in 1..Len(s) - 1 : i + 1 \in 1..Len(s)
  BY <1>1
<1>5. {Head(s)} \cup Given(Tail(s)) \subseteq Given(s)
  BY <1>1, <1>4 DEF Given
<1> QED BY <1>1, <1>3, <1>5

LEMMA MoreThanOne ==
  ASSUME NEW S, NEW s \in Seq(S), s # << >>, Len(s) # 1
  PROVE  Tail(s) # << >>
<1> DEFINE t == Tail(s)
<1>1. t \in Seq(S) /\ Len(t) = Len(s) - 1 /\ Len(s) \in Nat \ {0}
  OBVIOUS
<1> HIDE DEF t
<1>2. Len(<< >>) = 0
  OBVIOUS
<1>3. t # << >>
  BY <1>1, <1>2
<1> QED BY <1>3 DEF t

LEMMA Appended ==
  ASSUME NEW S, NEW s \in Seq(S), NEW x \in S
  PROVE  /\ Append(s, x) \in Seq(S) /\ Given(Append(s, x)) = Given(s) \cup {x}
         /\ Once(s) /\ x \notin Given(s) => Once(Append(s, x))
<1> DEFINE t == Append(s, x)
<1>1. /\ Len(s) \in Nat /\ DOMAIN s = 1..Len(s)
      /\ t \in Seq(S) /\ DOMAIN t = 1..Len(s) + 1 /\ t[Len(s) + 1] = x
      /\ \A i \in 1..Len(s) : t[i] = s[i]
  OBVIOUS
<1> HIDE DEF t
<1>2. \A i \in 1..Len(s) + 1 : i \in 1..Len(s) \/ i = Len(s) + 1
  BY <1>1
<1>3. Given(t) = Given(s) \cup {x}
  <2>1. Given(t) \subseteq Given(s) \cup {x}
    BY <1>1, <1>2 DEF Given
  <2>2. \A i \in 1..Len(s) : i \in 1..Len(s) + 1
    BY <1>1
  <2>3. Len(s) + 1 \in 1..Len(s) + 1
    BY <1>1
  <2>4. Given(s) \cup {x} \subseteq Given(t)
    BY <1>1, <2>2, <2>3 DEF Given
  <2> QED BY <2>1, <2>4
<1>4. ASSUME Once(s), x \notin Given(s) PROVE Once(t)
  <2> SUFFICES ASSUME NEW i \in 1..Len(s) + 1, NEW j \in 1..Len(s) + 1, t[i] = t[j] PROVE i = j
    BY <1>1 DEF Once
  <2>1. \A k \in 1..Len(s) : s[k] # x
    BY <1>1, <1>4 DEF Given
  <2> QED BY <1>1, <1>2, <1>4, <2>1 DEF Once
<1> QED BY <1>1, <1>3, <1>4 DEF t

LEMMA CutInTwo ==
  ASSUME NEW S, NEW s \in Seq(S), NEW n \in 0..Len(s)
  PROVE  LET a == SubSeq(s, 1, n)
             z == SubSeq(s, n + 1, Len(s))
         IN /\ a \in Seq(S) /\ z \in Seq(S) /\ Given(s) = Given(a) \cup Given(z)
            /\ Once(s) => Once(z) /\ Given(a) \cap Given(z) = {}
<1> DEFINE a == SubSeq(s, 1, n)
           z == SubSeq(s, n + 1, Len(s))
<1>1. /\ Len(s) \in Nat /\ DOMAIN s = 1..Len(s) /\ n \in Nat /\ n <= Len(s)
  OBVIOUS
<1>2. a \in Seq(S) /\ DOMAIN a = 1..n /\ \A i \in 1..n : a[i] = s[i]
  BY <1>1
<1>3. z \in Seq(S) /\ DOMAIN z = 1..Len(s) - n /\ \A i \in 1..Len(s) - n : z[i] = s[n + i]
  BY <1>1
<1> HIDE DEF a, z
<1>4. \A i \in 1..Len(s) : i \in 1..n \/ (i - n \in 1..Len(s) - n /\ n + (i - n) = i)
  BY <1>1
<1>5. (\A i \in 1..n : i \in 1..Len(s)) /\ (\A i \in 1..Len(s) - n : n + i \in 1..Len(s))
  BY <1>1
<1>6. Given(s) = Given(a) \cup Given(z)
  <2>1. ASSUME NEW i \in 1..Len(s) PROVE s[i] \in Given(a) \cup Given(z)
    <3>1. CASE i \in 1..n
      BY <1>2, <3>1 DEF Given
    <3>2. CASE i - n \in 1..Len(s) - n /\ n + (i - n) = i
      <4>1. z[i - n] = s[i]
        BY <1>3, <3>2
      <4> QED BY <1>3, <3>2, <4>1 DEF Given
    <3> QED BY <1>4, <3>1, <3>2
  <2>2. Given(s) \subseteq Given(a) \cup Given(z)
    BY <1>1, <2>1 DEF Given
  <2>3. Given(a) \cup Given(z) \subseteq Given(s)
    BY <1>1, <1>2, <1>3, <1>5 DEF Given
  <2> QED BY <2>2, <2>3
<1>7. ASSUME Once(s) PROVE Once(z) /\ Given(a) \cap Given(z) = {}
  <2>1. ASSUME NEW i \in 1..Len(s) - n, NEW j \in 1..Len(s) - n, z[i] = z[j] PROVE i = j
    <3>1. n + i = n + j
      BY <1>1, <1>3, <1>5, <1>7, <2>1 DEF Once
    <3> QED BY <1>1, <3>1
  <2>2. ASSUME NEW i \in 1..n, NEW j \in 1..Len(s) - n, a[i] = z[j] PROVE FALSE
    <3>1. i = n + j
      BY <1>1, <1>2, <1>3, <1>5, <1>7, <2>2 DEF Once
    <3> QED BY <1>1, <3>1
  <2>3. Once(z)
    BY <1>3, <2>1 DEF Once
  <2> QED BY <1>2, <1>3, <2>2, <2>3 DEF Given
<1> QED BY <1>2, <1>3, <1>6, <1>7 DEF a, z
----
(* The cache *)

LEMMA TakenOut ==
  ASSUME NEW S, NEW s \in Seq(S), Once(s), NEW p
  PROVE  /\ Without(s, p) \in Seq(S) /\ Once(Without(s, p))
         /\ Given(Without(s, p)) = Given(s) \ {p}
         /\ Len(Without(s, p)) = IF p \in Given(s) THEN Len(s) - 1 ELSE Len(s)
<1>1. Len(s) \in Nat /\ DOMAIN s = 1..Len(s) /\ \A i \in 1..Len(s) : s[i] \in S
  OBVIOUS
<1>2. CASE ~\E i \in DOMAIN s : s[i] = p
  BY <1>1, <1>2 DEF Without, Given
<1>3. CASE \E i \in DOMAIN s : s[i] = p
  <2> DEFINE at == CHOOSE i \in DOMAIN s : s[i] = p
             n == Len(s) - 1
             t == [i \in 1..n |-> s[IF i < at THEN i ELSE i + 1]]
  <2>1. at \in 1..Len(s) /\ s[at] = p
    BY <1>1, <1>3
  <2>2. Without(s, p) = t
    BY <1>3 DEF Without
  <2> HIDE DEF at
  <2>3. n \in Nat /\ \A i \in 1..n : i \in 1..Len(s) /\ i + 1 \in 1..Len(s)
    BY <1>1, <2>1
  <2>4. t \in Seq(S) /\ Len(t) = n /\ DOMAIN t = 1..n
    <3>1. t \in [1..n -> S]
      BY <1>1, <2>1, <2>3
    <3> HIDE DEF t, n
    <3> QED BY <2>3, <3>1
  <2>5. \A i \in 1..n : t[i] = s[IF i < at THEN i ELSE i + 1]
    OBVIOUS
  <2> HIDE DEF t
  <2>6. Once(t)
    <3> SUFFICES ASSUME NEW i \in 1..n, NEW j \in 1..n, t[i] = t[j] PROVE i = j
      BY <2>4 DEF Once
    <3>1. (IF i < at THEN i ELSE i + 1) = (IF j < at THEN j ELSE j + 1)
      BY <1>1, <2>3, <2>5 DEF Once
    <3> QED BY <2>1, <2>3, <3>1
  <2>7. Given(t) \subseteq Given(s) \ {p}
    <3> SUFFICES ASSUME NEW i \in 1..n PROVE t[i] \in Given(s) /\ t[i] # p
      BY <2>4 DEF Given
    <3>1. (IF i < at THEN i ELSE i + 1) \in 1..Len(s) /\ (IF i < at THEN i ELSE i + 1) # at
      BY <1>1, <2>1, <2>3
    <3> QED BY <1>1, <2>1, <2>5, <3>1 DEF Given, Once
  <2>8. Given(s) \ {p} \subseteq Given(t)
    <3> SUFFICES ASSUME NEW i \in 1..Len(s), s[i] # p PROVE s[i] \in Given(t)
      BY <1>1 DEF Given
    <3>1. CASE i < at
      <4>1. i \in 1..n /\ t[i] = s[i]
        BY <1>1, <2>1, <2>3, <2>5, <3>1
      <4> QED BY <2>4, <4>1 DEF Given
    <3>2. CASE ~(i < at)
      <4>1. i - 1 \in 1..n /\ ~(i - 1 < at) /\ (i - 1) + 1 = i
        BY <1>1, <2>1, <2>3, <3>2
      <4>2. t[i - 1] = s[i]
        BY <2>5, <4>1
      <4> QED BY <2>4, <4>1, <4>2 DEF Given
    <3> QED BY <3>1, <3>2
  <2>9. p \in Given(s)
    BY <1>1, <2>1 DEF Given
  <2> QED BY <2>2, <2>4, <2>6, <2>7, <2>8, <2>9
<1> QED BY <1>2, <1>3

LEMMA PutInFront ==
  ASSUME NEW S, NEW s \in Seq(S), Once(s), NEW p \in S
  PROVE  /\ MoveToFront(s, p) \in Seq(S) /\ Once(MoveToFront(s, p))
         /\ Given(MoveToFront(s, p)) = Given(s) \cup {p}
         /\ Len(MoveToFront(s, p)) = IF p \in Given(s) THEN Len(s) ELSE Len(s) + 1
<1> DEFINE w == Without(s, p)
           t == <<p>> \o w
<1>1. /\ w \in Seq(S) /\ Once(w) /\ Given(w) = Given(s) \ {p}
      /\ Len(w) = IF p \in Given(s) THEN Len(s) - 1 ELSE Len(s)
  BY TakenOut
<1>2. MoveToFront(s, p) = t
  BY DEF MoveToFront
<1> HIDE DEF w
<1>3. Len(w) \in Nat /\ DOMAIN w = 1..Len(w) /\ Len(s) \in Nat
  BY <1>1
<1>4. t \in Seq(S) /\ Len(t) = Len(w) + 1 /\ DOMAIN t = 1..Len(w) + 1 /\ t[1] = p
  BY <1>1
<1>5. \A i \in 1..Len(w) : t[i + 1] = w[i]
  BY <1>1, <1>3
<1> HIDE DEF t
<1>6. \A i \in 1..Len(w) + 1 : i = 1 \/ (i - 1 \in 1..Len(w) /\ t[i] = w[i - 1])
  BY <1>3, <1>5
<1>7. \A i \in 1..Len(w) : w[i] # p
  BY <1>1, <1>3 DEF Given
<1>8. Once(t)
  <2> SUFFICES ASSUME NEW i \in 1..Len(w) + 1, NEW j \in 1..Len(w) + 1, t[i] = t[j] PROVE i = j
    BY <1>4 DEF Once
  <2>1. CASE i = 1 \/ j = 1
    BY <1>4, <1>6, <1>7, <2>1
  <2>2. CASE i # 1 /\ j # 1
    <3>1. i - 1 = j - 1
      BY <1>1, <1>3, <1>6, <2>2 DEF Once
    <3> QED BY <3>1
  <2> QED BY <2>1, <2>2
<1>9. Given(t) = Given(w) \cup {p}
  <2>1. Given(t) \subseteq Given(w) \cup {p}
    BY <1>3, <1>4, <1>6 DEF Given
  <2>2. \A i \in 1..Len(w) : i + 1 \in 1..Len(w) + 1
    BY <1>3
  <2>3. 1 \in 1..Len(w) + 1
    BY <1>3
  <2>4. Given(w) \cup {p} \subseteq Given(t)
    BY <1>3, <1>4, <1>5, <2>2, <2>3 DEF Given
  <2> QED BY <2>1, <2>4
<1> QED BY <1>1, <1>2, <1>3, <1>4, <1>8, <1>9

\* What an answer m says of the hashes under prefix p is what the service has,
\* b, but for those it changed its mind about, at c[h], as late as Window before
\* time t.
Window == MaxTtl + MaxLatency
Right(m, p, t, b, c) ==
  \A h \in Hashes : Prefix[h] = p => (h \in m <=> h \in b) \/ c[h] + Window > t

Room == IF CacheCapacity < 0 THEN 0 ELSE CacheCapacity

\* The cache at time at: the map and the list agree, and every entry is right as
\* of Window before it expires.
CacheGood(k, at, b, c) ==
  /\ k = [entries |-> k.entries, lru |-> k.lru]
  /\ k.lru \in Seq(Prefixes) /\ Once(k.lru) /\ DOMAIN k.entries = Given(k.lru)
  /\ Len(k.lru) <= Room
  /\ \A p \in DOMAIN k.entries :
       /\ k.entries[p].matches \subseteq Hashes
       /\ k.entries[p].expires \in Int /\ k.entries[p].expires <= at + MaxTtl
       /\ Right(k.entries[p].matches, p, k.entries[p].expires - 1, b, c)

LEMMA EmptyGood ==
  ASSUME NEW at, NEW b, NEW c
  PROVE  CacheGood(EmptyCache, at, b, c)
<1>1. EmptyCache.entries = << >> /\ EmptyCache.lru = << >>
  BY DEF EmptyCache
<1>2. DOMAIN << >> = {} /\ << >> \in Seq(Prefixes) /\ Len(<< >>) = 0 /\ Given(<< >>) = {}
  BY DEF Given
<1>3. 0 <= Room
  BY CheckerAssumption DEF Room
<1> QED BY <1>1, <1>2, <1>3 DEF CacheGood, Once, EmptyCache

LEMMA RemovedGood ==
  ASSUME NEW at, NEW b, NEW c, NEW p, NEW k, k = [entries |-> k.entries, lru |-> k.lru],
         k.lru \in Seq(Prefixes), Once(k.lru), DOMAIN k.entries = Given(k.lru),
         p \in Given(k.lru), Len(k.lru) <= Room + 1,
         \A q \in DOMAIN k.entries :
           /\ k.entries[q].matches \subseteq Hashes
           /\ k.entries[q].expires \in Int /\ k.entries[q].expires <= at + MaxTtl
           /\ Right(k.entries[q].matches, q, k.entries[q].expires - 1, b, c)
  PROVE  CacheGood(Removed(k, p), at, b, c)
<1> DEFINE t == Removed(k, p)
<1>1. /\ t = [entries |-> t.entries, lru |-> t.lru]
      /\ t.entries = [q \in DOMAIN k.entries \ {p} |-> k.entries[q]]
      /\ t.lru = Without(k.lru, p)
  BY DEF Removed
<1>2. /\ t.lru \in Seq(Prefixes) /\ Once(t.lru) /\ Given(t.lru) = Given(k.lru) \ {p}
      /\ Len(t.lru) = Len(k.lru) - 1
  BY <1>1, TakenOut
<1>3. Len(k.lru) - 1 <= Room
  <2>1. Len(k.lru) \in Nat /\ Room \in Int
    BY CheckerAssumption DEF Room
  <2> QED BY <2>1
<1> HIDE DEF t
<1>4. DOMAIN t.entries = Given(t.lru) /\ \A q \in DOMAIN t.entries : t.entries[q] = k.entries[q]
  BY <1>1, <1>2
<1>5. \A q \in DOMAIN t.entries : q \in DOMAIN k.entries
  BY <1>2, <1>4
<1> QED BY <1>1, <1>2, <1>3, <1>4, <1>5 DEF CacheGood, t

LEMMA GetGood ==
  ASSUME NEW at, NEW b, NEW c, NEW k, CacheGood(k, at, b, c), NEW p, NEW t
  PROVE  CacheGood(AfterGet(k, p, t), at, b, c)
<1>1. CASE Hit(k, p, t)
  <2> DEFINE got == [entries |-> k.entries, lru |-> MoveToFront(k.lru, p)]
  <2>1. p \in DOMAIN k.entries
    BY <1>1 DEF Hit
  <2>2. p \in Given(k.lru) /\ p \in Prefixes
    BY <2>1 DEF CacheGood, Given
  <2>3. /\ MoveToFront(k.lru, p) \in Seq(Prefixes) /\ Once(MoveToFront(k.lru, p))
        /\ Given(MoveToFront(k.lru, p)) = Given(k.lru)
        /\ Len(MoveToFront(k.lru, p)) = Len(k.lru)
    <3>1. k.lru \in Seq(Prefixes) /\ Once(k.lru) /\ Given(k.lru) \cup {p} = Given(k.lru)
      BY <2>2 DEF CacheGood
    <3> QED BY <2>2, <3>1, PutInFront
  <2>4. AfterGet(k, p, t) = got
    BY <1>1 DEF AfterGet, CacheGood
  <2>5. CacheGood(got, at, b, c)
    BY <2>3 DEF CacheGood
  <2> QED BY <2>4, <2>5
<1>2. CASE ~Hit(k, p, t) /\ p \in DOMAIN k.entries
  <2>1. AfterGet(k, p, t) = Removed(k, p)
    BY <1>2 DEF AfterGet
  <2>2. Len(k.lru) <= Room + 1
    <3>1. Len(k.lru) \in Nat /\ Room \in Int
      BY CheckerAssumption DEF Room, CacheGood
    <3> QED BY <3>1 DEF CacheGood
  <2>3. /\ k = [entries |-> k.entries, lru |-> k.lru]
        /\ k.lru \in Seq(Prefixes) /\ Once(k.lru) /\ DOMAIN k.entries = Given(k.lru)
        /\ p \in Given(k.lru)
        /\ \A q \in DOMAIN k.entries :
             /\ k.entries[q].matches \subseteq Hashes
             /\ k.entries[q].expires \in Int /\ k.entries[q].expires <= at + MaxTtl
             /\ Right(k.entries[q].matches, q, k.entries[q].expires - 1, b, c)
    BY <1>2 DEF CacheGood
  <2>4. CacheGood(Removed(k, p), at, b, c)
    BY <2>2, <2>3, RemovedGood
  <2> QED BY <2>1, <2>4
<1>3. CASE ~Hit(k, p, t) /\ p \notin DOMAIN k.entries
  <2>1. AfterGet(k, p, t) = k
    BY <1>3 DEF AfterGet
  <2> QED BY <2>1
<1> QED BY <1>1, <1>2, <1>3

LEMMA PutGood ==
  ASSUME NEW at, NEW b, NEW c, NEW k, CacheGood(k, at, b, c), NEW p \in Prefixes,
         NEW m \in SUBSET Hashes, NEW e \in Int, e <= at + MaxTtl, Right(m, p, e - 1, b, c)
  PROVE  CacheGood(Put(k, p, Entry(m, e), CacheCapacity), at, b, c)
<1> DEFINE full == [entries |-> With(k.entries, p, Entry(m, e)), lru |-> MoveToFront(k.lru, p)]
           lru == MoveToFront(k.lru, p)
           entries == With(k.entries, p, Entry(m, e))
<1>1. /\ lru \in Seq(Prefixes) /\ Once(lru) /\ Given(lru) = Given(k.lru) \cup {p}
      /\ Len(lru) <= Len(k.lru) + 1
  <2>1. k.lru \in Seq(Prefixes) /\ Once(k.lru) /\ Len(k.lru) \in Nat
    BY DEF CacheGood
  <2>2. /\ lru \in Seq(Prefixes) /\ Once(lru) /\ Given(lru) = Given(k.lru) \cup {p}
        /\ Len(lru) = IF p \in Given(k.lru) THEN Len(k.lru) ELSE Len(k.lru) + 1
    BY <2>1, PutInFront
  <2> HIDE DEF lru
  <2> QED BY <2>1, <2>2
<1>2. /\ DOMAIN entries = {p} \cup DOMAIN k.entries
      /\ \A q \in DOMAIN entries : entries[q] = IF q = p THEN Entry(m, e) ELSE k.entries[q]
  BY DEF With
<1>3. Entry(m, e).matches = m /\ Entry(m, e).expires = e
  BY DEF Entry
<1>4. full.entries = entries /\ full.lru = lru /\ full = [entries |-> full.entries, lru |-> full.lru]
  OBVIOUS
<1>5. Put(k, p, Entry(m, e), CacheCapacity) =
        IF CacheCapacity <= 0 THEN k
        ELSE IF Len(full.lru) > CacheCapacity THEN Removed(full, full.lru[Len(full.lru)])
        ELSE full
  BY DEF Put
<1> HIDE DEF full, lru, entries
<1>6. \A q \in DOMAIN entries :
        /\ entries[q].matches \subseteq Hashes
        /\ entries[q].expires \in Int /\ entries[q].expires <= at + MaxTtl
        /\ Right(entries[q].matches, q, entries[q].expires - 1, b, c)
  BY <1>2, <1>3 DEF CacheGood
<1>7. DOMAIN entries = Given(lru)
  BY <1>1, <1>2 DEF CacheGood
<1>8. Len(lru) \in Nat /\ Len(k.lru) \in Nat /\ CacheCapacity \in Int /\ Len(lru) <= Room + 1
  BY <1>1, CheckerAssumption DEF CacheGood, Room
<1>9. CASE CacheCapacity <= 0
  BY <1>5, <1>9
<1>10. CASE ~(CacheCapacity <= 0) /\ Len(lru) > CacheCapacity
  <2>1. lru[Len(lru)] \in Given(lru)
    BY <1>1, <1>8, <1>10 DEF Given
  <2> QED BY <1>1, <1>4, <1>5, <1>6, <1>7, <1>8, <1>10, <2>1, RemovedGood
<1>11. CASE ~(CacheCapacity <= 0) /\ ~(Len(lru) > CacheCapacity)
  <2>1. Len(lru) <= Room
    BY <1>8, <1>11 DEF Room
  <2> QED BY <1>1, <1>4, <1>5, <1>6, <1>7, <1>11, <2>1 DEF CacheGood
<1> QED BY <1>8, <1>9, <1>10, <1>11
----
(* The state of a request *)

Stale(s, h, c) == c[h] + Window > s.started
Real(s, u, b, c) == \E h \in HashesOf(u) : h \in b \/ Stale(s, h, c)
Dismissed(s, u, h) ==
  \/ u \in s.checkedLocally /\ s.lists.ready /\ Prefix[h] \notin s.lists.threat
  \/ Prefix[h] \in s.failedOpen
\* A hash that makes its URL be reported.
Decisive(s, u, h, b, c) == h \in b /\ ~Stale(s, h, c) /\ ~Dismissed(s, u, h)

Fields ==
  {"pc", "canceled", "result", "mode", "urls", "lists", "local", "left", "wanted", "waiting",
   "batch", "answer", "expires", "memo", "found", "threats", "asked", "started", "calledAt",
   "answered", "checkedLocally", "failedOpen"}
Shape(s) ==
  /\ s = [f \in Fields |-> s[f]]
  /\ s.pc \in {"idle", "look", "call", "put", "done"} /\ s.found \in BOOLEAN
  /\ s.local \in BOOLEAN
  /\ s.urls \in Seq(Urls) /\ s.left \in Seq(Hashes) /\ s.wanted \in Seq(Prefixes)
  /\ s.batch \in Seq(Prefixes) /\ s.answer \subseteq Hashes
  /\ s.started \in Int /\ s.calledAt \in Int /\ s.expires \in Int

\* What a request knows between two checks as well as during one: its memo is
\* right, and so are its verdicts on the URLs that it is done with.
Kept(s, at, b, c) ==
  /\ Shape(s)
  /\ s.started <= at
  /\ Given(s.asked) \subseteq Urls /\ s.threats \subseteq Urls
  /\ s.answered \subseteq DOMAIN s.memo
  /\ \A p \in DOMAIN s.memo : Right(s.memo[p], p, s.started, b, c)
  /\ \A u \in s.threats : Real(s, u, b, c)
  /\ s.result \in {"none", "ok"} =>
       \A u \in Given(s.asked) \ Given(s.urls) : \A h \in HashesOf(u) :
         Decisive(s, u, h, b, c) => u \in s.threats

Checking(s) == s.pc \in {"look", "call", "put"}

\* During a check every hash that decides it has, or is still to be looked at, or
\* waits for an answer that is still to come.
Open(s, b, c) ==
  /\ s.result = "none" /\ s.urls # << >>
  /\ Given(s.left) \cup s.waiting \subseteq HashesOf(Head(s.urls))
  /\ s.local => Head(s.urls) \in s.checkedLocally /\ s.lists.ready
  /\ s.found => Real(s, Head(s.urls), b, c)
  /\ Once(s.wanted) /\ Given(s.wanted) \cap s.answered = {}
  /\ \A h \in HashesOf(Head(s.urls)) :
       Decisive(s, Head(s.urls), h, b, c) =>
         \/ s.found \/ h \in Given(s.left)
         \/ /\ h \in s.waiting
            /\ Prefix[h] \in Given(s.wanted) \cup (IF s.pc = "call" THEN Batch(s) ELSE {})

Calling(s, at, b, c) ==
  /\ s.started <= s.calledAt /\ s.calledAt <= at /\ at <= s.calledAt + MaxLatency
  /\ s.batch # << >> /\ Batch(s) \cap s.answered = {} /\ Batch(s) \cap Given(s.wanted) = {}
  /\ \A h \in s.answer : Prefix[h] \in Batch(s)
  /\ \A p \in Batch(s) : Right(s.answer, p, s.calledAt + Window - 1, b, c)

Putting(s, at, b, c) ==
  /\ s.batch # << >>
  /\ s.expires <= at + MaxTtl
  /\ \A p \in Batch(s) : Right(s.answer, p, s.expires - 1, b, c)

Good(s, at, b, c) ==
  /\ Kept(s, at, b, c)
  /\ Checking(s) => Open(s, b, c)
  /\ s.pc = "call" => Calling(s, at, b, c)
  /\ s.pc = "put" => Putting(s, at, b, c)
  /\ s.pc = "done" => s.urls = << >>

\* The inductive invariant.
Inv ==
  /\ now \in Nat /\ bad \subseteq Hashes /\ since \in [Hashes -> Int]
  /\ lists \in ListVersions
  /\ CacheGood(cache, now, bad, since)
  /\ req = [r \in Requests |-> req[r]]
  /\ \A r \in Requests : Good(req[r], now, bad, since)

LEMMA Bounds == Window \in Nat /\ MaxTtl \in Nat /\ MaxLatency \in Nat /\ MaxTtl >= 1 /\ Window >= MaxTtl
BY CheckerAssumption DEF Window

\* A hash of a URL.
LEMMA HashesAre ==
  ASSUME NEW u \in Urls
  PROVE  /\ HashesOf(u) \subseteq Hashes
         /\ Expressions[u] \in Seq(Hashes) /\ Given(Expressions[u]) = HashesOf(u)
<1>1. Expressions[u] \in Seq(Hashes)
  BY CheckerAssumption
<1> QED BY <1>1 DEF HashesOf, Given

LEMMA IdleShape == Shape(Idle)
<1>1. << >> \in Seq(Urls) /\ << >> \in Seq(Hashes) /\ << >> \in Seq(Prefixes)
  OBVIOUS
<1>2. Idle = [f \in Fields |-> Idle[f]]
  BY DEF Idle, Fields
<1> QED BY <1>1, <1>2 DEF Idle, Shape

LEMMA IdleGood ==
  ASSUME NEW at \in Nat, NEW b, NEW c PROVE Good(Idle, at, b, c)
<1>1. /\ Idle.pc = "idle" /\ Idle.started = 0 /\ Idle.answered = {} /\ Idle.memo = << >>
      /\ Idle.threats = {} /\ Idle.asked = << >> /\ DOMAIN << >> = {}
  BY DEF Idle
<1>2. Given(<< >>) = {}
  BY DEF Given
<1> QED BY <1>1, <1>2, IdleShape DEF Good, Kept, Checking

\* A request that has returned keeps what it is judged by.
Returning(s, result) ==
  [Idle EXCEPT !.pc = "done", !.result = result,
     !.threats = s.threats, !.asked = s.asked, !.started = s.started, !.lists = s.lists,
     !.checkedLocally = s.checkedLocally, !.failedOpen = s.failedOpen]

LEMMA ReturningGood ==
  ASSUME NEW at, NEW b, NEW c, NEW s, Kept(s, at, b, c), NEW result,
         \/ result \in {"canceled", "ErrNotReady"}
         \/ result = "ok" /\ s.result = "none" /\ s.urls = << >>
  PROVE  Good(Returning(s, result), at, b, c)
<1> DEFINE t == Returning(s, result)
<1>1. << >> \in Seq(Urls) /\ << >> \in Seq(Hashes) /\ << >> \in Seq(Prefixes) /\ DOMAIN << >> = {}
  OBVIOUS
<1>2. /\ Shape(t) /\ t.pc = "done" /\ t.result = result /\ t.threats = s.threats
      /\ t.asked = s.asked /\ t.started = s.started /\ t.lists = s.lists
      /\ t.checkedLocally = s.checkedLocally /\ t.failedOpen = s.failedOpen
      /\ t.urls = << >> /\ t.memo = << >> /\ t.answered = {}
  <2>1. /\ t.pc = "done" /\ t.result = result /\ t.threats = s.threats
        /\ t.asked = s.asked /\ t.started = s.started /\ t.lists = s.lists
        /\ t.checkedLocally = s.checkedLocally /\ t.failedOpen = s.failedOpen
        /\ t.urls = << >> /\ t.left = << >> /\ t.wanted = << >> /\ t.batch = << >>
        /\ t.answer = {} /\ t.memo = << >> /\ t.answered = {}
        /\ t.found \in BOOLEAN /\ t.local \in BOOLEAN /\ t.calledAt = 0 /\ t.expires = 0
    BY DEF Returning, Idle
  <2>2. t = [f \in Fields |-> t[f]]
    BY IdleShape DEF Returning, Shape, Fields
  <2>3. s.started \in Int
    BY DEF Kept, Shape
  <2> HIDE DEF t
  <2>4. /\ t.pc \in {"idle", "look", "call", "put", "done"}
        /\ t.found \in BOOLEAN /\ t.local \in BOOLEAN
        /\ t.started \in Int /\ t.calledAt \in Int /\ t.expires \in Int
    BY <2>1, <2>3
  <2>5. /\ t.urls \in Seq(Urls) /\ t.left \in Seq(Hashes) /\ t.wanted \in Seq(Prefixes)
        /\ t.batch \in Seq(Prefixes) /\ t.answer \subseteq Hashes
    BY <1>1, <2>1
  <2>6. Shape(t)
    BY <2>2, <2>4, <2>5 DEF Shape
  <2> QED BY <2>1, <2>6
<1> HIDE DEF t
<1>3. \A u, h : /\ Real(t, u, b, c) <=> Real(s, u, b, c)
                /\ Decisive(t, u, h, b, c) <=> Decisive(s, u, h, b, c)
  BY <1>2 DEF Real, Decisive, Stale, Dismissed
<1>4. Kept(t, at, b, c)
  BY <1>1, <1>2, <1>3 DEF Kept
<1>5. Good(t, at, b, c)
  BY <1>2, <1>4 DEF Good, Checking
<1> QED BY <1>5 DEF t

Beginning(s, local) ==
  [s EXCEPT !.pc = "look", !.local = local, !.left = Expressions[Head(s.urls)],
     !.wanted = << >>, !.waiting = {}, !.batch = << >>, !.answer = {}, !.calledAt = 0,
     !.checkedLocally = IF local THEN @ \cup {Head(s.urls)} ELSE @]

LEMMA BeginningGood ==
  ASSUME NEW at, NEW b, NEW c, NEW s, Kept(s, at, b, c), s.result = "none", s.urls # << >>,
         NEW local \in BOOLEAN, local => s.lists.ready,
         s.found => Real(s, Head(s.urls), b, c)
  PROVE  Good(Beginning(s, local), at, b, c)
<1> DEFINE t == Beginning(s, local)
           u0 == Head(s.urls)
<1>1. << >> \in Seq(Prefixes) /\ DOMAIN << >> = {}
  OBVIOUS
<1>2. Shape(s) /\ s.urls \in Seq(Urls) /\ s = [f \in Fields |-> s[f]]
  BY DEF Kept, Shape
<1>3. u0 \in Urls /\ Expressions[u0] \in Seq(Hashes) /\ Given(Expressions[u0]) = HashesOf(u0)
  BY <1>2, HeadAndTail, HashesAre
<1>4. /\ t.pc = "look" /\ t.local = local /\ t.left = Expressions[u0]
      /\ t.wanted = << >> /\ t.waiting = {} /\ t.batch = << >> /\ t.answer = {} /\ t.calledAt = 0
      /\ t.checkedLocally = IF local THEN s.checkedLocally \cup {u0} ELSE s.checkedLocally
      /\ t.result = s.result /\ t.urls = s.urls /\ t.lists = s.lists /\ t.expires = s.expires
      /\ t.memo = s.memo /\ t.found = s.found /\ t.threats = s.threats /\ t.asked = s.asked
      /\ t.started = s.started /\ t.answered = s.answered /\ t.failedOpen = s.failedOpen
      /\ t = [f \in Fields |-> t[f]]
  BY <1>2 DEF Beginning, Fields
<1> HIDE DEF t, u0
<1>5. Shape(t)
  BY <1>1, <1>2, <1>3, <1>4 DEF Shape
<1>6. \A u, h : /\ Real(t, u, b, c) <=> Real(s, u, b, c)
                /\ Decisive(t, u, h, b, c) => Decisive(s, u, h, b, c)
  BY <1>4 DEF Real, Decisive, Stale, Dismissed
<1>7. Kept(t, at, b, c)
  BY <1>4, <1>5, <1>6 DEF Kept
<1>8. Open(t, b, c)
  BY <1>1, <1>3, <1>4, <1>6 DEF Open, Once, Given, u0
<1>9. Good(t, at, b, c)
  BY <1>4, <1>7, <1>8 DEF Good
<1> QED BY <1>9 DEF t

LEMMA BeginCheckGood ==
  ASSUME NEW r, NEW at, NEW b, NEW c, NEW s, Kept(s, at, b, c), s.result = "none",
         s.urls # << >>, NEW local \in BOOLEAN, s.found => Real(s, Head(s.urls), b, c),
         BeginCheck(r, s, local)
  PROVE  \E t : Set(r, t) /\ Good(t, at, b, c)
<1>1. CASE local /\ ~s.lists.ready
  <2>1. Set(r, Returning(s, "ErrNotReady"))
    BY <1>1 DEF BeginCheck, Return, Returning
  <2>2. Good(Returning(s, "ErrNotReady"), at, b, c)
    BY ReturningGood
  <2> QED BY <2>1, <2>2
<1>2. CASE ~(local /\ ~s.lists.ready)
  <2>1. Set(r, Beginning(s, local))
    BY <1>2 DEF BeginCheck, BeginLook, Beginning
  <2>2. Good(Beginning(s, local), at, b, c)
    BY <1>2, BeginningGood
  <2> QED BY <2>1, <2>2
<1> QED BY <1>1, <1>2

LEMMA NextUrlGood ==
  ASSUME NEW r, NEW at, NEW b, NEW c, NEW s, Kept(s, at, b, c), s.result = "none",
         NextUrl(r, s)
  PROVE  \E t : Set(r, t) /\ Good(t, at, b, c)
<1>1. CASE s.canceled
  <2>1. Set(r, Returning(s, "canceled"))
    BY <1>1 DEF NextUrl, Return, Returning
  <2>2. Good(Returning(s, "canceled"), at, b, c)
    BY ReturningGood
  <2> QED BY <2>1, <2>2
<1>2. CASE ~s.canceled /\ s.urls = << >>
  <2>1. Set(r, Returning(s, "ok"))
    BY <1>2 DEF NextUrl, Return, Returning
  <2>2. Good(Returning(s, "ok"), at, b, c)
    BY <1>2, ReturningGood
  <2> QED BY <2>1, <2>2
<1>3. CASE ~s.canceled /\ s.urls # << >>
  <2> DEFINE t == [s EXCEPT !.found = FALSE]
             local == \/ s.mode = "local-list"
                      \/ HashesOf(Head(s.urls)) \cap s.lists.global # {}
  <2>1. s = [f \in Fields |-> s[f]]
    BY DEF Kept, Shape
  <2>2. /\ t.found \in BOOLEAN /\ ~t.found /\ t = [f \in Fields |-> t[f]]
        /\ \A f \in Fields \ {"found"} : t[f] = s[f]
    BY <2>1 DEF Fields
  <2>3. BeginCheck(r, t, local) /\ local \in BOOLEAN
    BY <1>3 DEF NextUrl
  <2> HIDE DEF t, local
  <2>4. /\ t.pc = s.pc /\ t.local = s.local /\ t.left = s.left /\ t.wanted = s.wanted
        /\ t.batch = s.batch /\ t.answer = s.answer /\ t.calledAt = s.calledAt
        /\ t.checkedLocally = s.checkedLocally /\ t.result = s.result /\ t.urls = s.urls
        /\ t.lists = s.lists /\ t.expires = s.expires /\ t.memo = s.memo
        /\ t.threats = s.threats /\ t.asked = s.asked /\ t.started = s.started
        /\ t.answered = s.answered /\ t.failedOpen = s.failedOpen
    BY <2>2 DEF Fields
  <2>5. Shape(t)
    BY <2>2, <2>4 DEF Kept, Shape
  <2>6. \A u, h : /\ Real(t, u, b, c) <=> Real(s, u, b, c)
                  /\ Decisive(t, u, h, b, c) <=> Decisive(s, u, h, b, c)
    BY <2>4 DEF Real, Decisive, Stale, Dismissed
  <2>7. Kept(t, at, b, c)
    BY <2>4, <2>5, <2>6 DEF Kept
  <2> QED BY <1>3, <2>2, <2>3, <2>4, <2>7, BeginCheckGood
<1> QED BY <1>1, <1>2, <1>3
----
(* The steps of a request *)

\* Nothing that a step of request r leaves alone breaks the invariant.
LEMMA RequestStep ==
  ASSUME Inv, NEW r \in Requests, NEW t, Set(r, t), Good(t, now, bad, since),
         CacheGood(cache', now, bad, since), UNCHANGED <<now, bad, since, lists>>
  PROVE  Inv'
<1>1. req = [q \in Requests |-> req[q]]
  BY DEF Inv
<1>2. req' = [q \in Requests |-> IF q = r THEN t ELSE req[q]]
  BY <1>1 DEF Set
<1>3. req' = [q \in Requests |-> req'[q]]
  BY <1>2
<1>4. \A q \in Requests : Good(req'[q], now, bad, since)
  BY <1>2 DEF Inv
<1> QED BY <1>3, <1>4 DEF Inv

LEMMA StartKeeps ==
  ASSUME Inv, NEW r \in Requests, Start(r)
  PROVE  Inv'
<1>1. PICK urls \in UrlLists, mode \in Modes :
        NextUrl(r, [Idle EXCEPT !.urls = urls, !.mode = mode, !.lists = lists,
                                !.asked = urls, !.started = now])
  BY DEF Start
<1> DEFINE s == [Idle EXCEPT !.urls = urls, !.mode = mode, !.lists = lists,
                             !.asked = urls, !.started = now]
<1>2. urls \in Seq(Urls)
  BY CheckerAssumption
<1>3. /\ s.urls = urls /\ s.asked = urls /\ s.started = now /\ s.result = "none"
      /\ s.answered = {} /\ s.memo = << >> /\ s.threats = {}
      /\ s.pc = Idle.pc /\ s.found \in BOOLEAN /\ s.local \in BOOLEAN /\ s.left = Idle.left
      /\ s.wanted = Idle.wanted /\ s.batch = Idle.batch /\ s.answer = Idle.answer
      /\ s.calledAt = Idle.calledAt /\ s.expires = Idle.expires
  BY DEF Idle
<1>4. s = [f \in Fields |-> s[f]]
  BY IdleShape DEF Shape
<1>5. NextUrl(r, s) /\ DOMAIN << >> = {}
  BY <1>1
<1> HIDE DEF s
<1>6. Shape(s)
  <2>1. now \in Int
    BY DEF Inv
  <2> QED BY <1>2, <1>3, <1>4, <2>1, IdleShape DEF Shape
<1>7. Kept(s, now, bad, since)
  <2>1. Given(urls) \subseteq Urls
    BY <1>2 DEF Given
  <2>2. now <= now
    BY DEF Inv
  <2> QED BY <1>3, <1>5, <1>6, <2>1, <2>2 DEF Kept
<1>8. PICK t : Set(r, t) /\ Good(t, now, bad, since)
  BY <1>3, <1>5, <1>7, NextUrlGood
<1>9. CacheGood(cache', now, bad, since) /\ UNCHANGED <<now, bad, since, lists>>
  BY DEF Start, Inv
<1> QED BY <1>8, <1>9, RequestStep

LEMMA StopKeeps ==
  ASSUME Inv, NEW r \in Requests, Stop(r)
  PROVE  Inv'
<1>1. Kept(req[r], now, bad, since)
  BY DEF Inv, Good
<1>2. Good(Returning(req[r], "canceled"), now, bad, since)
  BY <1>1, ReturningGood
<1>3. Set(r, Returning(req[r], "canceled"))
  BY DEF Stop, Return, Returning
<1>4. CacheGood(cache', now, bad, since) /\ UNCHANGED <<now, bad, since, lists>>
  BY DEF Stop, Inv
<1> QED BY <1>2, <1>3, <1>4, RequestStep

\* One hash of the URL is looked at, and if it decides the URL it is remembered
\* as found or as asked for.
LEMMA LookedGood ==
  ASSUME NEW at, NEW b, NEW c, NEW s, Good(s, at, b, c), s.pc = "look", s.left # << >>,
         NEW t, t = [f \in Fields |-> t[f]],
         \A f \in Fields \ {"left", "found", "memo", "waiting", "wanted"} : t[f] = s[f],
         t.left = Tail(s.left), t.found \in BOOLEAN, s.found => t.found,
         t.found => Real(s, Head(s.urls), b, c),
         DOMAIN s.memo \subseteq DOMAIN t.memo,
         \A p \in DOMAIN t.memo : Right(t.memo[p], p, s.started, b, c),
         t.wanted \in Seq(Prefixes), Once(t.wanted), Given(s.wanted) \subseteq Given(t.wanted),
         Given(t.wanted) \cap s.answered = {},
         s.waiting \subseteq t.waiting, t.waiting \subseteq HashesOf(Head(s.urls)),
         Decisive(s, Head(s.urls), Head(s.left), b, c) =>
           \/ t.found
           \/ Head(s.left) \in t.waiting /\ Prefix[Head(s.left)] \in Given(t.wanted)
  PROVE  Good(t, at, b, c)
<1>1. /\ t.pc = s.pc /\ t.local = s.local
      /\ t.batch = s.batch /\ t.answer = s.answer /\ t.calledAt = s.calledAt
      /\ t.checkedLocally = s.checkedLocally /\ t.result = s.result /\ t.urls = s.urls
      /\ t.lists = s.lists /\ t.expires = s.expires
      /\ t.threats = s.threats /\ t.asked = s.asked /\ t.started = s.started
      /\ t.answered = s.answered /\ t.failedOpen = s.failedOpen
  BY DEF Fields
<1>2. Kept(s, at, b, c) /\ Open(s, b, c) /\ Shape(s)
  BY DEF Good, Checking, Kept
<1>3. /\ Head(s.left) \in Hashes /\ Tail(s.left) \in Seq(Hashes)
      /\ Given(s.left) = {Head(s.left)} \cup Given(Tail(s.left))
  BY <1>2, HeadAndTail DEF Shape
<1>4. Shape(t)
  BY <1>1, <1>2, <1>3 DEF Shape
<1>5. \A u, h : /\ Real(t, u, b, c) <=> Real(s, u, b, c)
                /\ Decisive(t, u, h, b, c) <=> Decisive(s, u, h, b, c)
  BY <1>1 DEF Real, Decisive, Stale, Dismissed
<1>6. Kept(t, at, b, c)
  BY <1>1, <1>2, <1>4, <1>5 DEF Kept
<1>7. Open(t, b, c)
  <2>1. ASSUME NEW h \in HashesOf(Head(s.urls)), Decisive(s, Head(s.urls), h, b, c)
        PROVE  \/ t.found \/ h \in Given(t.left)
               \/ h \in t.waiting /\ Prefix[h] \in Given(t.wanted)
    <3>1. \/ s.found \/ h = Head(s.left) \/ h \in Given(Tail(s.left))
          \/ h \in s.waiting /\ Prefix[h] \in Given(s.wanted)
      BY <1>2, <1>3, <2>1 DEF Open
    <3> QED BY <2>1, <3>1
  <2>2. Given(t.left) \cup t.waiting \subseteq HashesOf(Head(s.urls))
    BY <1>2, <1>3 DEF Open
  <2> QED BY <1>1, <1>2, <1>5, <2>1, <2>2 DEF Open
<1> QED BY <1>1, <1>6, <1>7 DEF Good

\* What right matches m of its prefix say of a hash.
LEMMA Verdict ==
  ASSUME NEW at, NEW b, NEW c, NEW s, NEW u, NEW h \in HashesOf(u), h \in Hashes, NEW m,
         Right(m, Prefix[h], s.started, b, c)
  PROVE  /\ h \in m => Real(s, u, b, c)
         /\ Decisive(s, u, h, b, c) => h \in m
BY DEF Right, Real, Decisive, Stale

LEMMA LookKeeps ==
  ASSUME Inv, NEW r \in Requests, Look(r)
  PROVE  Inv'
<1> DEFINE s == req[r]
           u0 == Head(s.urls)
           h == Head(s.left)
           p == Prefix[h]
           rest == [s EXCEPT !.left = Tail(@)]
           again == \E i \in DOMAIN s.wanted : s.wanted[i] = p
           found == [rest EXCEPT !.memo = With(@, p, cache.entries[p].matches)]
           wanted == IF again THEN rest.wanted ELSE Append(rest.wanted, p)
           asking == [rest EXCEPT !.waiting = @ \cup {h}, !.wanted = wanted]
<1>1. /\ s.pc = "look" /\ s.left # << >>
      /\ UNCHANGED <<now, bad, since, lists>>
      /\ IF Known(s, p)
         THEN Set(r, Collect(rest, h, s.memo[p])) /\ UNCHANGED cache
         ELSE /\ cache' = AfterGet(cache, p, now)
              /\ Set(r, IF Hit(cache, p, now) THEN Collect(found, h, cache.entries[p].matches)
                        ELSE IF s.local /\ p \notin s.lists.threat THEN rest ELSE asking)
  BY DEF Look
<1>2. Good(s, now, bad, since) /\ CacheGood(cache, now, bad, since) /\ now \in Nat
  BY DEF Inv
<1> HIDE DEF s
<1>3. Kept(s, now, bad, since) /\ Open(s, bad, since) /\ Shape(s)
  BY <1>1, <1>2 DEF Good, Checking, Kept
<1>4. s = [f \in Fields |-> s[f]] /\ s.found \in BOOLEAN
  BY <1>3 DEF Shape
<1>5. CacheGood(cache', now, bad, since)
  <2>1. CASE Known(s, p)
    BY <1>1, <1>2, <2>1 DEF CacheGood
  <2>2. CASE ~Known(s, p)
    <3>1. CacheGood(AfterGet(cache, p, now), now, bad, since)
      BY <1>2, GetGood
    <3> QED BY <1>1, <2>2, <3>1
  <2> QED BY <2>1, <2>2
<1>6. h \in HashesOf(u0) /\ h \in Hashes /\ p \in Prefixes
  <2>1. h \in Given(s.left) /\ h \in Hashes
    BY <1>1, <1>3, HeadAndTail DEF Shape
  <2> QED BY <1>3, <2>1 DEF Open, Prefixes
<1>7. /\ rest = [f \in Fields |-> rest[f]] /\ rest.left = Tail(s.left)
      /\ \A f \in Fields \ {"left"} : rest[f] = s[f]
      /\ rest.memo = s.memo /\ rest.waiting = s.waiting /\ rest.wanted = s.wanted
      /\ rest.found \in BOOLEAN /\ (rest.found <=> s.found)
  BY <1>4 DEF Fields
<1> HIDE DEF rest
<1>8. /\ s.found => Real(s, u0, bad, since)
      /\ \A q \in DOMAIN s.memo : Right(s.memo[q], q, s.started, bad, since)
      /\ s.wanted \in Seq(Prefixes) /\ Once(s.wanted) /\ Given(s.wanted) \cap s.answered = {}
      /\ s.answered \subseteq DOMAIN s.memo
      /\ s.waiting \subseteq HashesOf(u0)
  BY <1>3 DEF Open, Kept, Shape
<1>9. CASE Known(s, p)
  <2> DEFINE t == Collect(rest, h, s.memo[p])
  <2>1. /\ t = [f \in Fields |-> t[f]] /\ t.left = Tail(s.left)
        /\ \A f \in Fields \ {"left", "found"} : t[f] = s[f]
        /\ t.memo = s.memo /\ t.waiting = s.waiting /\ t.wanted = s.wanted
        /\ t.found \in BOOLEAN /\ (t.found <=> s.found \/ h \in s.memo[p])
    BY <1>7 DEF Collect, Fields
  <2>2. Right(s.memo[p], p, s.started, bad, since)
    BY <1>8, <1>9 DEF Known
  <2>3. Set(r, t)
    BY <1>1, <1>9
  <2> HIDE DEF t
  <2>4. /\ t.found => Real(s, u0, bad, since)
        /\ Decisive(s, u0, h, bad, since) => t.found
    BY <1>6, <1>8, <2>1, <2>2, Verdict
  <2>5. Good(t, now, bad, since)
    BY <1>1, <1>2, <1>8, <2>1, <2>4, LookedGood
  <2> QED BY <1>1, <1>5, <2>3, <2>5, RequestStep
<1>10. CASE ~Known(s, p) /\ Hit(cache, p, now)
  <2> DEFINE m == cache.entries[p].matches
             t == Collect(found, h, m)
  <2>1. /\ t = [f \in Fields |-> t[f]] /\ t.left = Tail(s.left)
        /\ \A f \in Fields \ {"left", "found", "memo"} : t[f] = s[f]
        /\ t.memo = With(s.memo, p, m) /\ t.waiting = s.waiting /\ t.wanted = s.wanted
        /\ t.found \in BOOLEAN /\ (t.found <=> s.found \/ h \in m)
    BY <1>7 DEF Collect, Fields
  <2>2. Right(m, p, s.started, bad, since)
    <3>1. /\ p \in DOMAIN cache.entries /\ now < cache.entries[p].expires
          /\ cache.entries[p].expires \in Int
          /\ Right(m, p, cache.entries[p].expires - 1, bad, since)
      BY <1>2, <1>10 DEF Hit, CacheGood
    <3>2. s.started \in Int /\ s.started <= now /\ since \in [Hashes -> Int]
      BY <1>3 DEF Kept, Shape, Inv
    <3> HIDE DEF m
    <3> QED BY <1>2, <3>1, <3>2, Bounds DEF Right
  <2>3. Set(r, t)
    BY <1>1, <1>10
  <2>4. /\ DOMAIN t.memo = DOMAIN s.memo \cup {p}
        /\ \A q \in DOMAIN t.memo : t.memo[q] = IF q = p THEN m ELSE s.memo[q]
    <3> HIDE DEF t, m
    <3> QED BY <2>1 DEF With
  <2> HIDE DEF t, m
  <2>5. \A q \in DOMAIN t.memo : Right(t.memo[q], q, s.started, bad, since)
    BY <1>8, <2>2, <2>4
  <2>6. /\ t.found => Real(s, u0, bad, since)
        /\ Decisive(s, u0, h, bad, since) => t.found
    BY <1>6, <1>8, <2>1, <2>2, Verdict
  <2>7. Good(t, now, bad, since)
    BY <1>1, <1>2, <1>8, <2>1, <2>4, <2>5, <2>6, LookedGood
  <2> QED BY <1>1, <1>5, <2>3, <2>7, RequestStep
<1>11. CASE ~Known(s, p) /\ ~Hit(cache, p, now) /\ s.local /\ p \notin s.lists.threat
  <2>1. Set(r, rest)
    BY <1>1, <1>11
  <2>2. ~Decisive(s, u0, h, bad, since)
    BY <1>3, <1>11 DEF Open, Decisive, Dismissed
  <2>3. /\ rest.found => Real(s, u0, bad, since)
        /\ \A f \in Fields \ {"left", "found", "memo", "waiting", "wanted"} : rest[f] = s[f]
        /\ DOMAIN s.memo \subseteq DOMAIN rest.memo
        /\ \A q \in DOMAIN rest.memo : Right(rest.memo[q], q, s.started, bad, since)
        /\ rest.wanted \in Seq(Prefixes) /\ Once(rest.wanted)
        /\ Given(s.wanted) \subseteq Given(rest.wanted) /\ Given(rest.wanted) \cap s.answered = {}
        /\ s.waiting \subseteq rest.waiting /\ rest.waiting \subseteq HashesOf(u0)
    BY <1>7, <1>8
  <2>4. Good(rest, now, bad, since)
    <3>1. /\ rest = [f \in Fields |-> rest[f]] /\ rest.left = Tail(s.left)
          /\ rest.found \in BOOLEAN /\ (s.found => rest.found)
          /\ s.pc = "look" /\ s.left # << >> /\ Good(s, now, bad, since)
          /\ ~Decisive(s, Head(s.urls), Head(s.left), bad, since)
      BY <1>1, <1>2, <1>7, <2>2
    <3> QED BY <2>3, <3>1, LookedGood
  <2> QED BY <1>1, <1>5, <2>1, <2>4, RequestStep
<1>12. CASE ~Known(s, p) /\ ~Hit(cache, p, now) /\ ~(s.local /\ p \notin s.lists.threat)
  <2>1. Set(r, asking)
    BY <1>1, <1>12
  <2>2. again <=> p \in Given(s.wanted)
    BY DEF Given
  <2> HIDE DEF again
  <2>3. wanted = IF again THEN s.wanted ELSE Append(s.wanted, p)
    BY <1>7
  <2> HIDE DEF wanted
  <2>4. /\ asking = [f \in Fields |-> asking[f]] /\ asking.left = Tail(s.left)
        /\ \A f \in Fields \ {"left", "waiting", "wanted"} : asking[f] = s[f]
        /\ asking.memo = s.memo /\ asking.waiting = s.waiting \cup {h}
        /\ asking.wanted = wanted
        /\ asking.found \in BOOLEAN /\ (asking.found <=> s.found)
    <3> HIDE DEF h
    <3>1. asking = [f \in Fields |-> asking[f]]
      BY <1>7
    <3>2. \A f \in Fields \ {"waiting", "wanted"} : asking[f] = rest[f]
      BY <1>7
    <3>3. asking.waiting = s.waiting \cup {h} /\ asking.wanted = wanted
      BY <1>7 DEF Fields
    <3>4. /\ asking.left = rest.left /\ asking.memo = rest.memo
          /\ rest.found \in BOOLEAN => asking.found \in BOOLEAN /\ (asking.found <=> rest.found)
      BY <1>7 DEF Fields
    <3>5. \A f \in Fields \ {"left", "waiting", "wanted"} : asking[f] = s[f]
      BY <1>7, <3>2
    <3> HIDE DEF asking
    <3>6. asking.found \in BOOLEAN /\ (asking.found <=> s.found)
      BY <1>7, <3>4
    <3> QED BY <1>7, <3>1, <3>3, <3>4, <3>5, <3>6
  <2> HIDE DEF asking
  <2>5. p \notin s.answered
    BY <1>8, <1>12 DEF Known
  <2>6. /\ asking.wanted \in Seq(Prefixes) /\ Once(asking.wanted)
        /\ Given(asking.wanted) = Given(s.wanted) \cup {p}
    <3>1. CASE again
      <4>1. asking.wanted = s.wanted
        BY <2>3, <2>4, <3>1
      <4> QED BY <1>8, <2>2, <3>1, <4>1
    <3>2. CASE ~again
      <4>1. asking.wanted = Append(s.wanted, p)
        BY <2>3, <2>4, <3>2
      <4> QED BY <1>6, <1>8, <2>2, <3>2, <4>1, Appended
    <3> QED BY <3>1, <3>2
  <2>7. /\ asking.found => Real(s, u0, bad, since)
        /\ Given(asking.wanted) \cap s.answered = {}
        /\ asking.waiting \subseteq HashesOf(u0)
        /\ h \in asking.waiting /\ p \in Given(asking.wanted)
    BY <1>6, <1>8, <2>4, <2>5, <2>6
  <2>8. Good(asking, now, bad, since)
    BY <1>1, <1>2, <1>8, <2>4, <2>6, <2>7, LookedGood
  <2> QED BY <1>1, <1>5, <2>1, <2>8, RequestStep
<1> QED BY <1>9, <1>10, <1>11, <1>12

LEMMA EndCheckKeeps ==
  ASSUME Inv, NEW r \in Requests, EndCheck(r)
  PROVE  Inv'
<1> DEFINE s == req[r]
           u0 == Head(s.urls)
           threats == IF s.found THEN s.threats \cup {u0} ELSE s.threats
           t == [s EXCEPT !.urls = Tail(@), !.threats = threats]
<1>1. /\ s.pc = "look" /\ s.left = << >> /\ s.wanted = << >>
      /\ UNCHANGED <<now, bad, since, lists, cache>> /\ NextUrl(r, t)
  BY DEF EndCheck
<1>2. Good(s, now, bad, since) /\ CacheGood(cache, now, bad, since)
  BY DEF Inv
<1> HIDE DEF s
<1>3. Kept(s, now, bad, since) /\ Open(s, bad, since) /\ Shape(s)
  BY <1>1, <1>2 DEF Good, Checking, Kept
<1>4. s = [f \in Fields |-> s[f]] /\ s.found \in BOOLEAN /\ s.urls \in Seq(Urls) /\ s.urls # << >>
  BY <1>3 DEF Shape, Open
<1>5. /\ Tail(s.urls) \in Seq(Urls) /\ Given(s.urls) = {u0} \cup Given(Tail(s.urls))
  BY <1>4, HeadAndTail
<1> HIDE DEF threats
<1>6. /\ t = [f \in Fields |-> t[f]] /\ t.urls = Tail(s.urls) /\ t.threats = threats
      /\ \A f \in Fields \ {"urls", "threats"} : t[f] = s[f]
  BY <1>4 DEF Fields
<1>7. NextUrl(r, t)
  BY <1>1
<1> HIDE DEF t
<1>8. /\ t.pc = s.pc /\ t.local = s.local /\ t.left = s.left /\ t.wanted = s.wanted
      /\ t.batch = s.batch /\ t.answer = s.answer /\ t.calledAt = s.calledAt
      /\ t.checkedLocally = s.checkedLocally /\ t.result = s.result
      /\ t.lists = s.lists /\ t.expires = s.expires /\ t.memo = s.memo /\ t.found = s.found
      /\ t.asked = s.asked /\ t.started = s.started
      /\ t.answered = s.answered /\ t.failedOpen = s.failedOpen
  BY <1>6 DEF Fields
<1>9. Shape(t)
  BY <1>3, <1>5, <1>6, <1>8 DEF Shape
<1>10. \A u, h : /\ Real(t, u, bad, since) <=> Real(s, u, bad, since)
                 /\ Decisive(t, u, h, bad, since) <=> Decisive(s, u, h, bad, since)
  BY <1>8 DEF Real, Decisive, Stale, Dismissed
<1>11. /\ s.threats \subseteq t.threats /\ t.threats \subseteq Urls
       /\ \A u \in t.threats : Real(s, u, bad, since)
  <2>1. u0 \in Urls
    BY <1>4, HeadAndTail
  <2> QED BY <1>3, <1>6, <2>1 DEF threats, Kept, Open
<1>12. ASSUME NEW h \in HashesOf(u0), Decisive(s, u0, h, bad, since)
       PROVE  u0 \in t.threats
  <2>1. s.found
    BY <1>1, <1>3, <1>12 DEF Open, Given
  <2> QED BY <1>6, <2>1 DEF threats
<1>13. ASSUME NEW u \in Given(s.asked) \ Given(t.urls), NEW h \in HashesOf(u),
              Decisive(s, u, h, bad, since)
       PROVE  u \in t.threats
  <2>1. CASE u = u0
    BY <1>12, <1>13, <2>1
  <2>2. CASE u # u0
    <3>1. u \in Given(s.asked) \ Given(s.urls)
      BY <1>5, <1>6, <2>2
    <3> QED BY <1>3, <1>11, <1>13, <3>1 DEF Kept, Open
  <2> QED BY <2>1, <2>2
<1>14. Kept(t, now, bad, since)
  BY <1>3, <1>8, <1>9, <1>10, <1>11, <1>13 DEF Kept
<1>15. PICK n : Set(r, n) /\ Good(n, now, bad, since)
  BY <1>3, <1>7, <1>8, <1>14, NextUrlGood DEF Open
<1>16. CacheGood(cache', now, bad, since)
  BY <1>1, <1>2
<1> QED BY <1>1, <1>15, <1>16, RequestStep

LEMMA CallKeeps ==
  ASSUME Inv, NEW r \in Requests, Call(r)
  PROVE  Inv'
<1> DEFINE s == req[r]
           n == Min2(BatchSize, Len(s.wanted))
           batch == SubSeq(s.wanted, 1, n)
           rest == SubSeq(s.wanted, n + 1, Len(s.wanted))
           answer == {h \in bad : \E i \in DOMAIN batch : batch[i] = Prefix[h]}
           t == [s EXCEPT !.pc = "call", !.batch = batch, !.wanted = rest, !.calledAt = now,
                          !.answer = answer]
<1>1. /\ s.pc = "look" /\ s.wanted # << >>
      /\ UNCHANGED <<now, bad, since, lists, cache>> /\ Set(r, t)
  BY DEF Call
<1>2. /\ Good(s, now, bad, since) /\ CacheGood(cache, now, bad, since)
      /\ now \in Nat /\ bad \subseteq Hashes
  BY DEF Inv
<1> HIDE DEF s
<1>3. Kept(s, now, bad, since) /\ Open(s, bad, since) /\ Shape(s)
  BY <1>1, <1>2 DEF Good, Checking, Kept
<1>4. s = [f \in Fields |-> s[f]] /\ s.wanted \in Seq(Prefixes) /\ Once(s.wanted)
  BY <1>3 DEF Shape, Open
<1>5. n \in 1..Len(s.wanted) /\ Len(s.wanted) \in Nat
  BY <1>1, <1>4, CheckerAssumption DEF Min2
<1> HIDE DEF n
<1>6. /\ batch \in Seq(Prefixes) /\ rest \in Seq(Prefixes) /\ Once(rest)
      /\ Given(s.wanted) = Given(batch) \cup Given(rest) /\ Given(batch) \cap Given(rest) = {}
  <2>1. n \in 0..Len(s.wanted)
    BY <1>5
  <2> QED BY <1>4, <2>1, CutInTwo
<1>7. batch # << >>
  <2>1. Len(batch) = n
    BY <1>4, <1>5
  <2> QED BY <1>5, <2>1
<1>8. /\ answer \subseteq Hashes /\ \A h \in answer : Prefix[h] \in Given(batch)
      /\ \A h \in bad : Prefix[h] \in Given(batch) => h \in answer
      /\ answer \subseteq bad
  BY <1>2 DEF Given
<1> HIDE DEF batch, rest, answer
<1>9. /\ t.pc = "call" /\ t.batch = batch /\ t.wanted = rest /\ t.calledAt = now /\ t.answer = answer
      /\ t.local = s.local /\ t.left = s.left /\ t.waiting = s.waiting
      /\ t.checkedLocally = s.checkedLocally /\ t.result = s.result /\ t.urls = s.urls
      /\ t.lists = s.lists /\ t.expires = s.expires /\ t.memo = s.memo /\ t.found = s.found
      /\ t.threats = s.threats /\ t.asked = s.asked /\ t.started = s.started
      /\ t.answered = s.answered /\ t.failedOpen = s.failedOpen
      /\ t = [f \in Fields |-> t[f]]
  BY <1>4 DEF Fields
<1>10. Set(r, t)
  BY <1>1
<1> HIDE DEF t
<1>11. Shape(t)
  BY <1>2, <1>3, <1>6, <1>8, <1>9 DEF Shape
<1>12. \A u, h : /\ Real(t, u, bad, since) <=> Real(s, u, bad, since)
                 /\ Decisive(t, u, h, bad, since) <=> Decisive(s, u, h, bad, since)
  BY <1>9 DEF Real, Decisive, Stale, Dismissed
<1>13. Kept(t, now, bad, since)
  BY <1>3, <1>9, <1>11, <1>12 DEF Kept
<1>14. Batch(t) = Given(batch)
  BY <1>9 DEF Batch, Given
<1>15. Open(t, bad, since)
  <2>1. ASSUME NEW h \in HashesOf(Head(s.urls)), Decisive(s, Head(s.urls), h, bad, since)
        PROVE  \/ s.found \/ h \in Given(s.left)
               \/ h \in s.waiting /\ Prefix[h] \in Given(rest) \cup Given(batch)
    <3>1. \/ s.found \/ h \in Given(s.left)
          \/ h \in s.waiting /\ Prefix[h] \in Given(s.wanted)
      BY <1>1, <1>3, <2>1 DEF Open
    <3> QED BY <1>6, <3>1
  <2>2. /\ s.result = "none" /\ s.urls # << >>
        /\ Given(s.left) \cup s.waiting \subseteq HashesOf(Head(s.urls))
        /\ s.local => Head(s.urls) \in s.checkedLocally /\ s.lists.ready
        /\ s.found => Real(s, Head(s.urls), bad, since)
        /\ Given(s.wanted) \cap s.answered = {}
    BY <1>3 DEF Open
  <2>3. Once(rest) /\ Given(rest) \cap s.answered = {}
    BY <1>6, <2>2
  <2> QED BY <1>9, <1>12, <1>14, <2>1, <2>2, <2>3 DEF Open
<1>16. Calling(t, now, bad, since)
  <2>1. \A p \in Batch(t) : Right(t.answer, p, now + Window - 1, bad, since)
    BY <1>8, <1>9, <1>14 DEF Right
  <2>2. s.started <= now /\ now <= now + MaxLatency
    BY <1>2, <1>3, Bounds DEF Kept
  <2>3. Given(batch) \cap s.answered = {}
    BY <1>3, <1>6 DEF Open
  <2>4. now <= now
    BY <1>2
  <2> QED BY <1>6, <1>7, <1>8, <1>9, <1>14, <2>1, <2>2, <2>3, <2>4 DEF Calling
<1>17. Good(t, now, bad, since)
  BY <1>9, <1>13, <1>15, <1>16 DEF Good
<1>18. CacheGood(cache', now, bad, since)
  BY <1>1, <1>2
<1> QED BY <1>1, <1>10, <1>17, <1>18, RequestStep

LEMMA ReturnedKeeps ==
  ASSUME Inv, NEW r \in Requests, Returned(r)
  PROVE  Inv'
<1> DEFINE s == req[r]
           u0 == Head(s.urls)
           hit == s.waiting \cap s.answer # {}
           still == {h \in s.waiting : Prefix[h] \notin Batch(s)}
           State(ttl) ==
             [s EXCEPT !.pc = IF ttl > 0 THEN "put" ELSE "look",
                !.memo = Remembered(s, ttl), !.found = @ \/ hit,
                !.expires = IF ttl > 0 THEN now + ttl ELSE 0,
                !.calledAt = 0, !.waiting = still, !.answered = @ \cup Batch(s),
                !.batch = IF ttl > 0 THEN @ ELSE << >>,
                !.answer = IF ttl > 0 THEN @ ELSE {}]
<1>1. /\ s.pc = "call"
      /\ UNCHANGED <<now, bad, since, lists, cache>>
      /\ \E ttl \in 0..MaxTtl : Set(r, State(ttl))
  BY DEF Returned
<1>2. PICK ttl \in 0..MaxTtl : Set(r, State(ttl))
  BY <1>1
<1> DEFINE memo == Remembered(s, ttl)
           t == State(ttl)
<1>3. /\ Good(s, now, bad, since) /\ CacheGood(cache, now, bad, since)
      /\ now \in Nat /\ since \in [Hashes -> Int]
  BY DEF Inv
<1> HIDE DEF s
<1>4. Kept(s, now, bad, since) /\ Open(s, bad, since) /\ Calling(s, now, bad, since) /\ Shape(s)
  BY <1>1, <1>3 DEF Good, Checking, Kept
<1>5. /\ s = [f \in Fields |-> s[f]] /\ s.batch \in Seq(Prefixes) /\ s.answer \subseteq Hashes
      /\ s.found \in BOOLEAN /\ << >> \in Seq(Prefixes) /\ s.started \in Int /\ s.calledAt \in Int
  <2>1. << >> \in Seq(Prefixes)
    OBVIOUS
  <2>2. /\ s = [f \in Fields |-> s[f]] /\ s.batch \in Seq(Prefixes) /\ s.answer \subseteq Hashes
        /\ s.found \in BOOLEAN /\ s.started \in Int /\ s.calledAt \in Int
    BY <1>4 DEF Shape
  <2> QED BY <2>1, <2>2
<1>6. /\ DOMAIN memo = Batch(s) \cup DOMAIN s.memo
      /\ \A p \in DOMAIN memo : memo[p] = IF p \in Batch(s) THEN Grouped(s, p) ELSE s.memo[p]
  BY DEF Remembered
<1> HIDE DEF memo, still, hit
<1>7. /\ t.pc = (IF ttl > 0 THEN "put" ELSE "look") /\ t.memo = memo
      /\ t.found \in BOOLEAN /\ (t.found <=> s.found \/ hit)
      /\ t.expires = (IF ttl > 0 THEN now + ttl ELSE 0) /\ t.calledAt = 0 /\ t.waiting = still
      /\ t.answered = s.answered \cup Batch(s)
      /\ t.batch = (IF ttl > 0 THEN s.batch ELSE << >>)
      /\ t.answer = (IF ttl > 0 THEN s.answer ELSE {})
      /\ t.wanted = s.wanted /\ t.local = s.local /\ t.left = s.left
      /\ t.checkedLocally = s.checkedLocally /\ t.result = s.result /\ t.urls = s.urls
      /\ t.lists = s.lists /\ t.threats = s.threats /\ t.asked = s.asked
      /\ t.started = s.started /\ t.failedOpen = s.failedOpen
      /\ t = [f \in Fields |-> t[f]]
  BY <1>5 DEF Fields, memo
<1>8. Set(r, t)
  BY <1>2
<1> HIDE DEF t
<1>9. Shape(t)
  <2>1. ttl \in Int /\ t.expires \in Int
    BY <1>3, <1>7
  <2>2. t.pc \in {"look", "put"} /\ t.batch \in Seq(Prefixes) /\ t.answer \subseteq Hashes
    BY <1>5, <1>7
  <2>3. /\ t.local \in BOOLEAN /\ t.urls \in Seq(Urls) /\ t.left \in Seq(Hashes)
        /\ t.wanted \in Seq(Prefixes) /\ t.started \in Int /\ t.calledAt \in Int
    BY <1>4, <1>7 DEF Shape
  <2> QED BY <1>7, <2>1, <2>2, <2>3 DEF Shape
<1>10. \A u, h : /\ Real(t, u, bad, since) <=> Real(s, u, bad, since)
                 /\ Decisive(t, u, h, bad, since) <=> Decisive(s, u, h, bad, since)
  BY <1>7 DEF Real, Decisive, Stale, Dismissed
\* The answer is right for as long as it may be used.
<1>11. /\ \A p \in Batch(s) : Right(s.answer, p, s.started, bad, since)
       /\ ttl > 0 => \A p \in Batch(s) : Right(s.answer, p, now + ttl - 1, bad, since)
  <2>1. /\ s.started <= s.calledAt /\ now <= s.calledAt + MaxLatency
        /\ \A p \in Batch(s) : Right(s.answer, p, s.calledAt + Window - 1, bad, since)
    BY <1>4 DEF Calling
  <2>2. /\ s.started <= s.calledAt + Window - 1 /\ now + ttl - 1 <= s.calledAt + Window - 1
        /\ Window \in Int
    <3>1. /\ MaxTtl \in Int /\ MaxTtl >= 1 /\ MaxLatency \in Nat /\ Window = MaxTtl + MaxLatency
          /\ ttl \in Int /\ ttl <= MaxTtl /\ now \in Int
      BY <1>3, Bounds DEF Window
    <3> QED BY <1>5, <2>1, <3>1
  <2>3. \A h \in Hashes : \A x, y \in Int : x <= y /\ since[h] + Window > y => since[h] + Window > x
    BY <1>3, <2>2
  <2>4. s.calledAt + Window - 1 \in Int /\ now + ttl - 1 \in Int
    BY <1>3, <1>5, <2>2
  <2> QED BY <1>5, <2>1, <2>2, <2>3, <2>4 DEF Right
<1>12. \A p \in Batch(s) : Right(Grouped(s, p), p, s.started, bad, since)
  BY <1>11 DEF Right, Grouped
<1>13. Kept(t, now, bad, since)
  <2>1. \A p \in DOMAIN memo : Right(memo[p], p, s.started, bad, since)
    BY <1>4, <1>6, <1>12 DEF Kept
  <2> QED BY <1>4, <1>6, <1>7, <1>9, <1>10, <2>1 DEF Kept
<1>14. HashesOf(u0) \subseteq Hashes
  BY <1>4, HeadAndTail, HashesAre DEF Shape, Open
<1>15. /\ s.result = "none" /\ s.urls # << >>
       /\ Given(s.left) \cup s.waiting \subseteq HashesOf(u0)
       /\ s.local => u0 \in s.checkedLocally /\ s.lists.ready
       /\ s.found => Real(s, u0, bad, since)
       /\ Once(s.wanted) /\ Given(s.wanted) \cap s.answered = {}
       /\ Given(s.wanted) \cap Batch(s) = {} /\ \A h \in s.answer : Prefix[h] \in Batch(s)
  BY <1>4 DEF Open, Calling
<1>16. hit => Real(s, u0, bad, since)
  <2> SUFFICES ASSUME NEW h \in s.waiting, h \in s.answer PROVE Real(s, u0, bad, since)
    BY DEF hit
  <2>1. h \in HashesOf(u0) /\ h \in Hashes /\ Prefix[h] \in Batch(s)
    BY <1>14, <1>15
  <2> QED BY <1>11, <2>1 DEF Right, Real, Stale
<1>17. ASSUME NEW h \in HashesOf(u0), Decisive(s, u0, h, bad, since)
       PROVE  t.found \/ h \in Given(s.left) \/ (h \in still /\ Prefix[h] \in Given(s.wanted))
  <2>1. \/ s.found \/ h \in Given(s.left)
        \/ h \in s.waiting /\ Prefix[h] \in Given(s.wanted) \cup Batch(s)
    BY <1>1, <1>4, <1>17 DEF Open
  <2>2. CASE h \in s.waiting /\ Prefix[h] \in Batch(s)
    <3>1. h \in s.answer
      BY <1>11, <1>14, <1>17, <2>2 DEF Right, Decisive, Stale
    <3> QED BY <1>7, <2>2, <3>1 DEF hit
  <2>3. CASE h \in s.waiting /\ Prefix[h] \in Given(s.wanted)
    <3>1. Prefix[h] \notin Batch(s)
      BY <1>15, <2>3
    <3> QED BY <2>3, <3>1 DEF still
  <2> QED BY <1>7, <2>1, <2>2, <2>3
<1>18. Open(t, bad, since)
  <2>1. still \subseteq s.waiting
    BY DEF still
  <2>2. Given(t.wanted) \cap t.answered = {}
    BY <1>7, <1>15
  <2>3. t.found => Real(t, u0, bad, since)
    BY <1>7, <1>10, <1>15, <1>16
  <2> QED BY <1>7, <1>10, <1>15, <1>17, <2>1, <2>2, <2>3 DEF Open
<1>19. t.pc = "put" => Putting(t, now, bad, since)
  <2> SUFFICES ASSUME t.pc = "put" PROVE Putting(t, now, bad, since)
    OBVIOUS
  <2>1. ttl > 0 /\ t.batch = s.batch /\ t.answer = s.answer /\ t.expires = now + ttl
    BY <1>7
  <2>2. Batch(t) = Batch(s)
    BY <2>1 DEF Batch
  <2>3. now + ttl <= now + MaxTtl
    BY <1>3, Bounds
  <2>4. s.batch # << >>
    BY <1>4 DEF Calling
  <2>5. \A p \in Batch(t) : Right(t.answer, p, t.expires - 1, bad, since)
    <3>1. t.expires - 1 = now + ttl - 1
      BY <1>3, <2>1
    <3> QED BY <1>11, <2>1, <2>2, <3>1, Zenon
  <2> QED BY <2>1, <2>3, <2>4, <2>5 DEF Putting
<1>20. Good(t, now, bad, since)
  BY <1>7, <1>13, <1>18, <1>19 DEF Good
<1>21. CacheGood(cache', now, bad, since)
  BY <1>1, <1>3
<1> QED BY <1>1, <1>8, <1>20, <1>21, RequestStep

LEMMA PutOneKeeps ==
  ASSUME Inv, NEW r \in Requests, PutOne(r)
  PROVE  Inv'
<1> DEFINE s == req[r]
           p == Head(s.batch)
           last == Len(s.batch) = 1
           t == [s EXCEPT !.batch = Tail(@), !.pc = IF last THEN "look" ELSE "put",
                          !.answer = IF last THEN {} ELSE @, !.expires = IF last THEN 0 ELSE @]
<1>1. /\ s.pc = "put" /\ UNCHANGED <<now, bad, since, lists>> /\ Set(r, t)
      /\ cache' = Put(cache, p, Entry(Grouped(s, p), s.expires), CacheCapacity)
  BY DEF PutOne
<1>2. Good(s, now, bad, since) /\ CacheGood(cache, now, bad, since)
  BY DEF Inv
<1> HIDE DEF s
<1>3. Kept(s, now, bad, since) /\ Open(s, bad, since) /\ Putting(s, now, bad, since) /\ Shape(s)
  BY <1>1, <1>2 DEF Good, Checking, Kept
<1>4. /\ s = [f \in Fields |-> s[f]] /\ s.batch \in Seq(Prefixes) /\ s.batch # << >>
      /\ s.answer \subseteq Hashes /\ s.expires \in Int
  BY <1>3 DEF Shape, Putting
<1>5. /\ p \in Prefixes /\ Tail(s.batch) \in Seq(Prefixes)
      /\ Given(s.batch) = {p} \cup Given(Tail(s.batch))
  BY <1>4, HeadAndTail
<1>6. ~last => Tail(s.batch) # << >>
  BY <1>4, MoreThanOne
<1> HIDE DEF last, p
<1>7. /\ t.pc = (IF last THEN "look" ELSE "put") /\ t.batch = Tail(s.batch)
      /\ t.answer = (IF last THEN {} ELSE s.answer) /\ t.expires = (IF last THEN 0 ELSE s.expires)
      /\ t.calledAt = s.calledAt /\ t.waiting = s.waiting
      /\ t.wanted = s.wanted /\ t.local = s.local /\ t.left = s.left /\ t.found = s.found
      /\ t.checkedLocally = s.checkedLocally /\ t.result = s.result /\ t.urls = s.urls
      /\ t.lists = s.lists /\ t.threats = s.threats /\ t.asked = s.asked /\ t.memo = s.memo
      /\ t.started = s.started /\ t.failedOpen = s.failedOpen /\ t.answered = s.answered
      /\ t = [f \in Fields |-> t[f]]
  BY <1>4 DEF Fields
<1>8. Set(r, t)
  BY <1>1
<1> HIDE DEF t
<1>9. Shape(t)
  <2>1. t.pc \in {"look", "put"} /\ t.answer \subseteq Hashes /\ t.expires \in Int
    <3>1. CASE last
      BY <1>7, <3>1
    <3>2. CASE ~last
      BY <1>4, <1>7, <3>2
    <3> QED BY <3>1, <3>2
  <2> QED BY <1>3, <1>5, <1>7, <2>1 DEF Shape
<1>10. \A u, h : /\ Real(t, u, bad, since) <=> Real(s, u, bad, since)
                 /\ Decisive(t, u, h, bad, since) <=> Decisive(s, u, h, bad, since)
  BY <1>7 DEF Real, Decisive, Stale, Dismissed
<1>11. Kept(t, now, bad, since)
  BY <1>3, <1>7, <1>9, <1>10 DEF Kept
<1>12. Open(t, bad, since)
  <2>1. t.pc # "call" /\ s.pc # "call"
    BY <1>1, <1>7
  <2> QED BY <1>3, <1>7, <1>10, <2>1 DEF Open
<1>13. Batch(s) = Given(s.batch) /\ Batch(t) = Given(t.batch)
  BY DEF Batch, Given
<1>14. t.pc = "put" => Putting(t, now, bad, since)
  BY <1>3, <1>5, <1>6, <1>7, <1>13 DEF Putting
<1>15. Good(t, now, bad, since)
  BY <1>7, <1>11, <1>12, <1>14 DEF Good
<1>16. CacheGood(cache', now, bad, since)
  <2>1. Right(s.answer, p, s.expires - 1, bad, since) /\ s.expires <= now + MaxTtl
    BY <1>3, <1>5, <1>13 DEF Putting
  <2>2. Right(Grouped(s, p), p, s.expires - 1, bad, since) /\ Grouped(s, p) \in SUBSET Hashes
    BY <1>4, <2>1 DEF Right, Grouped
  <2>3. CacheGood(Put(cache, p, Entry(Grouped(s, p), s.expires), CacheCapacity), now, bad, since)
    BY <1>2, <1>4, <1>5, <2>1, <2>2, PutGood
  <2> QED BY <1>1, <2>3
<1> QED BY <1>1, <1>8, <1>15, <1>16, RequestStep

LEMMA FailedKeeps ==
  ASSUME Inv, NEW r \in Requests, Failed(r)
  PROVE  Inv'
<1> DEFINE s == req[r]
           u0 == Head(s.urls)
           t == [s EXCEPT !.pc = "look", !.batch = << >>, !.answer = {}, !.calledAt = 0,
                          !.failedOpen = @ \cup Batch(s)]
<1>1. /\ s.pc = "call" /\ UNCHANGED <<now, bad, since, lists, cache>>
      /\ IF s.local THEN Set(r, t) ELSE BeginCheck(r, s, TRUE)
  BY DEF Failed
<1>2. Good(s, now, bad, since) /\ CacheGood(cache, now, bad, since)
  BY DEF Inv
<1> HIDE DEF s
<1>3. Kept(s, now, bad, since) /\ Open(s, bad, since) /\ Shape(s)
  BY <1>1, <1>2 DEF Good, Checking, Kept
<1>4. CacheGood(cache', now, bad, since)
  BY <1>1, <1>2
<1>5. CASE ~s.local
  <2>1. s.result = "none" /\ s.urls # << >> /\ (s.found => Real(s, Head(s.urls), bad, since))
    BY <1>3 DEF Open
  <2>2. PICK n : Set(r, n) /\ Good(n, now, bad, since)
    BY <1>1, <1>3, <1>5, <2>1, BeginCheckGood
  <2> QED BY <1>1, <1>4, <2>2, RequestStep
<1>6. CASE s.local
  <2>1. s = [f \in Fields |-> s[f]]
    BY <1>3 DEF Shape
  <2>2. << >> \in Seq(Prefixes)
    OBVIOUS
  <2>3. /\ t.pc = "look" /\ t.batch = << >> /\ t.answer = {} /\ t.calledAt = 0
        /\ t.failedOpen = s.failedOpen \cup Batch(s)
        /\ t.waiting = s.waiting /\ t.expires = s.expires
        /\ t.wanted = s.wanted /\ t.local = s.local /\ t.left = s.left /\ t.found = s.found
        /\ t.checkedLocally = s.checkedLocally /\ t.result = s.result /\ t.urls = s.urls
        /\ t.lists = s.lists /\ t.threats = s.threats /\ t.asked = s.asked /\ t.memo = s.memo
        /\ t.started = s.started /\ t.answered = s.answered
        /\ t = [f \in Fields |-> t[f]]
    BY <2>1 DEF Fields
  <2>4. Set(r, t)
    BY <1>1, <1>6
  <2> HIDE DEF t
  <2>5. Shape(t)
    BY <1>3, <2>2, <2>3 DEF Shape
  <2>6. \A u, h : /\ Real(t, u, bad, since) <=> Real(s, u, bad, since)
                  /\ Decisive(t, u, h, bad, since) =>
                       Decisive(s, u, h, bad, since) /\ Prefix[h] \notin Batch(s)
    BY <2>3 DEF Real, Decisive, Stale, Dismissed
  <2>7. Kept(t, now, bad, since)
    BY <1>3, <2>3, <2>5, <2>6 DEF Kept
  <2>8. Open(t, bad, since)
    <3>1. ASSUME NEW h \in HashesOf(u0), Decisive(t, u0, h, bad, since)
          PROVE  s.found \/ h \in Given(s.left) \/ (h \in s.waiting /\ Prefix[h] \in Given(s.wanted))
      BY <1>1, <1>3, <2>6, <3>1 DEF Open
    <3> QED BY <1>3, <2>3, <2>6, <3>1 DEF Open
  <2>9. Good(t, now, bad, since)
    BY <2>3, <2>7, <2>8 DEF Good
  <2> QED BY <1>1, <1>4, <2>4, <2>9, RequestStep
<1> QED BY <1>5, <1>6

LEMMA CancelKeeps ==
  ASSUME Inv, NEW r \in Requests, Cancel(r)
  PROVE  Inv'
<1> DEFINE s == req[r]
           t == [s EXCEPT !.canceled = TRUE]
<1>1. UNCHANGED <<now, bad, since, lists, cache>> /\ Set(r, t)
  BY DEF Cancel
<1>2. Good(s, now, bad, since) /\ CacheGood(cache, now, bad, since)
  BY DEF Inv
<1> HIDE DEF s
<1>3. Kept(s, now, bad, since) /\ Shape(s) /\ s = [f \in Fields |-> s[f]]
  BY <1>2 DEF Good, Kept, Shape
<1>4. /\ t.pc = s.pc /\ t.batch = s.batch /\ t.answer = s.answer /\ t.expires = s.expires
      /\ t.calledAt = s.calledAt /\ t.waiting = s.waiting
      /\ t.wanted = s.wanted /\ t.local = s.local /\ t.left = s.left /\ t.found = s.found
      /\ t.checkedLocally = s.checkedLocally /\ t.result = s.result /\ t.urls = s.urls
      /\ t.lists = s.lists /\ t.threats = s.threats /\ t.asked = s.asked /\ t.memo = s.memo
      /\ t.started = s.started /\ t.failedOpen = s.failedOpen /\ t.answered = s.answered
      /\ t = [f \in Fields |-> t[f]]
  BY <1>3 DEF Fields
<1>5. Set(r, t)
  BY <1>1
<1> HIDE DEF t
<1>6. Shape(t)
  BY <1>3, <1>4 DEF Shape
<1>7. /\ Batch(t) = Batch(s)
      /\ \A u, h : /\ Real(t, u, bad, since) <=> Real(s, u, bad, since)
                   /\ Decisive(t, u, h, bad, since) <=> Decisive(s, u, h, bad, since)
  BY <1>4 DEF Real, Decisive, Stale, Dismissed, Batch
<1>8. Kept(t, now, bad, since)
  BY <1>3, <1>4, <1>6, <1>7 DEF Kept
<1>9. Open(s, bad, since) => Open(t, bad, since)
  BY <1>4, <1>7 DEF Open
<1>10. /\ Calling(s, now, bad, since) => Calling(t, now, bad, since)
       /\ Putting(s, now, bad, since) => Putting(t, now, bad, since)
  BY <1>4, <1>7 DEF Calling, Putting
<1>11. Good(t, now, bad, since)
  BY <1>2, <1>4, <1>8, <1>9, <1>10 DEF Good, Checking
<1>12. CacheGood(cache', now, bad, since)
  BY <1>1, <1>2
<1> QED BY <1>1, <1>5, <1>11, <1>12, RequestStep
----
(* The steps of the environment *)

LEMMA TickKeeps ==
  ASSUME Inv, Tick
  PROVE  Inv'
<1>1. /\ now' = now + 1 /\ now \in Nat /\ UNCHANGED <<bad, since, lists, cache, req>>
      /\ \A r \in Requests : req[r].pc = "call" => now < req[r].calledAt + MaxLatency
      /\ MaxTtl \in Nat /\ MaxLatency \in Nat
  BY Bounds DEF Tick, Inv
<1>2. ASSUME NEW r \in Requests PROVE Good(req[r], now', bad, since)
  <2> DEFINE s == req[r]
  <2>1. Good(s, now, bad, since) /\ (s.pc = "call" => now < s.calledAt + MaxLatency)
    BY <1>1 DEF Inv
  <2> HIDE DEF s
  <2>2. s.started \in Int /\ s.calledAt \in Int /\ s.expires \in Int
    BY <2>1 DEF Good, Kept, Shape
  <2>3. Kept(s, now', bad, since)
    <3>1. s.started <= now => s.started <= now + 1
      BY <1>1, <2>2
    <3> QED BY <1>1, <2>1, <3>1 DEF Good, Kept
  <2>4. s.pc = "call" => Calling(s, now', bad, since)
    <3>1. /\ s.calledAt <= now => s.calledAt <= now + 1
          /\ now < s.calledAt + MaxLatency => now + 1 <= s.calledAt + MaxLatency
      BY <1>1, <2>2
    <3> QED BY <1>1, <2>1, <3>1 DEF Good, Calling
  <2>5. s.pc = "put" => Putting(s, now', bad, since)
    <3>1. s.expires <= now + MaxTtl => s.expires <= now + 1 + MaxTtl
      BY <1>1, <2>2
    <3> QED BY <1>1, <2>1, <3>1 DEF Good, Putting
  <2>6. Good(s, now', bad, since)
    BY <2>1, <2>3, <2>4, <2>5 DEF Good
  <2> QED BY <2>6 DEF s
<1>3. CacheGood(cache, now', bad, since)
  <2>1. \A e \in Int : e <= now + MaxTtl => e <= now + 1 + MaxTtl
    BY <1>1
  <2>2. CacheGood(cache, now, bad, since)
    BY DEF Inv
  <2> QED BY <1>1, <2>1, <2>2 DEF CacheGood
<1>4. now' \in Nat
  BY <1>1
<1> QED BY <1>1, <1>2, <1>3, <1>4 DEF Inv

\* What is right stays right when the service changes its mind, for as long as
\* it is right by the time of the change.
LEMMA ChangeMindKeeps ==
  ASSUME Inv, NEW g \in Changing, ChangeMind(g)
  PROVE  Inv'
<1>1. /\ now \in Nat /\ since \in [Hashes -> Int] /\ bad \subseteq Hashes /\ g \in Hashes
      /\ UNCHANGED <<now, lists, cache, req>>
      /\ bad' = (IF g \in bad THEN bad \ {g} ELSE bad \cup {g})
      /\ since' = [since EXCEPT ![g] = now]
  BY CheckerAssumption DEF ChangeMind, Inv
<1>2. /\ bad' \subseteq Hashes /\ since' \in [Hashes -> Int] /\ since'[g] = now
      /\ \A h \in Hashes \ {g} : since'[h] = since[h] /\ (h \in bad' <=> h \in bad)
  BY <1>1
<1>3. ASSUME NEW m, NEW p, NEW t \in Int, t < now + Window, Right(m, p, t, bad, since)
      PROVE  Right(m, p, t, bad', since')
  <2> SUFFICES ASSUME NEW h \in Hashes, Prefix[h] = p
               PROVE  (h \in m <=> h \in bad') \/ since'[h] + Window > t
    BY DEF Right
  <2>1. CASE h = g
    BY <1>1, <1>2, <1>3, <2>1, Bounds
  <2>2. CASE h # g
    BY <1>2, <1>3, <2>2 DEF Right
  <2> QED BY <2>1, <2>2
<1>4. CacheGood(cache, now, bad', since')
  <2>1. CacheGood(cache, now, bad, since)
    BY DEF Inv
  <2>2. ASSUME NEW p \in DOMAIN cache.entries
        PROVE  Right(cache.entries[p].matches, p, cache.entries[p].expires - 1, bad', since')
    <3> DEFINE e == cache.entries[p].expires
               m == cache.entries[p].matches
    <3>1. e \in Int /\ e <= now + MaxTtl /\ Right(m, p, e - 1, bad, since)
      BY <2>1 DEF CacheGood
    <3> HIDE DEF e, m
    <3>2. e - 1 \in Int /\ e - 1 < now + Window
      BY <1>1, <3>1, Bounds
    <3>3. Right(m, p, e - 1, bad', since')
      BY <1>3, <3>1, <3>2
    <3> QED BY <3>3 DEF e, m
  <2> QED BY <2>1, <2>2 DEF CacheGood
<1>5. ASSUME NEW r \in Requests PROVE Good(req[r], now, bad', since')
  <2> DEFINE s == req[r]
  <2>1. Good(s, now, bad, since)
    BY DEF Inv
  <2> HIDE DEF s
  <2>2. Kept(s, now, bad, since) /\ Shape(s)
    BY <2>1 DEF Good, Kept
  <2>3. /\ s.started \in Int /\ s.calledAt \in Int /\ s.expires \in Int /\ s.urls \in Seq(Urls)
        /\ s.started <= now
    BY <2>2 DEF Kept, Shape
  <2>4. now + Window > s.started /\ s.started < now + Window
    BY <1>1, <2>3, Bounds
  \* Where a hash was real or stale it still is, and it decides no more than it did.
  <2>5. \A h \in Hashes : /\ h \in bad \/ Stale(s, h, since) => h \in bad' \/ Stale(s, h, since')
                          /\ h \in bad' /\ ~Stale(s, h, since') => h \in bad /\ ~Stale(s, h, since)
    BY <1>1, <1>2, <2>4 DEF Stale
  <2>6. ASSUME NEW u \in Urls
        PROVE  /\ Real(s, u, bad, since) => Real(s, u, bad', since')
               /\ \A h \in HashesOf(u) : Decisive(s, u, h, bad', since') => Decisive(s, u, h, bad, since)
    BY <2>5, HashesAre DEF Real, Decisive
  <2>7. s.threats \subseteq Urls /\ Given(s.asked) \subseteq Urls
    BY <2>2 DEF Kept
  <2>8. Kept(s, now, bad', since')
    <3>1. \A p \in DOMAIN s.memo : Right(s.memo[p], p, s.started, bad', since')
      BY <1>3, <2>2, <2>3, <2>4 DEF Kept
    <3>2. \A u \in s.threats : Real(s, u, bad', since')
      BY <2>2, <2>6, <2>7 DEF Kept
    <3>3. s.result \in {"none", "ok"} =>
            \A u \in Given(s.asked) \ Given(s.urls) : \A h \in HashesOf(u) :
              Decisive(s, u, h, bad', since') => u \in s.threats
      BY <2>2, <2>6, <2>7 DEF Kept
    <3> QED BY <2>2, <3>1, <3>2, <3>3 DEF Kept
  <2>9. Checking(s) => Open(s, bad', since')
    <3> SUFFICES ASSUME Open(s, bad, since) PROVE Open(s, bad', since')
      BY <2>1 DEF Good
    <3>1. Head(s.urls) \in Urls
      BY <2>3, HeadAndTail DEF Open
    <3> QED BY <2>6, <3>1 DEF Open
  <2>10. s.pc = "call" => Calling(s, now, bad', since')
    <3> SUFFICES ASSUME Calling(s, now, bad, since) PROVE Calling(s, now, bad', since')
      BY <2>1 DEF Good
    <3>1. s.calledAt + Window - 1 \in Int /\ s.calledAt + Window - 1 < now + Window
      BY <1>1, <2>3, Bounds DEF Calling
    <3> QED BY <1>3, <3>1 DEF Calling
  <2>11. s.pc = "put" => Putting(s, now, bad', since')
    <3> SUFFICES ASSUME Putting(s, now, bad, since) PROVE Putting(s, now, bad', since')
      BY <2>1 DEF Good
    <3>1. s.expires - 1 \in Int /\ s.expires - 1 < now + Window
      BY <1>1, <2>3, Bounds DEF Putting
    <3> QED BY <1>3, <3>1 DEF Putting
  <2>12. Good(s, now, bad', since')
    BY <2>1, <2>8, <2>9, <2>10, <2>11 DEF Good
  <2> QED BY <2>12 DEF s
<1> QED BY <1>1, <1>2, <1>4, <1>5 DEF Inv

LEMMA UpdateListsKeeps ==
  ASSUME Inv, UpdateLists
  PROVE  Inv'
BY DEF Inv, UpdateLists, CacheGood
----
(* The invariant, and what it is for *)

LEMMA InitInv == Init => Inv
<1> SUFFICES ASSUME Init PROVE Inv
  OBVIOUS
<1>1. /\ now = 0 /\ bad \subseteq Hashes /\ lists \in ListVersions /\ cache = EmptyCache
      /\ since = [h \in Hashes |-> LongAgo] /\ req = [r \in Requests |-> Idle]
  BY DEF Init
<1>2. LongAgo \in Int
  BY Bounds DEF LongAgo
<1>3. CacheGood(EmptyCache, now, bad, since)
  BY EmptyGood
<1>4. Good(Idle, now, bad, since)
  BY <1>1, IdleGood
<1>5. req = [r \in Requests |-> req[r]] /\ \A r \in Requests : req[r] = Idle
  BY <1>1
<1> QED BY <1>1, <1>2, <1>3, <1>4, <1>5 DEF Inv

LEMMA NextInv == Inv /\ [Next]_vars => Inv'
<1> SUFFICES ASSUME Inv, [Next]_vars PROVE Inv'
  OBVIOUS
<1>1. CASE UNCHANGED vars
  BY <1>1 DEF Inv, vars, CacheGood
<1>2. CASE Tick
  BY <1>2, TickKeeps
<1>3. CASE UpdateLists
  BY <1>3, UpdateListsKeeps
<1>4. CASE \E h \in Changing : ChangeMind(h)
  BY <1>4, ChangeMindKeeps
<1>5. ASSUME NEW r \in Requests, Start(r) \/ Step(r) PROVE Inv'
  <2>1. CASE Start(r)
    BY <2>1, StartKeeps
  <2>2. CASE Stop(r)
    BY <2>2, StopKeeps
  <2>3. CASE Look(r)
    BY <2>3, LookKeeps
  <2>4. CASE EndCheck(r)
    BY <2>4, EndCheckKeeps
  <2>5. CASE Call(r)
    BY <2>5, CallKeeps
  <2>6. CASE Returned(r)
    BY <2>6, ReturnedKeeps
  <2>7. CASE PutOne(r)
    BY <2>7, PutOneKeeps
  <2>8. CASE Failed(r)
    BY <2>8, FailedKeeps
  <2> QED BY <1>5, <2>1, <2>2, <2>3, <2>4, <2>5, <2>6, <2>7, <2>8 DEF Step
<1>6. CASE \E r \in Canceling : Cancel(r)
  BY <1>6, CancelKeeps, CheckerAssumption
<1> QED BY <1>1, <1>2, <1>3, <1>4, <1>5, <1>6 DEF Next

LEMMA Invariance == Spec => []Inv
BY InitInv, NextInv, PTL DEF Spec

\* The map and the list of the cache hold the same prefixes, once each, and no
\* more than its capacity (prefixCache).
THEOREM CacheAlwaysAgrees == Spec => []CacheAgrees
<1>1. Inv => CacheAgrees
  BY DEF Inv, CacheGood, CacheAgrees, Once, Room
<1> QED BY <1>1, Invariance, PTL

\* A request never sends a prefix again that the service has answered it (check).
THEOREM NeverAskedTwice == Spec => []AskedOnce
<1>1. Inv => AskedOnce
  BY DEF Inv, Good, Calling, AskedOnce
<1> QED BY <1>1, Invariance, PTL

\* A URL that has been a threat since before anything used could be said is
\* reported, unless it is excused (SearchURLs).
THEOREM ThreatsAreReported == Spec => []ThreatsReported
<1>1. Inv => ThreatsReported
  <2> SUFFICES ASSUME Inv, NEW r \in Requests, Succeeded(r), NEW u \in Given(req[r].asked),
                      NEW h \in HashesOf(u), h \in bad, Settled(r, h), ~Excused(r, u, h)
               PROVE  u \in req[r].threats
    BY DEF ThreatsReported
  <2>1. Good(req[r], now, bad, since) /\ since \in [Hashes -> Int] /\ bad \subseteq Hashes
    BY DEF Inv
  <2>2. Decisive(req[r], u, h, bad, since)
    <3>1. since[h] + Window = since[h] + MaxTtl + MaxLatency /\ req[r].started \in Int /\ since[h] + Window \in Int
      BY <2>1, Bounds DEF Window, Good, Kept, Shape
    <3>2. ~Stale(req[r], h, since)
      BY <3>1 DEF Stale, Settled
    <3> QED BY <3>2 DEF Decisive, Dismissed, Excused
  <2>3. u \in Given(req[r].asked) \ Given(req[r].urls)
    BY <2>1 DEF Good, Succeeded, Given
  <2> QED BY <2>1, <2>2, <2>3 DEF Good, Kept, Succeeded
<1> QED BY <1>1, Invariance, PTL

\* A URL that is reported has a hash that is a threat, or has been one as late as
\* an answer may be used (SearchURLs).
THEOREM ThreatsAreReal == Spec => []ThreatsReal
<1>1. Inv => ThreatsReal
  <2> SUFFICES ASSUME Inv, NEW r \in Requests, NEW u \in req[r].threats
               PROVE  \E h \in HashesOf(u) : h \in bad \/ ~Settled(r, h)
    BY DEF ThreatsReal
  <2>1. Good(req[r], now, bad, since) /\ since \in [Hashes -> Int] /\ bad \subseteq Hashes
    BY DEF Inv
  <2>2. u \in Urls /\ Real(req[r], u, bad, since) /\ req[r].started \in Int
    BY <2>1 DEF Good, Kept, Shape
  <2>3. PICK h \in HashesOf(u) : h \in bad \/ Stale(req[r], h, since)
    BY <2>2 DEF Real
  <2>4. h \in Hashes
    BY <2>2, HashesAre
  <2>5. Stale(req[r], h, since) => ~Settled(r, h)
    BY <2>1, <2>2, <2>4, Bounds DEF Stale, Settled, Window
  <2> QED BY <2>3, <2>5
<1> QED BY <1>1, Invariance, PTL
===========================================================================
