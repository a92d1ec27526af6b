------------------------ MODULE WireUpdaterProofs ------------------------
(***************************************************************************)
(* That the updater over HTTPAPI implements ListUpdater, for every value   *)
(* of the constants, and so has every property proved of ListUpdater.      *)
(***************************************************************************)
EXTENDS WireUpdater, ListUpdaterProofs, FiniteSetTheorems
----
LEMMA NothingAscends == Ascending({}) = << >>
<1>1. Cardinality({}) = 0
  BY FS_EmptySet
<1>2. << >> \in [1..0 -> {}] /\ StrictlyIncreasing(<< >>)
  BY DEF StrictlyIncreasing
<1>3. \A s \in [1..0 -> {}] : s = << >>
  OBVIOUS
<1> QED BY <1>1, <1>2, <1>3 DEF Ascending

LEMMA CarriedFields ==
  ASSUME NEW r \in WireReplies
  PROVE  /\ Carried(r) \in Replies
         /\ Carried(r).fault \in {"none", "data", "index"}
         /\ r.fault \in SilentFaults => Carried(r).fault = r.fault
         /\ r.fault \notin SilentFaults => Carried(r).fault = "none"
         /\ Carried(r).full = r.full /\ Carried(r).version = r.version
         /\ Carried(r).meta = r.meta /\ Carried(r).wait = r.wait
BY WireAssumption DEF Carried, SilentFaults, WireFaults

\* What decodeList lets through is an update that ListUpdater expects of an API.
LEMMA DecodedIsUpdate ==
  ASSUME NEW n \in Selected, NEW base, NEW r \in WireReplies,
         Decodes(n, base, Sent(n, base, r))
  PROVE  DecodedUpdate(n, base, Sent(n, base, r)) = Update(n, base, Carried(r))
<1> DEFINE q == Carried(r)
           u == Update(n, base, q)
           l == Sent(n, base, r)
           d == DecodedUpdate(n, base, l)
           partial == ~q.full /\ base \in Versions(n)
           new == Content[n][q.version]
           old == IF partial THEN Content[n][base] ELSE {}
<1>1. q = [r EXCEPT !.fault = IF @ \in SilentFaults THEN @ ELSE "none"]
  BY DEF Carried
<1>2. /\ q \in Replies /\ q.fault \in {"none", "data", "index"}
      /\ r.fault = "index" <=> q.fault = "index"
      /\ q.full = r.full /\ q.version = r.version
  BY CarriedFields DEF SilentFaults
<1>3. /\ u.name = n /\ u.version = q.version /\ u.meta = q.meta /\ u.partial = partial
      /\ u.base = base /\ u.wait = q.wait
      /\ u.additions.width = Width[n] /\ new \ old \subseteq u.additions.data
      /\ u.checksum = IF partial /\ new = old THEN NoChecksum
                      ELSE Checksum(HashList(Width[n], new))
      /\ u.additions = HashList(u.additions.width, u.additions.data)
      /\ q.fault # "index" => u.removals = Ascending({IndexIn(old, x) : x \in old \ new})
      /\ u = [name |-> u.name, version |-> u.version, meta |-> u.meta,
              partial |-> u.partial, base |-> u.base, wait |-> u.wait,
              removals |-> u.removals, additions |-> u.additions,
              checksum |-> u.checksum]
  BY <1>2 DEF Update, HashList
<1>4. q.meta \in BOOLEAN
  BY <1>2, ServiceAssumption
<1>5. /\ l.version = u.version /\ l.partial = u.partial
      /\ l.wait = IF r.fault = "wait" THEN 0 - 1 ELSE u.wait
      /\ l.meta = IF r.fault = "meta" THEN "unfit" ELSE IF u.meta THEN "fits" ELSE "none"
      /\ l.checksum = IF r.fault = "sum" THEN NoChecksum ELSE u.checksum
      /\ u.additions.data = {} => l.additions = Absent
      /\ u.additions.data # {} =>
           l.additions.present /\ l.additions.holds = u.additions.data
      /\ l.removals = IF Dropped(n, base, r) = {} /\ r.fault # "index" THEN Absent
                      ELSE Block(4, TRUE, u.removals)
  BY <1>1 DEF Sent, Block
<1>6. Dropped(n, base, r) = old \ new
  BY <1>2 DEF Dropped
<1>7. DurationFits(l) /\ MetadataFits(l) /\ Summed(l)
  BY DEF Decodes
<1>8. d.wait = u.wait
  BY <1>5, <1>7 DEF DurationFits, DecodedUpdate
<1>9. d.meta = u.meta
  BY <1>3, <1>4, <1>5, <1>7 DEF MetadataFits, DecodedUpdate
<1>10. d.additions = u.additions
  <2>1. l.additions.holds = u.additions.data
    BY <1>5 DEF Absent
  <2>2. d.additions = HashList(Width[n], l.additions.holds)
    BY DEF DecodedUpdate, Additions
  <2> HIDE DEF u, d, l
  <2> QED BY <2>1, <2>2, <1>3
<1>11. d.removals = u.removals
  <2>1. CASE old \ new = {} /\ r.fault # "index"
    <3>1. {IndexIn(old, x) : x \in old \ new} = {}
      BY <2>1
    <3>2. u.removals = << >>
      BY <2>1, <3>1, <1>2, <1>3, NothingAscends
    <3>3. l.removals = Absent
      BY <2>1, <1>5, <1>6
    <3>4. d.removals = << >>
      BY <3>3 DEF DecodedUpdate, Removals, Absent
    <3> QED BY <3>2, <3>4
  <2>2. CASE ~(old \ new = {} /\ r.fault # "index")
    BY <2>2, <1>5, <1>6 DEF DecodedUpdate, Removals, Block
  <2> QED BY <2>1, <2>2
<1>12. d.checksum = u.checksum
  <2>1. CASE r.fault = "sum"
    <3>1. l.partial /\ ~l.additions.present /\ ~l.removals.present
      BY <2>1, <1>5, <1>7 DEF Summed
    <3>2. partial /\ u.additions.data = {} /\ old \ new = {}
      <4>1. partial
        BY <3>1, <1>3, <1>5
      <4>2. u.additions.data = {}
        BY <3>1, <1>5
      <4>3. l.removals # Block(4, TRUE, u.removals)
        BY <3>1 DEF Block
      <4>4. old \ new = {}
        BY <4>3, <1>5, <1>6
      <4> QED BY <4>1, <4>2, <4>4
    <3>3. old \subseteq Nat /\ new \subseteq Nat
      BY <1>2, ServiceAssumption
    <3>4. new = old
      BY <3>2, <3>3, <1>3
    <3> QED BY <2>1, <3>2, <3>4, <1>3, <1>5 DEF DecodedUpdate
  <2>2. CASE r.fault # "sum"
    BY <2>2, <1>5 DEF DecodedUpdate
  <2> QED BY <2>1, <2>2
<1>13. d.name = n /\ d.version = u.version /\ d.partial = u.partial /\ d.base = base
  BY <1>5 DEF DecodedUpdate
<1>14. d = [name |-> d.name, version |-> d.version, meta |-> d.meta,
            partial |-> d.partial, base |-> d.base, wait |-> d.wait,
            removals |-> d.removals, additions |-> d.additions,
            checksum |-> d.checksum]
  BY DEF DecodedUpdate
<1> HIDE DEF u, d
<1>15. d = u
  BY <1>3, <1>8, <1>9, <1>10, <1>11, <1>12, <1>13, <1>14
<1> QED BY <1>15 DEF u, d
----
(* Each way a call of BatchGetHashLists ends *)

LEMMA CallFailedStep ==
  ASSUME NEW c \in Callers, NEW blamed \in Blamed(DOMAIN request[c]),
         NEW after \in RetryAfters, blamed # {} => after = 0,
         CallFailed(c, blamed, after)
  PROVE  FetchFailed(c)
BY DEF FetchFailed

LEMMA BatchedStep ==
  ASSUME NEW c \in Callers, Typed, Batched(c)
  PROVE  FetchFailed(c) \/ FetchReturned(c, Replies)
<1> DEFINE asked == DOMAIN request[c]
           sent(reply) == [n \in asked |-> Sent(n, request[c][n], reply[n])]
           bad(reply) == {n \in asked : ~Decodes(n, request[c][n], sent(reply)[n])}
           decoded(reply) ==
             [n \in asked |-> DecodedUpdate(n, request[c][n], sent(reply)[n])]
<1>1. PICK reply \in [asked -> WireReplies] :
        \/ /\ bad(reply) # {}
           /\ \E blamed \in Accused(asked, bad(reply)) : CallFailed(c, blamed, 0)
        \/ /\ bad(reply) = {}
           /\ \E delay \in ListDelays(asked) : Received(c, decoded(reply), delay)
  BY DEF Batched
<1>2. asked \subseteq Selected
  BY RequestType DEF Typed
<1>3. CASE bad(reply) # {}
  <2>1. PICK blamed \in Accused(asked, bad(reply)) : CallFailed(c, blamed, 0)
    BY <1>1, <1>3
  <2>2. blamed \in Blamed(asked)
    BY <2>1 DEF Accused, Blamed
  <2> QED BY <2>1, <2>2, CallFailedStep, WireAssumption
<1>4. CASE bad(reply) = {}
  <2>1. PICK delay \in ListDelays(asked) : Received(c, decoded(reply), delay)
    BY <1>1, <1>4
  <2> DEFINE carried == [n \in asked |-> Carried(reply[n])]
  <2>2. carried \in [asked -> Replies]
    BY CarriedFields
  <2>3. \A n \in asked :
          DecodedUpdate(n, request[c][n], sent(reply)[n])
            = Update(n, request[c][n], carried[n])
    <3> SUFFICES ASSUME NEW n \in asked
                 PROVE  DecodedUpdate(n, request[c][n], sent(reply)[n])
                          = Update(n, request[c][n], carried[n])
      OBVIOUS
    <3>1. sent(reply)[n] = Sent(n, request[c][n], reply[n]) /\ carried[n] = Carried(reply[n])
      OBVIOUS
    <3>2. Decodes(n, request[c][n], Sent(n, request[c][n], reply[n]))
      BY <3>1, <1>4
    <3> HIDE DEF sent, carried
    <3> QED BY <3>1, <3>2, <1>2, DecodedIsUpdate
  <2>4. decoded(reply) = [n \in asked |-> Update(n, request[c][n], carried[n])]
    BY <2>3
  <2> HIDE DEF carried, decoded
  <2> QED BY <2>1, <2>2, <2>4 DEF FetchReturned
<1> QED BY <1>3, <1>4

LEMMA WireStep == Typed /\ [WireNext]_wireVars => [Next]_vars
<1> SUFFICES ASSUME Typed, [WireNext]_wireVars PROVE [Next]_vars
  OBVIOUS
<1>1. CASE \E c \in Callers : GetFailed(c) \/ ResponseInvalid(c) \/ Batched(c)
  <2>1. PICK c \in Callers : GetFailed(c) \/ ResponseInvalid(c) \/ Batched(c)
    BY <1>1
  <2>2. {} \in Blamed(DOMAIN request[c]) /\ DOMAIN request[c] \in Blamed(DOMAIN request[c])
    BY DEF Blamed
  <2>3. CASE GetFailed(c)
    BY <2>2, <2>3, CallFailedStep DEF GetFailed, Next, Step
  <2>4. CASE ResponseInvalid(c)
    BY <2>2, <2>4, CallFailedStep, WireAssumption DEF ResponseInvalid, Next, Step
  <2>5. CASE Batched(c)
    BY <2>5, BatchedStep DEF Next, Step
  <2> QED BY <2>1, <2>3, <2>4, <2>5
<1>2. CASE Tick \/ \E c \in Callers : Local(c)
  BY <1>2 DEF Local, Next, Step
<1>3. CASE Crash
  BY <1>3 DEF Next
<1>4. CASE UNCHANGED wireVars
  BY <1>4 DEF wireVars
<1> QED BY <1>1, <1>2, <1>3, <1>4 DEF WireNext

\* Over HTTPAPI the updater does what ListUpdater allows it over any API.
THEOREM WireImplements == WireSpec => Implements
<1>1. WireInit => Init
  BY DEF WireInit
<1>2. Typed /\ [WireNext]_wireVars => [Next]_vars /\ Typed'
  BY WireStep, TypeNext
<1>3. WireInit => Typed
  BY <1>1, TypeInit
<1> QED BY <1>1, <1>2, <1>3, PTL DEF WireSpec, Spec, Implements

\* So no list is asked for before the time its last answer set,
THEOREM WireDeadlines == WireSpec => []ServerDeadlinesHonoured
BY WireImplements, DeadlineTheorem, PTL DEF Implements

\* and the lists in the database are what the service has, whatever came over
\* the wire.
THEOREM WireContent == WireSpec => []ListsMatchService
BY WireImplements, ContentTheorem, PTL DEF Implements
----
(* The honest update from a version *)

\* The entries of a finite list have the indices 0, 1, ... in their order.
LEMMA Indices ==
  ASSUME NEW S \in SUBSET Nat, IsFiniteSet(S)
  PROVE  /\ \A x \in S : IndexIn(S, x) \in 0..Cardinality(S) - 1
         /\ \A x, y \in S : x < y => IndexIn(S, x) < IndexIn(S, y)
<1> DEFINE Below(x) == {z \in S : z < x}
<1>1. Cardinality(S) \in Nat
  BY FS_CardinalityType
<1>2. ASSUME NEW x \in S PROVE IsFiniteSet(Below(x)) /\ Cardinality(Below(x)) \in Nat
  <2>1. Below(x) \in SUBSET S
    OBVIOUS
  <2> QED BY <2>1, FS_Subset, FS_CardinalityType
<1>3. ASSUME NEW T \in SUBSET S, IsFiniteSet(T), NEW U \in SUBSET T, U # T
      PROVE  Cardinality(U) < Cardinality(T)
  <2>1. /\ IsFiniteSet(U) /\ Cardinality(U) <= Cardinality(T)
        /\ Cardinality(T) = Cardinality(U) => T = U
    BY <1>3, FS_Subset
  <2>2. Cardinality(T) \in Nat /\ Cardinality(U) \in Nat
    BY <1>3, <2>1, FS_CardinalityType
  <2> QED BY <1>3, <2>1, <2>2
<1>4. ASSUME NEW x \in S PROVE IndexIn(S, x) \in 0..Cardinality(S) - 1
  <2>1. Below(x) \in SUBSET S /\ x \in S /\ x \notin Below(x)
    OBVIOUS
  <2>2. Cardinality(Below(x)) < Cardinality(S)
    BY <2>1, <1>3
  <2> QED BY <1>1, <1>2, <2>2 DEF IndexIn
<1>5. ASSUME NEW x \in S, NEW y \in S, x < y PROVE IndexIn(S, x) < IndexIn(S, y)
  <2>1. Below(x) \in SUBSET Below(y) /\ Below(y) \in SUBSET S
    <3>1. \A z \in S : z \in Nat /\ x \in Nat /\ y \in Nat
      OBVIOUS
    <3>2. \A z \in S : z < x => z < y
      BY <1>5, <3>1
    <3> QED BY <3>2
  <2>2. x \in Below(y) /\ x \notin Below(x)
    BY <1>5
  <2>3. Cardinality(Below(x)) < Cardinality(Below(y))
    BY <2>1, <2>2, <1>2, <1>3
  <2> QED BY <2>3 DEF IndexIn
<1> QED BY <1>4, <1>5

\* Ascending is the set in its order: there is such a sequence, and it has every
\* element.
LEMMA AscendingIs ==
  ASSUME NEW S \in SUBSET Nat, IsFiniteSet(S)
  PROVE  /\ Ascending(S) \in [1..Cardinality(S) -> S]
         /\ StrictlyIncreasing(Ascending(S))
         /\ \A x \in S : \E i \in 1..Cardinality(S) : Ascending(S)[i] = x
<1> DEFINE k == Cardinality(S)
           index == [x \in S |-> IndexIn(S, x) + 1]
           s == [i \in 1..k |-> CHOOSE x \in S : index[x] = i]
           a == Ascending(S)
<1>1. k \in Nat
  BY FS_CardinalityType
<1>2. index \in Bijection(S, 1..k)
  <2>1. \A x \in S : index[x] \in 1..k
    BY <1>1, Indices
  <2>2. \A x, y \in S : x < y => index[x] < index[y]
    BY Indices, <2>1
  <2>3. index \in Injection(S, 1..k)
    <3>1. \A x, y \in S : index[x] = index[y] => x = y
      <4> SUFFICES ASSUME NEW x \in S, NEW y \in S, x # y PROVE index[x] # index[y]
        OBVIOUS
      <4> HIDE DEF index
      <4>1. x < y \/ y < x
        OBVIOUS
      <4>2. index[x] \in Int /\ index[y] \in Int
        BY <2>1, <1>1
      <4> QED BY <4>1, <4>2, <2>2
    <3> QED BY <2>1, <3>1 DEF Injection, IsInjective
  <2>4. IsFiniteSet(1..k) /\ Cardinality(1..k) = k
    BY <1>1, FS_Interval
  <2>5. index \in Surjection(S, 1..k)
    <3> HIDE DEF index
    <3> QED BY <2>3, <2>4, FS_Injection
  <2> QED BY <2>3, <2>5 DEF Bijection
<1>3. \A i \in 1..k : s[i] \in S /\ index[s[i]] = i
  BY <1>2 DEF Bijection, Surjection
<1>4. s \in [1..k -> S] /\ StrictlyIncreasing(s)
  <2>1. s \in [1..k -> S]
    BY <1>3
  <2>2. Len(s) = k
    BY <1>1, <2>1
  <2>3. ASSUME NEW i \in 2..k PROVE s[i - 1] < s[i]
    <3>1. i - 1 \in 1..k /\ i \in 1..k /\ i - 1 < i
      BY <1>1
    <3> DEFINE x == s[i - 1]  y == s[i]
    <3>2. x \in S /\ y \in S /\ IndexIn(S, x) + 1 = i - 1 /\ IndexIn(S, y) + 1 = i
      BY <3>1, <1>3
    <3> HIDE DEF x, y
    <3>3. IndexIn(S, x) \in Nat /\ IndexIn(S, y) \in Nat /\ x \in Nat /\ y \in Nat
      BY <3>2, <1>1, Indices
    <3>4. ~(y < x) /\ x # y
      BY <3>1, <3>2, <3>3, Indices
    <3>5. x < y
      BY <3>3, <3>4
    <3> QED BY <3>5 DEF x, y
  <2> HIDE DEF s
  <2> QED BY <2>1, <2>2, <2>3 DEF StrictlyIncreasing
<1>5. a \in [1..k -> S] /\ StrictlyIncreasing(a)
  <2> HIDE DEF s
  <2> QED BY <1>4 DEF Ascending
<1> HIDE DEF a, s
<1>6. Len(a) = k
  BY <1>1, <1>5
<1>7. ASSUME NEW i \in 1..k, NEW j \in 1..k, i < j PROVE a[i] < a[j]
  <2> SUFFICES ASSUME ~(a[i] < a[j]) PROVE FALSE
    OBVIOUS
  <2> DEFINE T == {m \in 1..k : i < m /\ ~(a[i] < a[m])}
             e == Earliest(T)
  <2>1. T \in SUBSET Nat /\ T # {}
    BY <1>1, <1>7
  <2>2. e \in T /\ \A t \in T : e <= t
    <3> HIDE DEF T
    <3> QED BY <2>1, EarliestNat
  <2> HIDE DEF e
  <2>3. e \in 2..k /\ e - 1 \in 1..k /\ e - 1 < e
    BY <1>1, <2>2
  <2>4. a[e - 1] < a[e]
    BY <2>3, <1>5, <1>6 DEF StrictlyIncreasing
  <2>5. e - 1 = i \/ a[i] < a[e - 1]
    BY <2>2, <2>3
  <2>6. a[i] \in Nat /\ a[e - 1] \in Nat /\ a[e] \in Nat
    <3>1. i \in 1..k /\ e \in 1..k /\ \A m \in 1..k : a[m] \in Nat
      BY <1>5, <2>2
    <3> QED BY <2>3, <3>1
  <2> QED BY <2>2, <2>4, <2>5, <2>6
<1>8. a \in Injection(1..k, S)
  <2>1. ASSUME NEW i \in 1..k, NEW j \in 1..k, a[i] = a[j] PROVE i = j
    <3>1. i < j \/ j < i \/ i = j
      BY <1>1
    <3>2. a[i] \in Nat /\ a[j] \in Nat
      BY <1>5
    <3> QED BY <2>1, <3>1, <3>2, <1>7
  <2> QED BY <1>5, <2>1 DEF Injection, IsInjective
<1>9. IsFiniteSet(1..k) /\ Cardinality(1..k) = Cardinality(S)
  BY <1>1, FS_Interval
<1>10. a \in Surjection(1..k, S)
  BY <1>8, <1>9, FS_Injection
<1> QED BY <1>5, <1>10 DEF Surjection, a

\* The indices into a list of some of its entries.
IndicesOf(S, T) == {IndexIn(S, x) : x \in T}

\* The removal indices of an honest update take from the list just what the new
\* version does not have.
TakesAway(old, new, removals) ==
  /\ StrictlyIncreasing(removals)
  /\ \A i \in DOMAIN removals : removals[i] \in 0..Cardinality(old) - 1
  /\ Survivors(old, removals) = old \cap new
  /\ old \subseteq new => removals = << >>

LEMMA HonestRemovals ==
  ASSUME NEW old \in SUBSET Nat, IsFiniteSet(old), NEW new
  PROVE  TakesAway(old, new, Ascending(IndicesOf(old, old \ new)))
<1> DEFINE gone == IndicesOf(old, old \ new)
           removals == Ascending(gone)
           n == Cardinality(old)
<1>0. gone = {IndexIn(old, x) : x \in old \ new}
  BY DEF IndicesOf
<1>1. n \in Nat /\ \A x \in old : IndexIn(old, x) \in 0..n - 1
  BY Indices, FS_CardinalityType
<1>2. gone \in SUBSET (0..n - 1) /\ gone \in SUBSET Nat
  BY <1>0, <1>1
<1>3. IsFiniteSet(gone)
  <2>1. IsFiniteSet(0..n - 1)
    BY <1>1, FS_Interval
  <2> HIDE DEF gone
  <2> QED BY <1>2, <2>1, FS_Subset
<1>4. /\ removals \in [1..Cardinality(gone) -> gone] /\ StrictlyIncreasing(removals)
      /\ \A x \in gone : \E i \in 1..Cardinality(gone) : removals[i] = x
  <2> HIDE DEF gone
  <2> QED BY <1>2, <1>3, AscendingIs
<1>5. \A i \in DOMAIN removals : removals[i] \in 0..n - 1
  <2> HIDE DEF gone, removals
  <2> QED BY <1>2, <1>4
<1>6. \A x, y \in old : IndexIn(old, x) = IndexIn(old, y) => x = y
  <2> SUFFICES ASSUME NEW x \in old, NEW y \in old, x # y
               PROVE  IndexIn(old, x) # IndexIn(old, y)
    OBVIOUS
  <2>1. x < y \/ y < x
    OBVIOUS
  <2>2. IndexIn(old, x) \in Int /\ IndexIn(old, y) \in Int
    BY <1>1
  <2> QED BY <2>1, <2>2, Indices
<1>7. ASSUME NEW x \in old
      PROVE  (\A i \in DOMAIN removals : removals[i] # IndexIn(old, x)) <=> x \in new
  <2>1. (\A i \in DOMAIN removals : removals[i] # IndexIn(old, x))
          <=> IndexIn(old, x) \notin gone
    <3> HIDE DEF gone, removals
    <3> QED BY <1>4
  <2>2. IndexIn(old, x) \notin gone <=> x \in new
    BY <1>0, <1>6
  <2> QED BY <2>1, <2>2
<1>8. Survivors(old, removals) = old \cap new
  <2> HIDE DEF removals
  <2> QED BY <1>7 DEF Survivors
<1>9. old \subseteq new => removals = << >>
  <2> SUFFICES ASSUME old \subseteq new PROVE removals = << >>
    OBVIOUS
  <2>1. gone = {}
    BY <1>0
  <2> HIDE DEF gone
  <2> QED BY <2>1, NothingAscends
<1> HIDE DEF removals
<1>10. TakesAway(old, new, removals)
  BY <1>4, <1>5, <1>8, <1>9 DEF TakesAway
<1> QED BY <1>10 DEF removals

\* Whether the service answers with what has changed, and since which entries.
Changes(n, base, r) == ~r.full /\ base \in Versions(n)
Since(n, base, r) == IF Changes(n, base, r) THEN Content[n][base] ELSE {}

\* What an update with nothing wrong in it holds.
IsHonest(n, base, r, u, new, partial, old) ==
  /\ u.name = n /\ u.version = r.version /\ u.base = base /\ u.wait = r.wait
  /\ u.partial = partial /\ u.meta = r.meta
  /\ u.removals = Ascending(IndicesOf(old, old \ new))
  /\ u.additions = HashList(Width[n], new \ old)
  /\ u.checksum = IF partial /\ new = old THEN NoChecksum
                  ELSE Checksum(HashList(Width[n], new))
  /\ new \in SUBSET Nat /\ old \in SUBSET Nat /\ IsFiniteSet(old)
  /\ r.version # 0 /\ r.wait \in Nat
  /\ partial => base # 0
  /\ ~partial => old = {} /\ u.removals = << >>

LEMMA HonestFields ==
  ASSUME NEW n \in Selected, NEW base, NEW r \in Replies, r.fault = "none"
  PROVE  IsHonest(n, base, r, Update(n, base, r), Content[n][r.version],
                  Changes(n, base, r), Since(n, base, r))
<1> DEFINE u       == Update(n, base, r)
           new     == Content[n][r.version]
           partial == Changes(n, base, r)
           old     == Since(n, base, r)
<1>1. /\ u.name = n /\ u.version = r.version /\ u.base = base /\ u.wait = r.wait
      /\ u.partial = partial /\ u.meta = r.meta
      /\ u.removals = Ascending(IndicesOf(old, old \ new))
      /\ u.additions = HashList(Width[n], (new \ old) \cup {})
      /\ u.checksum = IF partial /\ new = old THEN NoChecksum
                      ELSE Checksum(HashList(Width[n], new))
  BY DEF Update, Changes, Since, IndicesOf
<1>2. (new \ old) \cup {} = new \ old
  OBVIOUS
<1>3. ASSUME ~partial PROVE old = {} /\ u.removals = << >>
  <2>1. old = {}
    BY <1>3 DEF Since
  <2>2. IndicesOf(old, old \ new) = {}
    BY <2>1 DEF IndicesOf
  <2> HIDE DEF u, old
  <2> QED BY <1>1, <2>1, <2>2, NothingAscends
<1>4. /\ new \in SUBSET Nat /\ old \in SUBSET Nat
      /\ r.version # 0 /\ r.wait \in Nat
      /\ partial => base # 0
  BY ServiceAssumption DEF Since, Changes
<1>5. IsFiniteSet(old)
  BY ServiceAssumption, FS_EmptySet DEF Since, Changes
<1> HIDE DEF u, old, new, partial
<1>6. u.additions = HashList(Width[n], new \ old)
  BY <1>1, <1>2
<1>7. (partial => base # 0) /\ (~partial => old = {} /\ u.removals = << >>)
  BY <1>3, <1>4
<1>8. IsHonest(n, base, r, u, new, partial, old)
  BY <1>1, <1>4, <1>5, <1>6, <1>7 DEF IsHonest
<1> QED BY <1>8 DEF u, old, new, partial

\* ApplyUpdate accepts an honest update to the list it was made for.
LEMMA HonestApplies ==
  ASSUME NEW n \in Selected, NEW base, NEW r \in Replies, r.fault = "none",
         NEW hashes,
         base \in Versions(n) => hashes = HashList(Width[n], Content[n][base])
  PROVE  UpdateError(hashes, Update(n, base, r)) = "none"
<1> DEFINE u       == Update(n, base, r)
           new     == Content[n][r.version]
           partial == Changes(n, base, r)
           old     == Since(n, base, r)
<1>1. /\ u.partial = partial
      /\ u.removals = Ascending(IndicesOf(old, old \ new))
      /\ u.additions = HashList(Width[n], new \ old)
      /\ u.checksum = IF partial /\ new = old THEN NoChecksum
                      ELSE Checksum(HashList(Width[n], new))
      /\ new \in SUBSET Nat /\ old \in SUBSET Nat /\ IsFiniteSet(old)
      /\ ~partial => old = {} /\ u.removals = << >>
  <2>1. IsHonest(n, base, r, u, new, partial, old)
    BY HonestFields
  <2> HIDE DEF u, new, partial, old
  <2> QED BY <2>1 DEF IsHonest
<1>2. partial => hashes = HashList(Width[n], old)
  BY DEF Changes, Since
<1>3. Width[n] \in Widths
  BY ConfigAssumption
<1>4. /\ StrictlyIncreasing(u.removals)
      /\ \A i \in DOMAIN u.removals : u.removals[i] \in 0..Cardinality(old) - 1
      /\ Survivors(old, u.removals) = old \cap new
      /\ old \subseteq new => u.removals = << >>
  <2> HIDE DEF u, old, new
  <2>1. TakesAway(old, new, Ascending(IndicesOf(old, old \ new)))
    BY <1>1, HonestRemovals
  <2>2. TakesAway(old, new, u.removals)
    BY <1>1, <2>1
  <2> QED BY <2>2 DEF TakesAway
<1>5. Cardinality(old) \in Nat
  BY <1>1, FS_CardinalityType
<1>6. Checksum(HashList(Width[n], new)) # NoChecksum
  BY DEF Checksum, NoChecksum
<1> HIDE DEF u, new, old, partial
<1>7. Valid(u.additions)
  BY <1>1, <1>3 DEF Valid, HashList
<1>8. CASE ~partial
  <2>1. ~Malformed(hashes, u)
    BY <1>1, <1>6, <1>7, <1>8 DEF Malformed, MalformedFull
  <2>2. new \ old = new
    BY <1>1, <1>8
  <2>3. Merged(hashes, u) = HashList(Width[n], new) /\ u.checksum = Checksum(HashList(Width[n], new))
    BY <1>1, <1>6, <1>8, <2>2 DEF Merged
  <2> QED BY <2>1, <2>3 DEF UpdateError, u
<1>9. CASE partial
  <2>1. hashes.width = Width[n] /\ hashes.data = old /\ u.additions.width = Width[n]
        /\ u.additions.data = new \ old
    BY <1>1, <1>2, <1>9 DEF HashList
  <2>2. \A i \in DOMAIN u.removals : ~(u.removals[i] >= Cardinality(hashes.data))
    BY <1>4, <1>5, <2>1
  <2>3. u.checksum = NoChecksum => u.removals = << >> /\ u.additions.data = {}
    <3>1. u.checksum = NoChecksum => new = old
      BY <1>1, <1>6
    <3>2. new = old => new \ old = {} /\ old \subseteq new
      OBVIOUS
    <3> QED BY <1>4, <2>1, <3>1, <3>2
  <2>4. Survivors(hashes.data, u.removals) \cap u.additions.data = {}
    BY <1>4, <2>1
  <2>5. ~MalformedPartial(hashes, u)
    BY <1>3, <1>4, <2>1, <2>2, <2>3, <2>4 DEF MalformedPartial, Valid
  <2>6. ~Malformed(hashes, u)
    BY <1>1, <1>7, <1>9, <2>5 DEF Malformed
  <2>7. Survivors(hashes.data, u.removals) \cup u.additions.data = new
    BY <1>4, <2>1
  <2>8. Merged(hashes, u) = HashList(Width[n], new)
    BY <1>1, <1>9, <2>1, <2>7 DEF Merged
  <2> QED BY <1>1, <2>6, <2>8 DEF UpdateError, u
<1> QED BY <1>8, <1>9

\* Nor does cycle or Apply refuse it, at a time no earlier than the list's.
LEMMA HonestAccepted ==
  ASSUME Typed, AllGenuine(db), NEW n \in Selected, NEW r \in Replies, r.fault = "none",
         now >= db[n].updatedAt
  PROVE  ~Refused(n, Update(n, db[n].version, r), db[n].version)
<1> DEFINE p == db[n]  u == Update(n, p.version, r)
<1>1. n \in Names /\ p \in ListStates(Nat) /\ now \in Nat \ {0}
  BY ConfigAssumption DEF Typed, Lists
<1>2. /\ u.name = n /\ u.version = r.version /\ u.base = p.version /\ u.wait = r.wait
      /\ u.additions.width = Width[n] /\ r.version # 0 /\ r.wait \in Nat
  <2>1. u.additions = HashList(Width[n], Content[n][r.version] \ Since(n, p.version, r))
    <3>1. IsHonest(n, p.version, r, u, Content[n][r.version], Changes(n, p.version, r),
                   Since(n, p.version, r))
      BY HonestFields
    <3> HIDE DEF u, p
    <3> QED BY <3>1 DEF IsHonest
  <2>2. u.additions.width = Width[n]
    BY <2>1 DEF HashList
  <2>3. IsHonest(n, p.version, r, u, Content[n][r.version], Changes(n, p.version, r),
                 Since(n, p.version, r))
    BY HonestFields
  <2> HIDE DEF u, p
  <2> QED BY <2>2, <2>3 DEF IsHonest
<1>3. p = NoList \/ Genuine(n, p)
  BY <1>1 DEF AllGenuine
<1>4. ~BadFields(u, now)
  BY <1>1, <1>2 DEF BadFields
<1>5. p # NoList => p.hashes = HashList(Width[n], Content[n][p.version])
  BY <1>3 DEF Genuine
<1>6. p.version \in Versions(n) => p.hashes = HashList(Width[n], Content[n][p.version])
  <2>1. NoList.version \notin Versions(n)
    BY ServiceAssumption DEF NoList, ListState
  <2> QED BY <1>5, <2>1
<1>7. ~Incompatible(p, u, now)
  <2>1. p # NoList => p.hashes.width = Width[n]
    BY <1>5 DEF HashList
  <2>2. p.updatedAt \in Nat /\ ~(now < p.updatedAt)
    BY <1>1 DEF ListStates
  <2> QED BY <1>2, <2>1, <2>2 DEF Incompatible
<1>8. UpdateError(p.hashes, u) = "none"
  <2> HIDE DEF p
  <2> QED BY <1>6, HonestApplies
<1>9. db[u.name] = p
  BY <1>2
<1> HIDE DEF u
<1>10. ApplyError(db, u, now) = "none"
  BY <1>2, <1>4, <1>7, <1>8, <1>9 DEF ApplyError
<1>11. ~Refused(n, u, p.version)
  BY <1>2, <1>10 DEF Refused
<1> QED BY <1>11 DEF u

\* decodeList lets an honest list through.
LEMMA HonestDecodes ==
  ASSUME NEW n \in Selected, NEW base, NEW r \in WireReplies, r.fault = "none"
  PROVE  Decodes(n, base, Sent(n, base, r))
<1> DEFINE q       == Carried(r)
           u       == Update(n, base, q)
           l       == Sent(n, base, r)
           new     == Content[n][q.version]
           partial == Changes(n, base, q)
           old     == Since(n, base, q)
<1>1. q = [r EXCEPT !.fault = IF @ \in SilentFaults THEN @ ELSE "none"]
  BY DEF Carried
<1>2. q \in Replies /\ q.fault = "none" /\ q.full = r.full /\ q.version = r.version
  BY CarriedFields DEF SilentFaults
<1>3. /\ u.version = q.version /\ u.wait = q.wait /\ u.partial = partial
      /\ u.additions = HashList(Width[n], new \ old)
      /\ u.checksum = IF partial /\ new = old THEN NoChecksum
                      ELSE Checksum(HashList(Width[n], new))
      /\ ~partial => old = {} /\ u.removals = << >>
      /\ new \in SUBSET Nat /\ old \in SUBSET Nat
      /\ q.version # 0 /\ q.wait \in Nat
      /\ partial => base # 0
  <2>1. IsHonest(n, base, q, u, new, partial, old)
    BY <1>2, HonestFields
  <2> HIDE DEF q, u, new, partial, old
  <2> QED BY <2>1 DEF IsHonest
<1>4. Dropped(n, base, r) = old \ new
  BY <1>2 DEF Dropped, Since, Changes
<1>5. /\ l.right /\ l.version = u.version /\ l.partial = u.partial /\ l.wait = u.wait
      /\ l.meta \in {"fits", "none"} /\ l.checksum = u.checksum
      /\ l.additions = IF u.additions.data = {} THEN Absent
                       ELSE Block(Width[n], TRUE, u.additions.data)
      /\ l.removals = IF old \ new = {} THEN Absent ELSE Block(4, TRUE, u.removals)
  BY <1>1, <1>4 DEF Sent
<1>6. u.additions.data = new \ old
  BY <1>3 DEF HashList
<1> DEFINE d == DecodedUpdate(n, base, l)
<1>7. /\ d.partial = l.partial /\ d.checksum = l.checksum
      /\ d.additions = HashList(Width[n], l.additions.holds) /\ d.removals = Removals(l)
  BY DEF DecodedUpdate, Additions
<1>8. Checksum(HashList(Width[n], new)) # NoChecksum
  BY DEF Checksum, NoChecksum
<1> HIDE DEF q, u, l, new, partial, old, d
<1>9. l.partial => base # 0
  BY <1>3, <1>5
<1>10. l.removals.present => l.partial
  <2>1. ~partial => old \ new = {}
    BY <1>3
  <2>2. ~partial => l.removals = Absent
    BY <1>5, <2>1
  <2>3. partial => l.partial
    BY <1>3, <1>5
  <2> QED BY <2>2, <2>3 DEF Absent
<1>11. DurationFits(l) /\ MetadataFits(l) /\ WidthFits(n, l)
  BY <1>3, <1>5 DEF DurationFits, MetadataFits, WidthFits, Absent, Block
<1>12. l.additions.decodes /\ l.removals.decodes
  BY <1>5 DEF Absent, Block
<1>13. Summed(l)
  <2> SUFFICES ASSUME l.checksum = NoChecksum
               PROVE  l.partial /\ ~l.additions.present /\ ~l.removals.present
    BY DEF Summed
  <2>1. partial /\ new = old
    BY <1>3, <1>5, <1>8
  <2>2. l.additions = Absent /\ l.removals = Absent
    BY <1>5, <1>6, <2>1
  <2>3. l.partial
    BY <1>3, <1>5, <2>1
  <2> QED BY <2>2, <2>3 DEF Absent
<1>14. FullVerified(n, base, l)
  <2> SUFFICES ASSUME ~l.partial PROVE UpdateError(InvalidList, d) = "none"
    BY DEF FullVerified, d
  <2>1. ~partial /\ old = {}
    BY <1>3, <1>5
  <2>2. l.additions.holds = new
    BY <1>3, <1>5, <1>6, <2>1 DEF Absent, Block
  <2>3. l.removals = Absent
    BY <1>5, <2>1
  <2>4. d.removals = << >>
    BY <1>7, <2>3 DEF Removals, Absent
  <2>5. d.checksum = Checksum(HashList(Width[n], new))
    BY <1>3, <1>5, <1>7, <2>1
  <2>6. Valid(d.additions)
    BY <1>7, ConfigAssumption DEF Valid, HashList
  <2>7. ~Malformed(InvalidList, d)
    BY <1>7, <1>8, <2>4, <2>5, <2>6 DEF Malformed, MalformedFull
  <2>8. Merged(InvalidList, d) = HashList(Width[n], new)
    BY <1>7, <2>2 DEF Merged
  <2> QED BY <2>5, <2>7, <2>8 DEF UpdateError
<1>15. Decodes(n, base, l)
  BY <1>3, <1>5, <1>9, <1>10, <1>11, <1>12, <1>13, <1>14 DEF Decodes
<1> QED BY <1>15 DEF l
----
(* What makes the updater drop a list *)

\* The call names only lists that do not decode, or was no call at all.
LEMMA BatchedDrops ==
  ASSUME Integrity, Schedule, AskedAtVersion, NEW c \in Callers, Batched(c),
         NEW n \in Names, Exists(db, n), ~Exists(db', n)
  PROVE  n \in faulty'
<1> DEFINE asked == DOMAIN request[c]
           sent(reply) == [m \in asked |-> Sent(m, request[c][m], reply[m])]
           bad(reply) == {m \in asked : ~Decodes(m, request[c][m], sent(reply)[m])}
           decoded(reply) ==
             [m \in asked |-> DecodedUpdate(m, request[c][m], sent(reply)[m])]
<1>1. PICK reply \in [asked -> WireReplies] :
        /\ \/ /\ bad(reply) # {}
              /\ \E blamed \in Accused(asked, bad(reply)) : CallFailed(c, blamed, 0)
           \/ /\ bad(reply) = {}
              /\ \E delay \in ListDelays(asked) : Received(c, decoded(reply), delay)
        /\ faulty' = {m \in asked : reply[m].fault # "none"}
  BY DEF Batched
<1>2. asked \subseteq Selected /\ Selected \subseteq Names
  BY RequestType, ConfigAssumption DEF Integrity, Typed
<1>3. ASSUME NEW m \in asked, reply[m].fault = "none" PROVE m \notin bad(reply)
  <2>1. Decodes(m, request[c][m], Sent(m, request[c][m], reply[m]))
    BY <1>2, <1>3, HonestDecodes
  <2> QED BY <2>1
<1>4. CASE bad(reply) # {}
  <2>1. PICK blamed \in Accused(asked, bad(reply)) : CallFailed(c, blamed, 0)
    BY <1>1, <1>4
  <2>2. db' = [m \in Names |-> IF m \in blamed THEN NoList ELSE db[m]]
    BY <2>1 DEF CallFailed
  <2>3. n \in blamed
    BY <2>2 DEF Exists
  <2>4. n \in bad(reply)
    <3> HIDE DEF bad
    <3> QED BY <2>1, <2>3 DEF Accused
  <2>5. n \in asked
    BY <2>4
  <2> QED BY <1>1, <1>3, <2>4, <2>5
<1>5. CASE bad(reply) = {}
  <2>1. PICK delay \in ListDelays(asked) : Received(c, decoded(reply), delay)
    BY <1>1, <1>5
  <2> DEFINE u(m) == DecodedUpdate(m, request[c][m], Sent(m, request[c][m], reply[m]))
  <2>2. \A m \in asked : decoded(reply)[m] = u(m)
    OBVIOUS
  <2>3. /\ pc[c] = "fetch"
        /\ db' = [m \in Names |->
             IF m \in {k \in asked : Refused(k, decoded(reply)[k], request[c][k])} THEN NoList
             ELSE IF m \in asked THEN Apply(db, Filled(decoded(reply)[m], m), now)[m]
             ELSE db[m]]
    <3> HIDE DEF decoded
    <3> QED BY <2>1 DEF Received, EndFetch
  <2>4. n \in asked
    <3> HIDE DEF decoded
    <3> QED BY <2>3 DEF Exists
  <2>5. db'[n] = IF Refused(n, u(n), request[c][n]) THEN NoList
                ELSE Apply(db, Filled(u(n), n), now)[n]
    <3> HIDE DEF decoded, u
    <3> QED BY <2>2, <2>3, <2>4
  <2>6. u(n) = Update(n, request[c][n], Carried(reply[n])) /\ Carried(reply[n]) \in Replies
    <3>1. Decodes(n, request[c][n], Sent(n, request[c][n], reply[n]))
      BY <1>5, <2>4
    <3> QED BY <1>2, <2>4, <3>1, DecodedIsUpdate, CarriedFields
  <2> HIDE DEF u, decoded
  <2>7. Refused(n, u(n), request[c][n])
    <3> SUFFICES ASSUME ~Refused(n, u(n), request[c][n]) PROVE FALSE
      OBVIOUS
    <3>1. Genuine(n, db'[n])
      BY <1>2, <2>4, <2>5, <2>6, AppliedGenuine DEF Integrity
    <3> QED BY <1>2, <2>4, <3>1, GenuineExists DEF Exists
  <2>8. reply[n].fault # "none"
    <3> SUFFICES ASSUME reply[n].fault = "none" PROVE FALSE
      OBVIOUS
    <3>1. Carried(reply[n]).fault = "none"
      BY <2>4, CarriedFields DEF SilentFaults
    <3>2. request[c][n] = db[n].version /\ now >= db[n].updatedAt
      BY <2>3, <2>4, AskedInTime DEF AskedAtVersion
    <3>3. ~Refused(n, Update(n, db[n].version, Carried(reply[n])), db[n].version)
      BY <1>2, <2>4, <2>6, <3>1, <3>2, HonestAccepted DEF Integrity
    <3> QED BY <2>6, <2>7, <3>2, <3>3
  <2> QED BY <1>1, <2>4, <2>8
<1> QED BY <1>4, <1>5

\* A list is dropped by a running updater only when the response had something
\* wrong with that very list, or was none: an honest update from the version it
\* was asked for decodes, and is neither refused by cycle nor by Apply, whatever
\* is wrong with the other lists of the batch.
THEOREM OnlyFaultyDropped == WireSpec => OnlyFaultyInvalidated
<1> DEFINE Inv == Integrity /\ Schedule /\ AskedAtVersion
           Drops == initialized' => \A n \in Names : Exists(db, n) /\ ~Exists(db', n) => n \in faulty'
<1>1. WireSpec => []Inv
  BY WireImplements, IntegrityHolds, ScheduleHolds, AskedAtVersionAlways, PTL DEF Implements
<1>2. Inv /\ WireNext => Drops
  <2> SUFFICES ASSUME Inv, WireNext, initialized', NEW n \in Names,
                      Exists(db, n), ~Exists(db', n)
               PROVE  n \in faulty'
    OBVIOUS
  <2>1. CASE \E c \in Callers : Batched(c)
    BY <2>1, BatchedDrops
  <2>2. ASSUME NEW c \in Callers, GetFailed(c) PROVE FALSE
    <3>1. PICK after \in RetryAfters : CallFailed(c, {}, after)
      BY <2>2 DEF GetFailed
    <3>2. db' = [m \in Names |-> IF m \in {} THEN NoList ELSE db[m]]
      BY <3>1 DEF CallFailed
    <3> QED BY <3>2 DEF Exists
  <2>3. ASSUME NEW c \in Callers, ResponseInvalid(c) PROVE n \in faulty'
    <3>1. CallFailed(c, DOMAIN request[c], 0) /\ faulty' = DOMAIN request[c]
      BY <2>3 DEF ResponseInvalid
    <3>2. db' = [m \in Names |-> IF m \in DOMAIN request[c] THEN NoList ELSE db[m]]
      BY <3>1 DEF CallFailed
    <3> QED BY <3>1, <3>2 DEF Exists
  <2>4. ASSUME NEW c \in Callers, Initialize(c) PROVE FALSE
    <3>1. db = Empty
      BY <2>4 DEF Initialize, Integrity, Untouched
    <3> QED BY <3>1 DEF Exists, Empty, NoLists
  <2>5. ASSUME NEW c \in Callers, Local(c), ~Initialize(c) PROVE db' = db
    BY <2>5 DEF Local, AlreadyInitialized, LoadFailed, BeginCycle, BeginSave, Saved, SaveFailed,
       EndSave, UpdateReturns, Sleep, WakeUp, Abort, Cancel, Enter, memory
  <2>6. CASE Tick
    BY <2>6 DEF Tick, memory, Exists
  <2>7. CASE Crash
    BY <2>7 DEF Crash
  <2> QED BY <2>1, <2>2, <2>3, <2>4, <2>5, <2>6, <2>7 DEF WireNext, Exists
<1>3. Inv /\ [WireNext]_wireVars => [Drops]_wireVars
  BY <1>2
<1> QED BY <1>1, <1>3, PTL DEF WireSpec, OnlyFaultyInvalidated
==========================================================================
