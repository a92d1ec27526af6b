-------------------------- MODULE AlgorithmProofs --------------------------
(***************************************************************************)
(* That the loops of the pure algorithms compute what they should, for     *)
(* inputs of any size: each from the invariant of its loop, by induction   *)
(* on its rounds. What is proved of a URL is in URLProofs.                 *)
(***************************************************************************)
EXTENDS MCAlgorithms, WellFoundedInduction, FiniteSetTheorems, TLAPS
----
(* Induction and loops *)

LEMMA Least ==
  ASSUME NEW T \in SUBSET Nat, T # {}
  PROVE  \E x \in T : \A y \in T : x <= y
<1>1. PICK x \in T : \A y \in T : <<y, x>> \notin {p \in Nat \X Nat : p[1] < p[2]}
  BY NatLessThanWellFounded, WFMin DEF OpToRel
<1>2. \A y \in T : ~(y < x)
  BY <1>1
<1>3. \A y \in T : x <= y
  BY <1>2
<1> QED BY <1>3

\* Induction, for a set that holds the numbers a property is true of.
LEMMA Induction ==
  ASSUME NEW T, 0 \in T, \A n \in Nat : n \in T => n + 1 \in T
  PROVE  \A n \in Nat : n \in T
<1> SUFFICES ASSUME NEW n \in Nat, n \notin T PROVE FALSE
  OBVIOUS
<1> DEFINE U == {m \in Nat : m \notin T}
<1>1. U \in SUBSET Nat /\ U # {}
  OBVIOUS
<1>2. PICK x \in U : \A y \in U : x <= y
  BY <1>1, Least
<1>3. x # 0 /\ x - 1 \in Nat /\ x - 1 \notin U
  BY <1>2
<1> QED BY <1>3

\* f[k] is what k rounds of body make of start.
Rounds(f, start, body) == f[0] = start /\ \A k \in Nat : f[k + 1] = body[f[k]]

\* A loop whose body keeps its variables in a set has values after every round.
LEMMA RoundsExist ==
  ASSUME NEW S, NEW start \in S, NEW body \in [S -> S]
  PROVE  \E f \in [Nat -> S] : Rounds(f, start, body)
<1> DEFINE Runs(n) == {g \in [0..n -> S] : /\ g[0] = start
                                           /\ \A k \in 0..n - 1 : g[k + 1] = body[g[k]]}
           T == {n \in Nat : \E g : g \in Runs(n)}
           U == {n \in Nat : \A m \in Nat : m >= n =>
                   \A g \in Runs(n), h \in Runs(m) : g[n] = h[n]}
           at(n) == CHOOSE g : g \in Runs(n)
           f == [n \in Nat |-> at(n)[n]]
<1>1. \A n \in Nat : n \in T
  <2>1. 0 \in T
    <3>1. [k \in 0..0 |-> start] \in Runs(0)
      OBVIOUS
    <3> QED BY <3>1
  <2>2. ASSUME NEW n \in Nat, n \in T PROVE n + 1 \in T
    <3>1. PICK g : g \in Runs(n)
      BY <2>2
    <3> DEFINE h == [k \in 0..n + 1 |-> IF k = n + 1 THEN body[g[n]] ELSE g[k]]
    <3>2. g[n] \in S /\ h \in [0..n + 1 -> S] /\ h[0] = start
      BY <3>1
    <3>3. ASSUME NEW k \in 0..n PROVE h[k + 1] = body[h[k]]
      <4>1. CASE k = n
        BY <4>1
      <4>2. CASE k # n
        BY <4>2, <3>1
      <4> QED BY <4>1, <4>2
    <3>4. h \in Runs(n + 1)
      BY <3>2, <3>3
    <3> QED BY <3>4
  <2> HIDE DEF T
  <2> QED BY <2>1, <2>2, Induction
<1>2. \A n \in Nat : n \in U
  <2>1. 0 \in U
    OBVIOUS
  <2>2. ASSUME NEW n \in Nat, n \in U PROVE n + 1 \in U
    <3> SUFFICES ASSUME NEW m \in Nat, m >= n + 1, NEW g \in Runs(n + 1), NEW h \in Runs(m)
                 PROVE  g[n + 1] = h[n + 1]
      OBVIOUS
    <3> DEFINE p == [k \in 0..n |-> g[k]]
    <3>1. p \in Runs(n)
      <4>1. p \in [0..n -> S] /\ p[0] = start
        OBVIOUS
      <4>2. \A k \in 0..n - 1 : p[k + 1] = body[p[k]]
        OBVIOUS
      <4> QED BY <4>1, <4>2
    <3>2. m >= n /\ p[n] = g[n]
      OBVIOUS
    <3> HIDE DEF p
    <3>3. p[n] = h[n]
      BY ZenonT(60), <3>1, <3>2, <2>2
    <3>4. g[n + 1] = body[g[n]] /\ h[n + 1] = body[h[n]]
      OBVIOUS
    <3> QED BY <3>2, <3>3, <3>4
  <2> HIDE DEF U
  <2> QED BY <2>1, <2>2, Induction
<1>3. \A n \in Nat : at(n) \in Runs(n)
  BY <1>1
<1>4. \A n, m \in Nat : m >= n => \A g \in Runs(n), h \in Runs(m) : g[n] = h[n]
  <2> HIDE DEF Runs
  <2> QED BY <1>2
<1> HIDE DEF at
<1>5. f \in [Nat -> S]
  <2>1. \A n \in Nat : at(n)[n] \in S
    BY <1>3
  <2> QED BY <2>1
<1>6. f[0] = start
  <2>1. at(0)[0] = start
    BY <1>3
  <2> QED BY <2>1
<1>7. ASSUME NEW k \in Nat PROVE f[k + 1] = body[f[k]]
  <2>1. at(k) \in Runs(k) /\ at(k + 1) \in Runs(k + 1)
    BY <1>3
  <2>2. \A g \in Runs(k), h \in Runs(k + 1) : g[k] = h[k]
    <3> HIDE DEF Runs
    <3>1. k + 1 \in Nat /\ k + 1 >= k
      OBVIOUS
    <3> QED BY <3>1, <1>4
  <2>3. at(k + 1)[k + 1] = body[at(k + 1)[k]]
    BY <2>1
  <2>4. at(k)[k] = at(k + 1)[k]
    BY <2>1, <2>2
  <2>5. f[k] = at(k)[k] /\ f[k + 1] = at(k + 1)[k + 1]
    OBVIOUS
  <2> QED BY <2>3, <2>4, <2>5
<1> HIDE DEF f
<1> QED BY <1>5, <1>6, <1>7 DEF Rounds

----
(* Powers of two, and the retry delay *)

LEMMA PowerRounds ==
  \E f \in [Nat -> Nat] : /\ f[0] = 1 /\ \A k \in Nat : f[k + 1] = 2 * f[k]
                          /\ \A n \in Nat : Power2(n) = f[n]
<1> DEFINE body == [p \in Nat |-> 2 * p]
           P(g) == g = [k \in Nat |-> IF k = 0 THEN 1 ELSE 2 * g[k - 1]]
           g == CHOOSE h : P(h)
           T == {n \in Nat : g[n] \in Nat}
<1>1. \E f \in [Nat -> Nat] : Rounds(f, 1, body)
  <2>1. body \in [Nat -> Nat] /\ 1 \in Nat
    OBVIOUS
  <2> HIDE DEF body, P, g, T
  <2> QED BY <2>1, RoundsExist, Zenon
<1>2. PICK f \in [Nat -> Nat] : f[0] = 1 /\ \A k \in Nat : f[k + 1] = 2 * f[k]
  BY <1>1 DEF Rounds
<1>3. P(f)
  <2>1. \A k \in Nat : f[k] = IF k = 0 THEN 1 ELSE 2 * f[k - 1]
    BY <1>2
  <2> QED BY <2>1
<1>4. P(g)
  BY <1>3
<1>5. \A n \in Nat : Power2(n) = g[n]
  BY DEF Power2, Repeated
<1> HIDE DEF g
<1>6. g[0] = 1 /\ \A k \in Nat : g[k + 1] = 2 * g[k]
  BY <1>4
<1>7. \A n \in Nat : n \in T
  <2>1. 0 \in T /\ \A n \in Nat : n \in T => n + 1 \in T
    BY <1>6
  <2> HIDE DEF T
  <2> QED BY <2>1, Induction
<1>8. g \in [Nat -> Nat]
  BY <1>4, <1>7
<1> QED BY <1>5, <1>6, <1>8

LEMMA Power2Def ==
  /\ Power2(0) = 1
  /\ \A n \in Nat : Power2(n) \in Nat \ {0} /\ Power2(n + 1) = 2 * Power2(n)
<1>1. PICK f \in [Nat -> Nat] : /\ f[0] = 1 /\ \A k \in Nat : f[k + 1] = 2 * f[k]
                                /\ \A n \in Nat : Power2(n) = f[n]
  BY PowerRounds
<1> DEFINE T == {n \in Nat : f[n] # 0}
<1>2. \A n \in Nat : n \in T
  <2>1. 0 \in T /\ \A n \in Nat : n \in T => n + 1 \in T
    BY <1>1
  <2> HIDE DEF T
  <2> QED BY <2>1, Induction
<1> QED BY <1>1, <1>2

LEMMA SmallModulus ==
  ASSUME NEW m \in Nat \ {0}, NEW x \in 0..m - 1
  PROVE  x % m = x
OBVIOUS

LEMMA DoublesExactly ==
  ASSUME NEW max \in 0..MaxInt, NEW delay \in 0..max
  PROVE  Doubled(delay, max) = IF 2 * delay < max THEN 2 * delay ELSE max
<1>1. MaxInt \in Nat
  BY MaxIntAssumption
<1>2. CASE delay <= max \div 2 /\ delay < max
  <2>1. 2 * delay \in 0..MaxInt /\ 2 * delay <= max
    BY <1>1, <1>2
  <2> DEFINE m == 2 * (MaxInt + 1)
             x == 2 * delay + MaxInt + 1
  <2>2. m \in Nat \ {0} /\ x \in 0..m - 1
    BY <1>1, <2>1
  <2>3. x % m = x
    <3> HIDE DEF m, x
    <3> QED BY <2>2, SmallModulus
  <2>4. Wrapped(2 * delay) = 2 * delay
    BY <1>1, <2>1, <2>3 DEF Wrapped
  <2> QED BY <1>1, <1>2, <2>1, <2>4 DEF Doubled
<1>3. CASE delay > max \div 2 \/ delay >= max
  BY <1>1, <1>3 DEF Doubled
<1> QED BY <1>1, <1>2, <1>3

LEMMA BackoffRounds ==
  ASSUME NEW max \in 0..MaxInt, NEW initial \in 0..max
  PROVE  \E f \in [Nat -> 0..max] :
           /\ f[0] = initial /\ \A k \in Nat : f[k + 1] = Doubled(f[k], max)
           /\ \A n \in Nat : RetryDelay(initial, max, n + 1) = f[n]
<1> DEFINE S == 0..max
           body == [delay \in S |-> Doubled(delay, max)]
           P(g) == g = [k \in Nat |-> IF k = 0 THEN initial ELSE Doubled(g[k - 1], max)]
           g == CHOOSE h : P(h)
           T == {n \in Nat : g[n] \in S}
<1>1. max \in Nat
  BY MaxIntAssumption
<1>2. \A delay \in S : Doubled(delay, max) \in S
  BY <1>1, DoublesExactly
<1>3. \E f \in [Nat -> S] : Rounds(f, initial, body)
  <2>1. body \in [S -> S] /\ initial \in S
    BY <1>2
  <2> HIDE DEF S, body, P, g, T
  <2> QED BY <2>1, RoundsExist, Zenon
<1>4. PICK f \in [Nat -> S] : f[0] = initial /\ \A k \in Nat : f[k + 1] = Doubled(f[k], max)
  BY <1>3 DEF Rounds
<1>5. P(f)
  <2>1. \A k \in Nat : f[k] = IF k = 0 THEN initial ELSE Doubled(f[k - 1], max)
    BY <1>4
  <2> QED BY <2>1
<1>6. P(g)
  BY <1>5
<1>7. \A n \in Nat : RetryDelay(initial, max, n + 1) = g[n]
  BY DEF RetryDelay, Repeated
<1> HIDE DEF g
<1>8. g[0] = initial /\ \A k \in Nat : g[k + 1] = Doubled(g[k], max)
  BY <1>6
<1>9. \A n \in Nat : n \in T
  <2>1. 0 \in T /\ \A n \in Nat : n \in T => n + 1 \in T
    BY <1>2, <1>8
  <2> HIDE DEF T
  <2> QED BY <2>1, Induction
<1>10. g \in [Nat -> S]
  BY <1>6, <1>9
<1> QED BY <1>7, <1>8, <1>10

\* The delay after any number of failures is the first one doubled as often, or
\* the longest if that is less: the arithmetic never overflows, whatever the width
\* of the integers (retryDelay).
THEOREM DelaysDouble ==
  \A max \in 0..MaxInt : \A initial \in 0..max : \A failures \in Nat \ {0} :
    Doubles(initial, max, failures)
<1> SUFFICES ASSUME NEW max \in 0..MaxInt, NEW initial \in 0..max, NEW failures \in Nat \ {0}
             PROVE  Doubles(initial, max, failures)
  OBVIOUS
<1>1. max \in Nat
  BY MaxIntAssumption
<1>2. PICK f \in [Nat -> 0..max] :
        /\ f[0] = initial /\ \A k \in Nat : f[k + 1] = Doubled(f[k], max)
        /\ \A n \in Nat : RetryDelay(initial, max, n + 1) = f[n]
  BY BackoffRounds
<1> DEFINE d(n) == initial * Power2(n)
           T == {n \in Nat : f[n] = IF d(n) < max THEN d(n) ELSE max}
<1>3. 0 \in T
  BY <1>1, <1>2, Power2Def
<1>4. ASSUME NEW n \in Nat, n \in T PROVE n + 1 \in T
  <2>1. d(n) \in Nat /\ d(n + 1) = 2 * d(n)
    BY <1>1, Power2Def
  <2>2. f[n + 1] = IF 2 * f[n] < max THEN 2 * f[n] ELSE max
    BY <1>2, DoublesExactly
  <2>3. f[n] = IF d(n) < max THEN d(n) ELSE max
    BY <1>4
  <2> HIDE DEF d
  <2>4. f[n + 1] = IF d(n + 1) < max THEN d(n + 1) ELSE max
    BY <1>1, <2>1, <2>2, <2>3
  <2> QED BY <2>4
<1>5. \A n \in Nat : n \in T
  <2> HIDE DEF T
  <2> QED BY <1>3, <1>4, Induction
<1>6. RetryDelay(initial, max, failures) = f[failures - 1] /\ failures - 1 \in Nat
  BY <1>2
<1> QED BY <1>5, <1>6 DEF Doubles

----
(* Binary search *)

LEMMA IncreasingPairs ==
  ASSUME NEW s \in Seq(Int), StrictlyIncreasing(s)
  PROVE  \A i, j \in DOMAIN s : i < j => s[i] < s[j]
<1> DEFINE T == {n \in Nat : n + 1 \in DOMAIN s => \A i \in 1..n : s[i] < s[n + 1]}
<1>1. DOMAIN s = 1..Len(s) /\ Len(s) \in Nat /\ \A i \in 1..Len(s) : s[i] \in Int
  OBVIOUS
<1>2. ASSUME NEW i \in 1..Len(s) - 1 PROVE s[i] < s[i + 1]
  <2>1. i + 1 \in 2..Len(s) /\ (i + 1) - 1 = i
    BY <1>1
  <2> QED BY <2>1 DEF StrictlyIncreasing
<1>3. 0 \in T
  OBVIOUS
<1>4. ASSUME NEW n \in Nat, n \in T PROVE n + 1 \in T
  <2> SUFFICES ASSUME (n + 1) + 1 \in 1..Len(s), NEW i \in 1..n + 1
               PROVE  s[i] < s[(n + 1) + 1]
    BY <1>1
  <2>1. n + 1 \in 1..Len(s) - 1 /\ n + 1 \in 1..Len(s) /\ i \in 1..Len(s)
    BY <1>1
  <2>2. s[n + 1] < s[(n + 1) + 1]
    BY <1>2, <2>1
  <2>3. i = n + 1 \/ i \in 1..n
    OBVIOUS
  <2>4. i = n + 1 \/ s[i] < s[n + 1]
    BY <1>1, <1>4, <2>1, <2>3
  <2>5. s[i] \in Int /\ s[n + 1] \in Int /\ s[(n + 1) + 1] \in Int
    BY <1>1, <2>1
  <2> QED BY <2>2, <2>4, <2>5
<1>5. \A n \in Nat : n \in T
  <2> HIDE DEF T
  <2> QED BY <1>3, <1>4, Induction
<1> SUFFICES ASSUME NEW i \in 1..Len(s), NEW j \in 1..Len(s), i < j PROVE s[i] < s[j]
  BY <1>1
<1>6. j - 1 \in Nat /\ (j - 1) + 1 = j /\ i \in 1..j - 1
  BY <1>1
<1>7. j - 1 \in T
  <2> HIDE DEF T
  <2> QED BY <1>5, <1>6
<1> QED BY <1>1, <1>6, <1>7

\* What is below low is smaller than h, and what is not below high is not.
Narrowed(list, h) ==
  {s \in [low : 0..Len(list), high : 0..Len(list)] :
     /\ s.low <= s.high
     /\ \A i \in 1..s.low : list[i] < h
     /\ \A i \in s.high + 1..Len(list) : list[i] >= h}

LEMMA Narrows ==
  ASSUME NEW list \in Seq(Int), StrictlyIncreasing(list), NEW h \in Int,
         NEW s \in Narrowed(list, h)
  PROVE  LET t == SearchStep(list, h, s)
         IN /\ t \in Narrowed(list, h)
            /\ s.low < s.high => t.high - t.low < s.high - s.low
            /\ s.low = s.high => t = s
<1> DEFINE mid == (s.low + s.high) \div 2
<1>1. CASE s.low >= s.high
  BY <1>1 DEF SearchStep, Narrowed
<1>2. CASE s.low < s.high
  <2>1. mid \in s.low..s.high - 1 /\ mid + 1 \in DOMAIN list
    BY <1>2 DEF Narrowed
  <2>2. \A i, j \in DOMAIN list : i < j => list[i] < list[j]
    BY IncreasingPairs
  <2>3. \A i \in DOMAIN list : list[i] \in Int
    OBVIOUS
  <2>4. s.low \in 0..Len(list) /\ s.high \in 0..Len(list) /\ s = [low |-> s.low, high |-> s.high]
    BY DEF Narrowed
  <2> HIDE DEF mid
  <2>5. CASE list[mid + 1] < h
    <3>1. SearchStep(list, h, s) = [low |-> mid + 1, high |-> s.high]
      BY <1>2, <2>4, <2>5 DEF SearchStep, mid
    <3>2. \A i \in 1..mid + 1 : list[i] < h
      <4> SUFFICES ASSUME NEW i \in 1..mid, i + 0 < mid + 1 PROVE list[i] < h
        BY <2>1, <2>5
      <4>1. i \in DOMAIN list /\ list[i] < list[mid + 1]
        BY <2>1, <2>2
      <4> QED BY <4>1, <2>1, <2>3, <2>5
    <3>3. \A i \in s.high + 1..Len(list) : list[i] >= h
      BY DEF Narrowed
    <3>4. [low |-> mid + 1, high |-> s.high] \in Narrowed(list, h)
      BY <2>1, <2>4, <3>2, <3>3 DEF Narrowed
    <3> QED BY <1>2, <2>1, <2>4, <3>1, <3>4
  <2>6. CASE ~(list[mid + 1] < h)
    <3>1. SearchStep(list, h, s) = [low |-> s.low, high |-> mid]
      BY <1>2, <2>4, <2>6 DEF SearchStep, mid
    <3>2. \A i \in mid + 1..Len(list) : list[i] >= h
      <4> SUFFICES ASSUME NEW i \in mid + 1..Len(list) PROVE list[i] >= h
        OBVIOUS
      <4>1. list[mid + 1] >= h /\ i \in DOMAIN list
        BY <2>1, <2>3, <2>6
      <4>2. i = mid + 1 \/ list[i] > list[mid + 1]
        BY <2>1, <2>2, <4>1
      <4> QED BY <4>1, <4>2, <2>1, <2>3
    <3>3. \A i \in 1..s.low : list[i] < h
      BY DEF Narrowed
    <3>4. [low |-> s.low, high |-> mid] \in Narrowed(list, h)
      BY <2>1, <2>4, <3>2, <3>3 DEF Narrowed
    <3> QED BY <1>2, <2>1, <2>4, <3>1, <3>4
  <2> QED BY <2>5, <2>6, <1>2
<1> QED BY <1>1, <1>2 DEF Narrowed

LEMMA SearchRounds ==
  ASSUME NEW list \in Seq(Int), StrictlyIncreasing(list), NEW h \in Int
  PROVE  \E f \in [Nat -> Narrowed(list, h)] :
           /\ f[0] = [low |-> 0, high |-> Len(list)]
           /\ \A k \in Nat : f[k + 1] = SearchStep(list, h, f[k])
           /\ Search(list, h) = f[Len(list)].low
<1> DEFINE S == Narrowed(list, h)
           start == [low |-> 0, high |-> Len(list)]
           body == [s \in S |-> SearchStep(list, h, s)]
           P(g) == g = [k \in Nat |-> IF k = 0 THEN start ELSE SearchStep(list, h, g[k - 1])]
           g == CHOOSE x : P(x)
           T == {n \in Nat : g[n] \in S}
<1>1. start \in S
  BY DEF Narrowed
<1>2. \A s \in S : SearchStep(list, h, s) \in S
  BY Narrows
<1>3. \E f \in [Nat -> S] : Rounds(f, start, body)
  <2>1. body \in [S -> S]
    BY <1>2
  <2> HIDE DEF S, start, body, P, g, T
  <2> QED BY <1>1, <2>1, RoundsExist, Zenon
<1>4. PICK f \in [Nat -> S] : f[0] = start /\ \A k \in Nat : f[k + 1] = SearchStep(list, h, f[k])
  BY <1>3 DEF Rounds
<1>5. P(f)
  <2>1. \A k \in Nat : f[k] = IF k = 0 THEN start ELSE SearchStep(list, h, f[k - 1])
    BY <1>4
  <2> QED BY <2>1
<1>6. P(g)
  BY <1>5
<1>7. Search(list, h) = g[Len(list)].low
  BY DEF Search, Repeated
<1> HIDE DEF g
<1>8. g[0] = start /\ \A k \in Nat : g[k + 1] = SearchStep(list, h, g[k])
  BY <1>6
<1>9. \A n \in Nat : n \in T
  <2> HIDE DEF S, start
  <2>1. 0 \in T
    BY <1>1, <1>8
  <2>2. ASSUME NEW n \in Nat, n \in T PROVE n + 1 \in T
    <3>1. g[n] \in S /\ g[n + 1] = SearchStep(list, h, g[n])
      BY <1>8, <2>2
    <3>2. g[n + 1] \in S
      BY <1>2, <3>1
    <3> QED BY <3>2
  <2> HIDE DEF T
  <2> QED BY <2>1, <2>2, Induction
<1>10. g \in [Nat -> S]
  BY <1>6, <1>9
<1> QED BY <1>7, <1>8, <1>10

\* A binary search finds what is in a sorted list, and nothing else, whatever the
\* length of the list (Matches).
THEOREM SearchFinds ==
  \A list \in Seq(Int) : StrictlyIncreasing(list) => \A h \in Int : SearchCorrect(list, h)
<1> SUFFICES ASSUME NEW list \in Seq(Int), StrictlyIncreasing(list), NEW h \in Int
             PROVE  SearchCorrect(list, h)
  OBVIOUS
<1>1. PICK f \in [Nat -> Narrowed(list, h)] :
        /\ f[0] = [low |-> 0, high |-> Len(list)]
        /\ \A k \in Nat : f[k + 1] = SearchStep(list, h, f[k])
        /\ Search(list, h) = f[Len(list)].low
  BY SearchRounds
<1> DEFINE gap == [n \in Nat |-> f[n].high - f[n].low]
           T == {n \in Nat : gap[n] = 0 \/ gap[n] <= Len(list) - n}
<1>2. /\ gap \in [Nat -> Nat] /\ gap[0] = Len(list)
      /\ \A n \in Nat : gap[n] = 0 => f[n].low = f[n].high
  <2>1. ASSUME NEW n \in Nat
        PROVE  f[n].high \in Nat /\ f[n].low \in Nat /\ f[n].low <= f[n].high
    <3>1. f[n] \in Narrowed(list, h)
      BY <1>1
    <3> QED BY <3>1 DEF Narrowed
  <2>2. \A n \in Nat : /\ f[n].high - f[n].low \in Nat
                       /\ f[n].high - f[n].low = 0 => f[n].low = f[n].high
    BY <2>1
  <2>3. f[0].high - f[0].low = Len(list)
    BY <1>1
  <2> QED BY <2>2, <2>3
<1>3. \A n \in Nat : IF gap[n] = 0 THEN gap[n + 1] = 0 ELSE gap[n + 1] < gap[n]
  <2> SUFFICES ASSUME NEW n \in Nat
               PROVE  IF gap[n] = 0 THEN gap[n + 1] = 0 ELSE gap[n + 1] < gap[n]
    OBVIOUS
  <2>1. f[n] \in Narrowed(list, h) /\ f[n + 1] = SearchStep(list, h, f[n])
    BY <1>1
  <2>2. /\ f[n + 1] \in Narrowed(list, h)
        /\ f[n].low < f[n].high => f[n + 1].high - f[n + 1].low < f[n].high - f[n].low
        /\ f[n].low = f[n].high => f[n + 1] = f[n]
    BY <2>1, Narrows
  <2>3. f[n].high \in Nat /\ f[n].low \in Nat /\ f[n].low <= f[n].high
    BY <2>1 DEF Narrowed
  <2> QED BY <2>2, <2>3
<1>4. \A n \in Nat : n \in T
  <2> HIDE DEF gap
  <2>1. Len(list) \in Nat
    OBVIOUS
  <2>2. 0 \in T
    BY <1>2
  <2>3. ASSUME NEW n \in Nat, n \in T PROVE n + 1 \in T
    <3>1. gap[n] \in Nat /\ gap[n + 1] \in Nat
      BY <1>2
    <3> QED BY <1>3, <2>1, <2>3, <3>1
  <2> HIDE DEF T
  <2> QED BY <2>2, <2>3, Induction
<1> DEFINE i == Search(list, h)
<1>5. /\ i \in 0..Len(list)
      /\ \A j \in 1..i : list[j] < h
      /\ \A j \in i + 1..Len(list) : list[j] >= h
  <2>1. Len(list) \in Nat /\ Len(list) \in T /\ f[Len(list)] \in Narrowed(list, h)
    BY <1>4
  <2>2. f[Len(list)].low = f[Len(list)].high
    <3> HIDE DEF gap
    <3> QED BY <1>2, <2>1
  <2> QED BY <1>1, <2>1, <2>2 DEF Narrowed
<1> HIDE DEF i
<1>6. \A j \in DOMAIN list : list[j] \in Int
  OBVIOUS
<1>7. ASSUME h \in ToSet(list) PROVE i < Len(list) /\ list[i + 1] = h
  <2>1. PICK j \in DOMAIN list : list[j] = h
    BY <1>7 DEF ToSet
  <2>2. j \in i + 1..Len(list) /\ i < Len(list) /\ i + 1 \in DOMAIN list
    BY <1>5, <1>6, <2>1
  <2>3. list[i + 1] >= h
    BY <1>5, <2>2
  <2>4. j = i + 1 \/ list[i + 1] < list[j]
    BY <1>5, <2>2, IncreasingPairs
  <2> QED BY <1>6, <2>1, <2>2, <2>3, <2>4
<1>8. ASSUME i < Len(list), list[i + 1] = h PROVE h \in ToSet(list)
  BY <1>5, <1>8 DEF ToSet
<1>9. Matches(list, h) <=> i < Len(list) /\ list[i + 1] = h
  BY DEF Matches, i
<1> QED BY <1>7, <1>8, <1>9 DEF SearchCorrect

----
(* The merge of a partial update *)

\* The first n of a sequence, as a set.
FirstOf(s, n) == {s[x] : x \in 1..n}

\* What the removals leave of the first n of a list.
Left(base, removals, n) ==
  {base[x] : x \in {x \in 1..n : \A y \in DOMAIN removals : removals[y] # x - 1}}

LEMMA FirstNext ==
  ASSUME NEW s \in Seq(Int), NEW n \in Nat, n < Len(s)
  PROVE  /\ n + 1 \in DOMAIN s /\ FirstOf(s, n + 1) = FirstOf(s, n) \cup {s[n + 1]}
         /\ FirstOf(s, n) \subseteq Int
<1>1. n + 1 \in DOMAIN s /\ 1..n + 1 = 1..n \cup {n + 1} /\ 1..n \subseteq DOMAIN s
  OBVIOUS
<1>2. \A x \in DOMAIN s : s[x] \in Int
  OBVIOUS
<1> QED BY <1>1, <1>2 DEF FirstOf

LEMMA AllFirst ==
  ASSUME NEW s \in Seq(Int)
  PROVE  FirstOf(s, Len(s)) = ToSet(s) /\ FirstOf(s, 0) = {}
BY DEF FirstOf, ToSet

LEMMA LeftNext ==
  ASSUME NEW base \in Seq(Int), NEW removals \in Seq(Nat), NEW n \in Nat, n < Len(base)
  PROVE  /\ (\A y \in DOMAIN removals : removals[y] # n) =>
              Left(base, removals, n + 1) = Left(base, removals, n) \cup {base[n + 1]}
         /\ (\E y \in DOMAIN removals : removals[y] = n) =>
              Left(base, removals, n + 1) = Left(base, removals, n)
<1>1. 1..n + 1 = 1..n \cup {n + 1} /\ (n + 1) - 1 = n
  OBVIOUS
<1> DEFINE K(m) == {x \in 1..m : \A y \in DOMAIN removals : removals[y] # x - 1}
<1>2. (\A y \in DOMAIN removals : removals[y] # n) => K(n + 1) = K(n) \cup {n + 1}
  BY <1>1
<1>3. (\E y \in DOMAIN removals : removals[y] = n) => K(n + 1) = K(n)
  BY <1>1
<1>4. \A m : Left(base, removals, m) = {base[x] : x \in K(m)}
  BY DEF Left
<1> HIDE DEF K
<1>5. {base[x] : x \in K(n) \cup {n + 1}} = {base[x] : x \in K(n)} \cup {base[n + 1]}
  OBVIOUS
<1>6. /\ Left(base, removals, n) = {base[x] : x \in K(n)}
      /\ Left(base, removals, n + 1) = {base[x] : x \in K(n + 1)}
  BY <1>4
<1> QED BY <1>2, <1>3, <1>5, <1>6

LEMMA LeftIsFirst ==
  ASSUME NEW base \in Seq(Int), NEW removals, NEW n \in 0..Len(base)
  PROVE  /\ Left(base, removals, n) \subseteq FirstOf(base, n)
         /\ Left(base, removals, n) \subseteq Left(base, removals, Len(base))
<1>1. 1..n \subseteq 1..Len(base)
  OBVIOUS
<1> QED BY <1>1 DEF Left, FirstOf

\* The first n of a sorted list are n.
LEMMA FirstCounted ==
  ASSUME NEW s \in Seq(Int), StrictlyIncreasing(s)
  PROVE  \A n \in 0..Len(s) : /\ IsFiniteSet(FirstOf(s, n))
                              /\ Cardinality(FirstOf(s, n)) = n
<1> DEFINE T == {n \in Nat : n <= Len(s) => /\ IsFiniteSet(FirstOf(s, n))
                                            /\ Cardinality(FirstOf(s, n)) = n}
<1>1. 0 \in T
  BY AllFirst, FS_EmptySet
<1>2. ASSUME NEW n \in Nat, n \in T PROVE n + 1 \in T
  <2> SUFFICES ASSUME n + 1 <= Len(s)
               PROVE  /\ IsFiniteSet(FirstOf(s, n + 1)) /\ Cardinality(FirstOf(s, n + 1)) = n + 1
    OBVIOUS
  <2>1. n < Len(s) /\ n <= Len(s)
    OBVIOUS
  <2>2. FirstOf(s, n + 1) = FirstOf(s, n) \cup {s[n + 1]}
    BY <2>1, FirstNext
  <2>3. s[n + 1] \notin FirstOf(s, n)
    <3>1. \A x \in 1..n : x \in DOMAIN s /\ n + 1 \in DOMAIN s /\ x < n + 1
      BY <2>1
    <3>2. \A x \in 1..n : s[x] < s[n + 1]
      BY <3>1, IncreasingPairs
    <3>3. \A x \in 1..n : s[x] \in Int /\ s[n + 1] \in Int
      BY <3>1
    <3> QED BY <3>2, <3>3 DEF FirstOf
  <2>4. IsFiniteSet(FirstOf(s, n)) /\ Cardinality(FirstOf(s, n)) = n
    BY <1>2, <2>1
  <2>5. /\ IsFiniteSet(FirstOf(s, n) \cup {s[n + 1]})
        /\ Cardinality(FirstOf(s, n) \cup {s[n + 1]}) = Cardinality(FirstOf(s, n)) + 1
    BY <2>3, <2>4, FS_AddElement
  <2> QED BY <2>2, <2>4, <2>5
<1>3. \A n \in Nat : n \in T
  <2> HIDE DEF T
  <2> QED BY <1>1, <1>2, Induction
<1> QED BY <1>3

\* An index into a sorted list counts the entries below.
LEMMA IndexInSorted ==
  ASSUME NEW s \in Seq(Int), StrictlyIncreasing(s), NEW x \in DOMAIN s
  PROVE  IndexIn(ToSet(s), s[x]) = x - 1
<1>1. \A i, j \in DOMAIN s : i < j => s[i] < s[j]
  BY IncreasingPairs
<1>2. \A i \in DOMAIN s : s[i] \in Int
  OBVIOUS
<1>3. \A i \in DOMAIN s : s[i] < s[x] <=> i < x
  <2>1. \A i \in DOMAIN s : i < x \/ i = x \/ x < i
    OBVIOUS
  <2> QED BY <1>1, <1>2, <2>1
<1>4. 1..x - 1 = {i \in DOMAIN s : i < x}
  OBVIOUS
<1>5. {y \in ToSet(s) : y < s[x]} = FirstOf(s, x - 1)
  BY <1>3, <1>4 DEF FirstOf, ToSet
<1>6. x - 1 \in 0..Len(s)
  OBVIOUS
<1> QED BY <1>5, <1>6, FirstCounted DEF IndexIn

LEMMA LeftSurvives ==
  ASSUME NEW base \in Seq(Int), StrictlyIncreasing(base), NEW removals \in Seq(Nat)
  PROVE  Left(base, removals, Len(base)) = Survivors(ToSet(base), removals)
<1>1. \A x \in DOMAIN base : IndexIn(ToSet(base), base[x]) = x - 1
  BY IndexInSorted
<1>2. DOMAIN base = 1..Len(base)
  OBVIOUS
<1> QED BY <1>1, <1>2 DEF Left, Survivors, ToSet

LEMMA AppendLarger ==
  ASSUME NEW s \in Seq(Int), StrictlyIncreasing(s), NEW a \in Int, \A x \in ToSet(s) : x < a
  PROVE  /\ Append(s, a) \in Seq(Int) /\ StrictlyIncreasing(Append(s, a))
         /\ ToSet(Append(s, a)) = ToSet(s) \cup {a}
<1> DEFINE t == Append(s, a)
<1>1. /\ t \in Seq(Int) /\ Len(t) = Len(s) + 1 /\ t[Len(s) + 1] = a
      /\ \A i \in 1..Len(s) : t[i] = s[i]
  OBVIOUS
<1>2. DOMAIN s = 1..Len(s) /\ Len(s) \in Nat /\ DOMAIN t = 1..Len(s) \cup {Len(s) + 1}
  BY <1>1
<1> HIDE DEF t
<1>3. ToSet(t) = ToSet(s) \cup {a}
  BY <1>1, <1>2 DEF ToSet
<1>4. StrictlyIncreasing(t)
  <2> SUFFICES ASSUME NEW i \in 2..Len(t) PROVE t[i - 1] < t[i]
    BY DEF StrictlyIncreasing
  <2>1. CASE i <= Len(s)
    <3>1. i - 1 \in 1..Len(s) /\ i \in 1..Len(s) /\ i \in 2..Len(s)
      BY <1>2, <2>1
    <3>2. s[i - 1] < s[i]
      BY <3>1 DEF StrictlyIncreasing
    <3> QED BY <1>1, <3>1, <3>2
  <2>2. CASE i = Len(s) + 1
    <3>1. i - 1 \in 1..Len(s)
      BY <1>2, <2>2
    <3>2. t[i - 1] \in ToSet(s) /\ t[i] = a
      BY <1>1, <1>2, <2>2, <3>1 DEF ToSet
    <3> QED BY <3>2
  <2> QED BY <1>1, <1>2, <2>1, <2>2
<1> QED BY <1>1, <1>3, <1>4 DEF t

\* What is built is what the removals leave of the part of the base that is done
\* and the part of the additions that is done, in order, and all of it is below
\* what is still to come.
HalfMerged(base, additions, removals) ==
  {s \in [i : 0..Len(base), j : 0..Len(additions), r : 0..Len(removals),
          out : Seq(Int), duplicate : BOOLEAN] :
     /\ \A y \in 1..s.r : removals[y] < s.i
     /\ \A y \in s.r + 1..Len(removals) : removals[y] >= s.i
     /\ StrictlyIncreasing(s.out)
     /\ ToSet(s.out) = Left(base, removals, s.i) \cup FirstOf(additions, s.j)
     /\ s.i < Len(base) => \A x \in ToSet(s.out) : x < base[s.i + 1]
     /\ s.j < Len(additions) => \A x \in ToSet(s.out) : x < additions[s.j + 1]
     /\ Left(base, removals, s.i) \cap FirstOf(additions, s.j) = {}
     /\ s.duplicate => Left(base, removals, Len(base)) \cap ToSet(additions) # {}}

\* The rounds that a merge still needs.
ToMerge(base, additions, s) ==
  IF s.duplicate THEN 0 ELSE (Len(base) - s.i) + (Len(additions) - s.j)

LEMMA NotRemoved ==
  ASSUME NEW base, NEW additions, NEW removals \in Seq(Nat), StrictlyIncreasing(removals),
         NEW s \in HalfMerged(base, additions, removals), ~Removed(removals, s)
  PROVE  \A y \in DOMAIN removals : removals[y] # s.i
<1> SUFFICES ASSUME NEW y \in DOMAIN removals, removals[y] = s.i PROVE FALSE
  OBVIOUS
<1>1. PICK r \in 0..Len(removals) : r = s.r
  BY DEF HalfMerged
<1>2. /\ \A z \in 1..r : removals[z] < s.i
      /\ \A z \in r + 1..Len(removals) : removals[z] >= s.i
  BY <1>1 DEF HalfMerged
<1>3. DOMAIN removals = 1..Len(removals) /\ \A z \in DOMAIN removals : removals[z] \in Nat
  OBVIOUS
<1>4. y \notin 1..r
  BY <1>2, <1>3
<1>5. r < Len(removals) /\ r + 1 \in DOMAIN removals /\ y >= r + 1
  BY <1>3, <1>4
<1>6. removals[r + 1] # s.i
  BY <1>1, <1>5 DEF Removed
<1>7. removals \in Seq(Int) /\ r + 1 < y /\ r + 1 \in r + 1..Len(removals)
  BY <1>3, <1>5, <1>6
<1>8. removals[r + 1] < removals[y]
  BY <1>5, <1>7, IncreasingPairs
<1>9. removals[r + 1] >= s.i
  BY <1>2, <1>7
<1> QED BY <1>3, <1>5, <1>8, <1>9

LEMMA MergesOn ==
  ASSUME NEW base \in Seq(Int), StrictlyIncreasing(base),
         NEW additions \in Seq(Int), StrictlyIncreasing(additions),
         NEW removals \in Seq(Nat), StrictlyIncreasing(removals),
         NEW s \in HalfMerged(base, additions, removals)
  PROVE  LET t == MergeStep(base, additions, removals, s)
         IN /\ t \in HalfMerged(base, additions, removals)
            /\ IF ToMerge(base, additions, s) = 0 THEN ToMerge(base, additions, t) = 0
               ELSE ToMerge(base, additions, t) < ToMerge(base, additions, s)
<1>1. PICK i \in 0..Len(base), j \in 0..Len(additions), r \in 0..Len(removals),
           out \in Seq(Int), dup \in BOOLEAN :
        s = [i |-> i, j |-> j, r |-> r, out |-> out, duplicate |-> dup]
  <2>1. s = [i |-> s.i, j |-> s.j, r |-> s.r, out |-> s.out, duplicate |-> s.duplicate]
    BY DEF HalfMerged
  <2> QED BY <2>1 DEF HalfMerged
<1> DEFINE more == i < Len(base)
           a == base[i + 1]
           b == additions[j + 1]
           t == MergeStep(base, additions, removals, s)
           left == (Len(base) - i) + (Len(additions) - j)
           G == /\ t \in HalfMerged(base, additions, removals)
                /\ IF ToMerge(base, additions, s) = 0 THEN ToMerge(base, additions, t) = 0
                   ELSE ToMerge(base, additions, t) < ToMerge(base, additions, s)
<1> SUFFICES G
  OBVIOUS
<1>0. ToMerge(base, additions, s) = IF dup THEN 0 ELSE left
  BY <1>1 DEF ToMerge
<1>2. /\ \A y \in 1..r : removals[y] < i
      /\ \A y \in r + 1..Len(removals) : removals[y] >= i
      /\ StrictlyIncreasing(out)
      /\ ToSet(out) = Left(base, removals, i) \cup FirstOf(additions, j)
      /\ i < Len(base) => \A x \in ToSet(out) : x < base[i + 1]
      /\ j < Len(additions) => \A x \in ToSet(out) : x < additions[j + 1]
      /\ Left(base, removals, i) \cap FirstOf(additions, j) = {}
      /\ dup => Left(base, removals, Len(base)) \cap ToSet(additions) # {}
  BY <1>1 DEF HalfMerged
<1>3. /\ \A x, y \in DOMAIN base : x < y => base[x] < base[y]
      /\ \A x, y \in DOMAIN additions : x < y => additions[x] < additions[y]
  BY IncreasingPairs
<1>4. ToSet(out) \subseteq Int
  BY DEF ToSet
<1>5. Len(base) \in Nat /\ Len(additions) \in Nat /\ Len(removals) \in Nat
  OBVIOUS
<1>6. more => i + 1 \in DOMAIN base /\ a \in Int
  BY <1>1
<1>7. j < Len(additions) => j + 1 \in DOMAIN additions /\ b \in Int
  BY <1>1
<1>8. i + 1 < Len(base) => a < base[i + 2] /\ base[i + 2] \in Int
  <2> SUFFICES ASSUME i + 1 < Len(base) PROVE a < base[i + 2] /\ base[i + 2] \in Int
    OBVIOUS
  <2>1. i + 1 \in DOMAIN base /\ i + 2 \in DOMAIN base /\ i + 1 < i + 2
    BY <1>1, <1>5
  <2> QED BY <2>1, <1>3
<1>9. j + 1 < Len(additions) => b < additions[j + 2] /\ additions[j + 2] \in Int
  <2> SUFFICES ASSUME j + 1 < Len(additions)
               PROVE  b < additions[j + 2] /\ additions[j + 2] \in Int
    OBVIOUS
  <2>1. j + 1 \in DOMAIN additions /\ j + 2 \in DOMAIN additions /\ j + 1 < j + 2
    BY <1>1, <1>5
  <2> QED BY <2>1, <1>3
<1> HIDE DEF G
<1>10. CASE dup \/ (~more /\ j = Len(additions))
  <2>1. t = s
    BY <1>1, <1>10 DEF MergeStep
  <2>2. ToMerge(base, additions, s) = 0
    BY <1>0, <1>5, <1>10 DEF ToMerge
  <2> HIDE DEF t
  <2> QED BY <2>1, <2>2 DEF G
<1>11. CASE ~dup /\ more /\ Removed(removals, s)
  <2> DEFINE u == [i |-> i + 1, j |-> j, r |-> r + 1, out |-> out, duplicate |-> dup]
  <2>1. t = u
    BY <1>1, <1>11 DEF MergeStep
  <2>2. r < Len(removals) /\ i = removals[r + 1]
    BY <1>1, <1>11 DEF Removed
  <2>3. r + 1 \in DOMAIN removals /\ \A y \in DOMAIN removals : removals[y] \in Nat
    BY <1>1, <2>2
  <2>4. Left(base, removals, i + 1) = Left(base, removals, i)
    BY <1>1, <1>11, <2>2, <2>3, LeftNext
  <2>5. \A y \in 1..r + 1 : removals[y] < i + 1
    <3> SUFFICES ASSUME NEW y \in 1..r + 1 PROVE removals[y] < i + 1
      OBVIOUS
    <3>1. CASE y = r + 1
      BY <2>2, <3>1
    <3>2. CASE y \in 1..r
      <4>1. removals[y] \in Nat /\ removals[y] < i
        BY SMTT(30), <1>2, <1>5, <2>3, <3>2
      <4> QED BY <4>1
    <3> QED BY <3>1, <3>2
  <2>6. \A y \in r + 2..Len(removals) : removals[y] >= i + 1
    <3>1. removals \in Seq(Int)
      OBVIOUS
    <3>2. \A y \in r + 2..Len(removals) : y \in DOMAIN removals /\ r + 1 < y
      BY <1>1, <1>5
    <3>3. \A y \in r + 2..Len(removals) : removals[r + 1] < removals[y]
      BY <2>3, <3>1, <3>2, IncreasingPairs
    <3> QED BY SMTT(30), <1>1, <2>2, <2>3, <3>2, <3>3
  <2>7. i + 1 < Len(base) => \A x \in ToSet(out) : x < base[i + 2]
    BY <1>1, <1>2, <1>4, <1>5, <1>6, <1>8, <1>11
  <2>8. u \in HalfMerged(base, additions, removals)
    <3>1. /\ i + 1 \in 0..Len(base) /\ r + 1 \in 0..Len(removals)
          /\ (i + 1) + 1 = i + 2 /\ (r + 1) + 1 = r + 2
      BY SMTT(30), <1>5, <1>11, <2>2
    <3> QED BY <1>1, <1>2, <2>4, <2>5, <2>6, <2>7, <3>1 DEF HalfMerged
  <2>9. /\ ToMerge(base, additions, u) < ToMerge(base, additions, s)
        /\ ToMerge(base, additions, s) # 0
    BY <1>0, <1>5, <1>11 DEF ToMerge
  <2> HIDE DEF t, u
  <2> QED BY <2>1, <2>8, <2>9 DEF G
<1>12. CASE ~dup /\ more /\ ~Removed(removals, s) /\ (j = Len(additions) \/ a < b)
  <2> DEFINE u == [i |-> i + 1, j |-> j, r |-> r, out |-> Append(out, a),
                   duplicate |-> dup]
  <2>1. t = u
    BY <1>1, <1>12 DEF MergeStep
  <2>2. \A y \in DOMAIN removals : removals[y] # i
    BY <1>1, <1>12, NotRemoved
  <2>3. Left(base, removals, i + 1) = Left(base, removals, i) \cup {a}
    <3>1. i \in Nat /\ i < Len(base)
      BY <1>12
    <3> QED BY <2>2, <3>1, LeftNext
  <2>4. \A x \in ToSet(out) : x < a
    BY <1>2, <1>12
  <2>5. /\ Append(out, a) \in Seq(Int) /\ StrictlyIncreasing(Append(out, a))
        /\ ToSet(Append(out, a)) = ToSet(out) \cup {a}
    BY <1>1, <1>2, <1>6, <1>12, <2>4, AppendLarger
  <2>6. \A y \in 1..r : removals[y] < i + 1
    <3>1. \A y \in 1..r : removals[y] \in Nat /\ removals[y] < i
      BY <1>1, <1>2, <1>5
    <3> QED BY <1>1, <3>1
  <2>7. \A y \in r + 1..Len(removals) : removals[y] >= i + 1
    <3> SUFFICES ASSUME NEW y \in r + 1..Len(removals) PROVE removals[y] >= i + 1
      OBVIOUS
    <3>1. y \in DOMAIN removals /\ removals[y] \in Nat /\ removals[y] >= i
      BY <1>2, <1>5
    <3>2. removals[y] # i
      BY <2>2, <3>1
    <3> QED BY <3>1, <3>2
  <2>8. i + 1 < Len(base) => \A x \in ToSet(out) \cup {a} : x < base[i + 2]
    BY <1>1, <1>2, <1>4, <1>5, <1>6, <1>8, <1>12
  <2>9. j < Len(additions) => \A x \in ToSet(out) \cup {a} : x < b
    BY <1>1, <1>2, <1>5, <1>12
  <2>10. a \notin FirstOf(additions, j)
    <3>1. FirstOf(additions, j) \subseteq ToSet(out)
      BY <1>2
    <3>2. a \notin ToSet(out)
      BY <1>4, <1>6, <1>12, <2>4
    <3> QED BY <3>1, <3>2
  <2>11. u \in HalfMerged(base, additions, removals)
    <3> DEFINE o == Append(out, a)
    <3>1. i + 1 \in 0..Len(base) /\ (i + 1) + 1 = i + 2
      BY <1>5, <1>12
    <3>2. /\ o \in Seq(Int) /\ StrictlyIncreasing(o)
          /\ ToSet(o) = Left(base, removals, i + 1) \cup FirstOf(additions, j)
      BY <1>2, <2>3, <2>5
    <3>3. Left(base, removals, i + 1) \cap FirstOf(additions, j) = {}
      BY <1>2, <2>3, <2>10
    <3>4. /\ i + 1 < Len(base) => \A x \in ToSet(o) : x < base[(i + 1) + 1]
          /\ j < Len(additions) => \A x \in ToSet(o) : x < additions[j + 1]
      BY <2>5, <2>8, <2>9, <3>1
    <3> HIDE DEF o
    <3>5. [i |-> i + 1, j |-> j, r |-> r, out |-> o, duplicate |-> dup]
            \in HalfMerged(base, additions, removals)
      BY <1>2, <2>6, <2>7, <3>1, <3>2, <3>3, <3>4 DEF HalfMerged
    <3> QED BY <3>5 DEF o
  <2>12. /\ ToMerge(base, additions, u) < ToMerge(base, additions, s)
         /\ ToMerge(base, additions, s) # 0
    BY <1>0, <1>5, <1>12 DEF ToMerge
  <2> HIDE DEF t, u
  <2> QED BY <2>1, <2>11, <2>12 DEF G
<1>13. CASE ~dup /\ j < Len(additions) /\ (~more \/ (~Removed(removals, s) /\ b < a))
  <2> DEFINE u == [i |-> i, j |-> j + 1, r |-> r, out |-> Append(out, b),
                   duplicate |-> dup]
  <2>1. t = u
    <3>1. j # Len(additions) /\ (more => ~Removed(removals, s) /\ ~(a < b))
      BY <1>1, <1>5, <1>6, <1>7, <1>13
    <3> QED BY <1>1, <1>13, <3>1 DEF MergeStep
  <2>2. FirstOf(additions, j + 1) = FirstOf(additions, j) \cup {b}
    BY <1>1, <1>13, FirstNext
  <2>3. \A x \in ToSet(out) : x < b
    BY <1>2, <1>13
  <2>4. /\ Append(out, b) \in Seq(Int) /\ StrictlyIncreasing(Append(out, b))
        /\ ToSet(Append(out, b)) = ToSet(out) \cup {b}
    BY <1>1, <1>2, <1>7, <1>13, <2>3, AppendLarger
  <2>5. j + 1 < Len(additions) => \A x \in ToSet(out) \cup {b} : x < additions[j + 2]
    BY <1>1, <1>2, <1>4, <1>5, <1>7, <1>9, <1>13
  <2>6. i < Len(base) => \A x \in ToSet(out) \cup {b} : x < a
    BY <1>1, <1>2, <1>5, <1>13
  <2>7. b \notin Left(base, removals, i)
    <3>1. Left(base, removals, i) \subseteq ToSet(out)
      BY <1>2
    <3>2. b \notin ToSet(out)
      BY <1>4, <1>7, <1>13, <2>3
    <3> QED BY <3>1, <3>2
  <2>8. u \in HalfMerged(base, additions, removals)
    <3> DEFINE o == Append(out, b)
    <3>1. j + 1 \in 0..Len(additions) /\ (j + 1) + 1 = j + 2
      BY <1>5, <1>13
    <3>2. /\ o \in Seq(Int) /\ StrictlyIncreasing(o)
          /\ ToSet(o) = Left(base, removals, i) \cup FirstOf(additions, j + 1)
      BY <1>2, <2>2, <2>4
    <3>3. Left(base, removals, i) \cap FirstOf(additions, j + 1) = {}
      BY <1>2, <2>2, <2>7
    <3>4. /\ i < Len(base) => \A x \in ToSet(o) : x < base[i + 1]
          /\ j + 1 < Len(additions) => \A x \in ToSet(o) : x < additions[(j + 1) + 1]
      BY <2>4, <2>5, <2>6, <3>1
    <3> HIDE DEF o
    <3>5. [i |-> i, j |-> j + 1, r |-> r, out |-> o, duplicate |-> dup]
            \in HalfMerged(base, additions, removals)
      BY <1>2, <3>1, <3>2, <3>3, <3>4 DEF HalfMerged
    <3> QED BY <3>5 DEF o
  <2>9. /\ ToMerge(base, additions, u) < ToMerge(base, additions, s)
        /\ ToMerge(base, additions, s) # 0
    BY <1>0, <1>5, <1>13 DEF ToMerge
  <2> HIDE DEF t, u
  <2> QED BY <2>1, <2>8, <2>9 DEF G
<1>14. CASE ~dup /\ more /\ j < Len(additions) /\ ~Removed(removals, s) /\ a = b
  <2> DEFINE u == [i |-> i, j |-> j, r |-> r, out |-> out, duplicate |-> TRUE]
  <2>1. t = u
    <3>1. j # Len(additions) /\ ~(a < b) /\ ~(b < a)
      BY <1>1, <1>5, <1>6, <1>14
    <3> QED BY <1>1, <1>14, <3>1 DEF MergeStep
  <2>2. a \in Left(base, removals, i + 1)
    <3>1. \A y \in DOMAIN removals : removals[y] # i
      BY <1>1, <1>14, NotRemoved
    <3>2. i \in Nat /\ i < Len(base)
      BY <1>14
    <3>3. Left(base, removals, i + 1) = Left(base, removals, i) \cup {a}
      BY <3>1, <3>2, LeftNext
    <3> QED BY <3>3
  <2>3. i + 1 \in 0..Len(base)
    BY <1>1, <1>5, <1>14
  <2>4. a \in Left(base, removals, Len(base))
    BY <2>2, <2>3, LeftIsFirst
  <2>5. a \in ToSet(additions)
    BY <1>7, <1>14 DEF ToSet
  <2>6. u \in HalfMerged(base, additions, removals)
    BY <1>1, <1>2, <2>4, <2>5 DEF HalfMerged
  <2>7. ToMerge(base, additions, u) = 0 /\ ToMerge(base, additions, s) \in Nat
        /\ ToMerge(base, additions, s) # 0
    BY SMTT(30), <1>0, <1>5, <1>14 DEF ToMerge
  <2> HIDE DEF t, u
  <2> QED BY <2>1, <2>6, <2>7 DEF G
<1>15. j = Len(additions) \/ j < Len(additions)
  BY <1>5
<1>16. more /\ j < Len(additions) => a < b \/ b < a \/ a = b
  BY <1>6, <1>7
<1> HIDE DEF a, b, t
<1> QED BY <1>10, <1>11, <1>12, <1>13, <1>14, <1>15, <1>16

LEMMA MergeRounds ==
  ASSUME NEW base \in Seq(Int), StrictlyIncreasing(base),
         NEW additions \in Seq(Int), StrictlyIncreasing(additions),
         NEW removals \in Seq(Nat), StrictlyIncreasing(removals)
  PROVE  \E f \in [Nat -> HalfMerged(base, additions, removals)] :
           /\ f[0] = MergeStart
           /\ \A k \in Nat : f[k + 1] = MergeStep(base, additions, removals, f[k])
           /\ Merge(base, additions, removals) = f[Len(base) + Len(additions)]
<1> DEFINE S == HalfMerged(base, additions, removals)
           Step(s) == MergeStep(base, additions, removals, s)
           body == [s \in S |-> Step(s)]
           P(g) == g = [k \in Nat |-> IF k = 0 THEN MergeStart ELSE Step(g[k - 1])]
           g == CHOOSE x : P(x)
           T == {n \in Nat : g[n] \in S}
<1>1. MergeStart \in S
  <2>1. /\ Left(base, removals, 0) = {} /\ FirstOf(additions, 0) = {} /\ ToSet(<< >>) = {}
        /\ StrictlyIncreasing(<< >>)
    BY DEF Left, FirstOf, ToSet, StrictlyIncreasing
  <2>2. \A y \in 0 + 1..Len(removals) : removals[y] >= 0
    OBVIOUS
  <2> QED BY <2>1, <2>2 DEF MergeStart, HalfMerged
<1>2. \A s \in S : Step(s) \in S
  BY MergesOn
<1> HIDE DEF S, Step
<1>3. \E f \in [Nat -> S] : Rounds(f, MergeStart, body)
  <2>1. body \in [S -> S]
    BY <1>2
  <2> HIDE DEF body, P, g, T
  <2> QED BY <1>1, <2>1, RoundsExist, Zenon
<1>4. PICK f \in [Nat -> S] : f[0] = MergeStart /\ \A k \in Nat : f[k + 1] = Step(f[k])
  BY <1>3 DEF Rounds
<1>5. P(f)
  <2>1. \A k \in Nat : f[k] = IF k = 0 THEN MergeStart ELSE Step(f[k - 1])
    BY <1>4
  <2> QED BY <2>1
<1>6. P(g)
  BY <1>5
<1>7. Merge(base, additions, removals) = g[Len(base) + Len(additions)]
  BY DEF Merge, Repeated, Step
<1> HIDE DEF g
<1>8. g[0] = MergeStart /\ \A k \in Nat : g[k + 1] = Step(g[k])
  BY <1>6
<1>9. \A n \in Nat : n \in T
  <2>1. 0 \in T
    BY <1>1, <1>8
  <2>2. ASSUME NEW n \in Nat, n \in T PROVE n + 1 \in T
    <3>1. g[n] \in S /\ g[n + 1] = Step(g[n])
      BY <1>8, <2>2
    <3>2. g[n + 1] \in S
      BY <1>2, <3>1
    <3> QED BY <3>2
  <2> HIDE DEF T
  <2> QED BY <2>1, <2>2, Induction
<1>10. g \in [Nat -> S]
  BY <1>6, <1>9
<1> QED BY <1>7, <1>8, <1>10 DEF S, Step

\* The merge of a partial update builds the sorted list of what the removals leave
\* and the additions, or finds that they overlap, whatever the lengths of the lists
\* (ApplyUpdate).
THEOREM MergesAll ==
  \A base, additions \in Seq(Int), removals \in Seq(Nat) :
    /\ StrictlyIncreasing(base) /\ StrictlyIncreasing(additions) /\ StrictlyIncreasing(removals)
    => MergeCorrect(base, additions, removals)
<1> SUFFICES ASSUME NEW base \in Seq(Int), NEW additions \in Seq(Int), NEW removals \in Seq(Nat),
                    StrictlyIncreasing(base), StrictlyIncreasing(additions),
                    StrictlyIncreasing(removals)
             PROVE  MergeCorrect(base, additions, removals)
  OBVIOUS
<1>1. PICK f \in [Nat -> HalfMerged(base, additions, removals)] :
        /\ f[0] = MergeStart
        /\ \A k \in Nat : f[k + 1] = MergeStep(base, additions, removals, f[k])
        /\ Merge(base, additions, removals) = f[Len(base) + Len(additions)]
  BY MergeRounds
<1> DEFINE size == Len(base) + Len(additions)
           todo == [n \in Nat |-> ToMerge(base, additions, f[n])]
           T == {n \in Nat : todo[n] = 0 \/ todo[n] <= size - n}
<1>2. size \in Nat /\ Len(base) \in Nat /\ Len(additions) \in Nat
  OBVIOUS
<1>3. todo \in [Nat -> Nat]
  <2>1. ASSUME NEW n \in Nat PROVE ToMerge(base, additions, f[n]) \in Nat
    <3>1. f[n].i \in 0..Len(base) /\ f[n].j \in 0..Len(additions)
      BY <1>1 DEF HalfMerged
    <3> QED BY <1>2, <3>1 DEF ToMerge
  <2> QED BY <2>1
<1>4. todo[0] = size
  <2>1. ToMerge(base, additions, MergeStart) = size
    BY <1>2 DEF ToMerge, MergeStart
  <2> QED BY <1>1, <2>1
<1>5. \A n \in Nat : IF todo[n] = 0 THEN todo[n + 1] = 0 ELSE todo[n + 1] < todo[n]
  <2> SUFFICES ASSUME NEW n \in Nat
               PROVE  IF todo[n] = 0 THEN todo[n + 1] = 0 ELSE todo[n + 1] < todo[n]
    OBVIOUS
  <2>1. /\ f[n] \in HalfMerged(base, additions, removals)
        /\ f[n + 1] = MergeStep(base, additions, removals, f[n])
    BY <1>1
  <2>2. /\ todo[n] = ToMerge(base, additions, f[n])
        /\ todo[n + 1] = ToMerge(base, additions, f[n + 1])
    OBVIOUS
  <2> HIDE DEF todo
  <2> QED BY <2>1, <2>2, MergesOn
<1>6. \A n \in Nat : n \in T
  <2> HIDE DEF size, todo
  <2>1. 0 \in T
    BY <1>2, <1>4
  <2>2. ASSUME NEW n \in Nat, n \in T PROVE n + 1 \in T
    <3>1. n + 1 \in Nat
      OBVIOUS
    <3>2. todo[n] \in Nat /\ todo[n + 1] \in Nat
      BY <1>3, <3>1
    <3> QED BY <1>2, <1>5, <2>2, <3>2
  <2> HIDE DEF T
  <2> QED BY <2>1, <2>2, Induction
<1>7. PICK merged \in HalfMerged(base, additions, removals) :
        /\ merged = Merge(base, additions, removals) /\ ToMerge(base, additions, merged) = 0
  <2>1. size \in T /\ todo[size] \in Nat
    BY <1>2, <1>3, <1>6
  <2>2. todo[size] = 0
    <3> HIDE DEF size, todo
    <3> QED BY <1>2, <2>1
  <2>3. todo[size] = ToMerge(base, additions, f[size]) /\ f[size] \in HalfMerged(base, additions, removals)
    BY <1>2
  <2> QED BY <1>1, <2>2, <2>3
<1> DEFINE left == Left(base, removals, Len(base))
<1>8. left = Survivors(ToSet(base), removals)
  BY LeftSurvives
<1>9. CASE merged.duplicate
  <2>1. left \cap ToSet(additions) # {}
    BY <1>9 DEF HalfMerged
  <2> QED BY <1>7, <1>8, <1>9, <2>1 DEF MergeCorrect
<1>10. CASE ~merged.duplicate
  <2>1. merged.i \in 0..Len(base) /\ merged.j \in 0..Len(additions)
    BY DEF HalfMerged
  <2>2. merged.i = Len(base) /\ merged.j = Len(additions)
    BY <1>2, <1>7, <1>10, <2>1 DEF ToMerge
  <2>3. /\ StrictlyIncreasing(merged.out)
        /\ ToSet(merged.out) = left \cup FirstOf(additions, Len(additions))
        /\ left \cap FirstOf(additions, Len(additions)) = {}
    BY <2>2 DEF HalfMerged
  <2> QED BY <1>7, <1>8, <1>10, <2>3, AllFirst DEF MergeCorrect
<1> QED BY <1>9, <1>10

----
(* Quotients and remainders *)

LEMMA DivMod ==
  ASSUME NEW m \in Nat \ {0}, NEW x \in Int
  PROVE  x = m * (x \div m) + (x % m) /\ x % m \in 0..m - 1 /\ x \div m \in Int
OBVIOUS

LEMMA NextMultiple ==
  ASSUME NEW m \in Nat \ {0}, NEW a \in Int, NEW b \in Int, a < b
  PROVE  m * a + m <= m * b
<1>1. m * (b - a) = m * b - m * a
  OBVIOUS
<1>2. b - a >= 1 /\ m >= 1
  OBVIOUS
<1>3. m * (b - a) >= m
  BY <1>2
<1> QED BY <1>1, <1>3

LEMMA OneQuotient ==
  ASSUME NEW m \in Nat \ {0}, NEW q \in Int, NEW r \in 0..m - 1, NEW p \in Int, NEW s \in 0..m - 1,
         m * q + r = m * p + s
  PROVE  q = p /\ r = s
<1>1. ~(q < p)
  <2> SUFFICES ASSUME q < p PROVE FALSE
    OBVIOUS
  <2>1. m * q + m <= m * p
    BY NextMultiple
  <2> QED BY <2>1
<1>2. ~(p < q)
  <2> SUFFICES ASSUME p < q PROVE FALSE
    OBVIOUS
  <2>1. m * p + m <= m * q
    BY NextMultiple
  <2> QED BY <2>1
<1>3. p = q
  BY <1>1, <1>2
<1> QED BY <1>3

LEMMA QuotientOf ==
  ASSUME NEW m \in Nat \ {0}, NEW q \in Int, NEW r \in 0..m - 1
  PROVE  (m * q + r) \div m = q /\ (m * q + r) % m = r
<1> DEFINE x == m * q + r
<1>1. x \in Int
  OBVIOUS
<1>2. x = m * (x \div m) + (x % m) /\ x % m \in 0..m - 1 /\ x \div m \in Int
  <2> HIDE DEF x
  <2> QED BY <1>1, DivMod
<1>3. x \div m = q /\ x % m = r
  BY <1>2, OneQuotient
<1> QED BY <1>3

\* The place in a table of h rows and n columns.
LEMMA RowAndColumn ==
  ASSUME NEW h \in Nat \ {0}, NEW n \in Nat \ {0}
  PROVE  /\ \A x \in 0..h * n - 1 :
              x \div n \in 0..h - 1 /\ x % n \in 0..n - 1 /\ x = n * (x \div n) + (x % n)
         /\ \A a \in 0..h - 1, b \in 0..n - 1 :
              n * a + b \in 0..h * n - 1 /\ (n * a + b) \div n = a /\ (n * a + b) % n = b
<1>1. h * n \in Nat /\ h * n = n * h
  OBVIOUS
<1>2. ASSUME NEW x \in 0..h * n - 1
      PROVE  x \div n \in 0..h - 1 /\ x % n \in 0..n - 1 /\ x = n * (x \div n) + (x % n)
  <2>1. PICK q \in Int, r \in 0..n - 1 : q = x \div n /\ r = x % n /\ x = n * q + r
    <3>1. x \in Int
      BY <1>1
    <3> QED BY <3>1, DivMod
  <2>2. ~(q < 0)
    <3> SUFFICES ASSUME q < 0 PROVE FALSE
      OBVIOUS
    <3>1. n * q + n <= n * 0
      BY NextMultiple
    <3> QED BY <1>1, <2>1, <3>1
  <2>3. ~(h - 1 < q)
    <3> SUFFICES ASSUME h - 1 < q PROVE FALSE
      OBVIOUS
    <3>1. n * (h - 1) + n <= n * q
      <4>1. h - 1 \in Int
        OBVIOUS
      <4> QED BY <4>1, NextMultiple
    <3>2. n * (h - 1) + n = n * h
      OBVIOUS
    <3>3. n * q \in Int
      OBVIOUS
    <3> QED BY <1>1, <2>1, <3>1, <3>2, <3>3
  <2> QED BY <2>1, <2>2, <2>3
<1>3. ASSUME NEW a \in 0..h - 1, NEW b \in 0..n - 1
      PROVE  n * a + b \in 0..h * n - 1 /\ (n * a + b) \div n = a /\ (n * a + b) % n = b
  <2>1. n * a \in Int /\ n * a >= 0
    OBVIOUS
  <2>2. n * a + n <= n * h
    BY NextMultiple
  <2>3. (n * a + b) \div n = a /\ (n * a + b) % n = b
    <3>1. a \in Int
      OBVIOUS
    <3> QED BY <3>1, QuotientOf
  <2>4. n * a + b \in 0..h * n - 1
    BY <1>1, <2>1, <2>2
  <2> QED BY <2>3, <2>4
<1> QED BY <1>2, <1>3

----
(* Expressions *)

Distinct(s) == \A i, j \in DOMAIN s : s[i] = s[j] => i = j

HostSizes(labels, base) ==
  {Len(labels)} \cup {m \in 1..Len(labels) : base > 0 /\ m >= base /\ m <= base + 3}

LEMMA HostsAre ==
  ASSUME NEW S, NEW labels \in Seq(S), NEW base \in 0..Len(labels)
  PROVE  LET hosts == Hosts(labels, base)
             n == Len(labels)
         IN /\ hosts \in Seq(Seq(S)) /\ Len(hosts) \in 1..5 /\ hosts[1] = labels
            /\ Distinct(hosts)
            /\ ToSet(hosts) = {SubSeq(labels, n - m + 1, n) : m \in HostSizes(labels, base)}
<1> DEFINE hosts == Hosts(labels, base)
           n == Len(labels)
           sizes == HostSizes(labels, base)
           start == AtLeast(n - base - 3, 1)
           k == IF base = 0 THEN 0 ELSE n - base - start + 1
<1>1. /\ n \in Nat /\ base \in 0..n /\ start \in Nat \ {0}
      /\ (start = 1 /\ n <= base + 4) \/ start = n - base - 3
  BY DEF AtLeast
<1>2. k \in 0..4 /\ (base # 0 => k = n - base - start + 1 /\ n - start <= base + 3)
  <2> HIDE DEF start, n
  <2> QED BY <1>1
<1>3. /\ SubSeq(labels, 1, n) = labels
      /\ \A m \in Nat : m >= 1 =>
           /\ SubSeq(labels, m, n) \in Seq(S)
           /\ Len(SubSeq(labels, m, n)) = IF m <= n THEN n - m + 1 ELSE 0
  OBVIOUS
<1> DEFINE suffixes == [m \in 1..k |-> SubSeq(labels, start + m, n)]
<1>4. suffixes \in Seq(Seq(S)) /\ Len(suffixes) = k
  <2> HIDE DEF k, start, n
  <2>1. \A m \in 1..k : start + m \in Nat /\ start + m >= 1
    BY <1>1, <1>2
  <2>2. \A m \in 1..k : SubSeq(labels, start + m, n) \in Seq(S)
    BY <1>3, <2>1
  <2>3. k \in Nat
    BY <1>2
  <2> QED BY <2>2, <2>3
<1>5. hosts = <<labels>> \o suffixes
  <2>1. base = 0 => suffixes = << >>
    BY <1>2
  <2> QED BY <2>1 DEF Hosts
<1>6. /\ hosts \in Seq(Seq(S)) /\ Len(hosts) = k + 1 /\ DOMAIN hosts = 1..k + 1
      /\ hosts[1] = labels
      /\ \A x \in 2..k + 1 : hosts[x] = SubSeq(labels, start + (x - 1), n)
  <2>1. <<labels>> \in Seq(Seq(S)) /\ Len(<<labels>>) = 1 /\ <<labels>>[1] = labels
    OBVIOUS
  <2>2. \A x \in 2..k + 1 : hosts[x] = suffixes[x - 1]
    <3> HIDE DEF suffixes, k
    <3> QED BY <1>2, <1>4, <1>5, <2>1
  <2>3. \A x \in 2..k + 1 : suffixes[x - 1] = SubSeq(labels, start + (x - 1), n)
    <3> HIDE DEF k, start, n
    <3>1. \A x \in 2..k + 1 : x - 1 \in 1..k
      BY <1>2
    <3> QED BY <3>1
  <2>4. hosts \in Seq(Seq(S)) /\ Len(hosts) = k + 1 /\ hosts[1] = labels
    <3> HIDE DEF suffixes, k
    <3> QED BY <1>2, <1>4, <1>5, <2>1
  <2>5. DOMAIN hosts = 1..k + 1
    <3> HIDE DEF hosts, k
    <3> QED BY <2>4
  <2> HIDE DEF hosts, suffixes, k, start, n
  <2> QED BY <2>2, <2>3, <2>4, <2>5
<1> HIDE DEF hosts, suffixes, k, start, n
<1>7. \A x \in DOMAIN hosts : Len(hosts[x]) = IF x = 1 THEN n ELSE n - start - x + 2
  <2> SUFFICES ASSUME NEW x \in 2..k + 1 PROVE Len(hosts[x]) = n - start - x + 2
    BY <1>6 DEF n
  <2>1. base # 0 /\ k = n - base - start + 1
    BY <1>1, <1>2 DEF k
  <2>2. start + (x - 1) \in Nat /\ start + (x - 1) >= 1 /\ start + (x - 1) <= n
    BY <1>1, <1>2, <2>1
  <2>3. Len(hosts[x]) = n - (start + (x - 1)) + 1
    BY <1>3, <1>6, <2>2
  <2> QED BY <1>1, <2>3
<1>8. Distinct(hosts)
  <2> SUFFICES ASSUME NEW x \in DOMAIN hosts, NEW y \in DOMAIN hosts, hosts[x] = hosts[y]
               PROVE  x = y
    BY DEF Distinct
  <2>1. Len(hosts[x]) = Len(hosts[y]) /\ x \in 1..k + 1 /\ y \in 1..k + 1
    BY <1>6
  <2> QED BY SMTT(30), <1>1, <1>2, <1>7, <2>1
<1>9. ASSUME NEW x \in DOMAIN hosts
      PROVE  \E m \in sizes : hosts[x] = SubSeq(labels, n - m + 1, n)
  <2>1. CASE x = 1
    <3>1. n \in sizes /\ n - n + 1 = 1
      BY <1>1 DEF HostSizes, n
    <3> QED BY <1>3, <1>6, <2>1, <3>1
  <2>2. CASE x \in 2..k + 1
    <3> DEFINE m == n - start - x + 2
    <3>1. base # 0 /\ k = n - base - start + 1 /\ n - start <= base + 3
      BY <1>1, <1>2, <2>2 DEF k
    <3>2. m \in 1..n /\ base > 0 /\ m >= base /\ m <= base + 3
      BY <1>1, <1>2, <2>2, <3>1
    <3>3. n - m + 1 = start + (x - 1)
      BY <1>1, <1>2, <2>2
    <3>4. m \in sizes
      <4> HIDE DEF m
      <4> QED BY <3>2 DEF HostSizes, n
    <3> HIDE DEF m
    <3> QED BY <1>6, <2>2, <3>3, <3>4
  <2> QED BY SMTT(30), <1>2, <1>6, <2>1, <2>2
<1>10. ASSUME NEW m \in sizes
       PROVE  \E x \in DOMAIN hosts : hosts[x] = SubSeq(labels, n - m + 1, n)
  <2>1. CASE m = n
    <3>1. n - m + 1 = 1 /\ 1 \in DOMAIN hosts
      BY <1>1, <1>2, <1>6, <2>1
    <3> QED BY <1>3, <1>6, <3>1
  <2>2. CASE m # n
    <3> DEFINE x == n - start - m + 2
    <3>1. m \in 1..n /\ base > 0 /\ m >= base /\ m <= base + 3
      BY <2>2 DEF HostSizes, n
    <3>2. k = n - base - start + 1
      BY <1>2, <3>1
    <3>3. x \in 2..k + 1 /\ start + (x - 1) = n - m + 1
      BY <1>1, <1>2, <2>2, <3>1, <3>2
    <3> HIDE DEF x
    <3>4. x \in DOMAIN hosts
      BY <1>2, <1>6, <3>3
    <3> QED BY <1>6, <3>3, <3>4
  <2> QED BY <2>1, <2>2
<1>11. ToSet(hosts) = {SubSeq(labels, n - m + 1, n) : m \in sizes}
  BY <1>9, <1>10 DEF ToSet
<1> QED BY <1>2, <1>6, <1>8, <1>11 DEF hosts, n

\* The directories of the first n bytes of a path.
Slashes(path, n) == {j \in 1..n : path[j] = Slash}
Above(path, n) == {SubSeq(path, 1, i) : i \in Slashes(path, n)}

LEMMA SlashesNext ==
  ASSUME NEW path \in Seq(Int), NEW n \in Nat
  PROVE  /\ Cardinality(Slashes(path, n)) \in Nat /\ Cardinality(Slashes(path, 0)) = 0
         /\ IF path[n + 1] = Slash
            THEN /\ Slashes(path, n + 1) = Slashes(path, n) \cup {n + 1}
                 /\ Cardinality(Slashes(path, n + 1)) = Cardinality(Slashes(path, n)) + 1
                 /\ Above(path, n + 1) = Above(path, n) \cup {SubSeq(path, 1, n + 1)}
            ELSE /\ Slashes(path, n + 1) = Slashes(path, n)
                 /\ Above(path, n + 1) = Above(path, n)
<1>1. 1..n + 1 = 1..n \cup {n + 1} /\ n + 1 \notin 1..n
  OBVIOUS
<1>2. IsFiniteSet(Slashes(path, n)) /\ Cardinality(Slashes(path, n)) \in Nat
  <2>1. IsFiniteSet(1..n) /\ Slashes(path, n) \in SUBSET (1..n)
    BY FS_Interval DEF Slashes
  <2> QED BY <2>1, FS_Subset, FS_CardinalityType
<1>3. Cardinality(Slashes(path, 0)) = 0
  <2>1. Slashes(path, 0) = {}
    BY DEF Slashes
  <2> QED BY <2>1, FS_EmptySet
<1>4. CASE path[n + 1] = Slash
  <2>1. Slashes(path, n + 1) = Slashes(path, n) \cup {n + 1} /\ n + 1 \notin Slashes(path, n)
    BY <1>1, <1>4 DEF Slashes
  <2>2. Cardinality(Slashes(path, n + 1)) = Cardinality(Slashes(path, n)) + 1
    BY <1>2, <2>1, FS_AddElement
  <2>3. Above(path, n + 1) = Above(path, n) \cup {SubSeq(path, 1, n + 1)}
    BY <2>1 DEF Above
  <2> QED BY <1>2, <1>3, <1>4, <2>1, <2>2, <2>3
<1>5. CASE path[n + 1] # Slash
  <2>1. Slashes(path, n + 1) = Slashes(path, n)
    BY <1>1, <1>5 DEF Slashes
  <2> QED BY <1>2, <1>3, <1>5, <2>1 DEF Above
<1> QED BY <1>4, <1>5

LEMMA SlashesGrow ==
  ASSUME NEW path, NEW n \in Nat, NEW m \in Nat, n <= m
  PROVE  Cardinality(Slashes(path, n)) <= Cardinality(Slashes(path, m))
<1>1. IsFiniteSet(1..m) /\ Slashes(path, m) \in SUBSET (1..m)
  BY FS_Interval DEF Slashes
<1>2. IsFiniteSet(Slashes(path, m))
  BY <1>1, FS_Subset
<1>3. Slashes(path, n) \in SUBSET Slashes(path, m)
  BY DEF Slashes
<1> QED BY <1>2, <1>3, FS_Subset

LEMMA AddedOnce ==
  ASSUME NEW S, NEW paths \in Seq(S), NEW x \in S, Distinct(paths)
  PROVE  LET more == Added(paths, x)
         IN /\ more \in Seq(S) /\ Distinct(more) /\ ToSet(more) = ToSet(paths) \cup {x}
            /\ Len(more) >= 1 /\ Len(more) <= Len(paths) + 1
            /\ more[1] = IF Len(paths) = 0 THEN x ELSE paths[1]
<1> DEFINE more == Added(paths, x)
<1>1. DOMAIN paths = 1..Len(paths) /\ Len(paths) \in Nat
  OBVIOUS
<1>2. CASE \E i \in DOMAIN paths : paths[i] = x
  <2>1. more = paths
    BY <1>2 DEF Added
  <2>2. Len(paths) >= 1 /\ x \in ToSet(paths)
    BY <1>1, <1>2 DEF ToSet
  <2> HIDE DEF more
  <2> QED BY <1>1, <2>1, <2>2 DEF more
<1>3. CASE ~\E i \in DOMAIN paths : paths[i] = x
  <2>1. /\ more \in Seq(S) /\ Len(more) = Len(paths) + 1 /\ more[Len(paths) + 1] = x
        /\ \A i \in 1..Len(paths) : more[i] = paths[i]
    BY <1>3 DEF Added
  <2>2. DOMAIN more = 1..Len(paths) \cup {Len(paths) + 1}
    BY <1>1, <2>1
  <2> HIDE DEF more
  <2>3. ToSet(more) = ToSet(paths) \cup {x}
    BY <1>1, <2>1, <2>2 DEF ToSet
  <2>4. Distinct(more)
    <3>1. \A i \in 1..Len(paths) : more[i] # x
      BY <1>1, <1>3, <2>1
    <3> QED BY <1>1, <2>1, <2>2, <3>1 DEF Distinct
  <2>5. more[1] = IF Len(paths) = 0 THEN x ELSE paths[1]
    BY <1>1, <2>1
  <2> QED BY <1>1, <2>1, <2>3, <2>4, <2>5 DEF more
<1> QED BY <1>2, <1>3

LEMMA PathAdded ==
  ASSUME NEW paths \in Seq(Seq(Int)), NEW x \in Seq(Int), Distinct(paths)
  PROVE  /\ Added(paths, x) \in Seq(Seq(Int)) /\ Distinct(Added(paths, x))
         /\ ToSet(Added(paths, x)) = ToSet(paths) \cup {x}
         /\ Len(Added(paths, x)) \in Nat /\ Len(Added(paths, x)) >= 1
         /\ Len(Added(paths, x)) <= Len(paths) + 1
         /\ Added(paths, x)[1] = IF Len(paths) = 0 THEN x ELSE paths[1]
<1> DEFINE S == Seq(Int)
           more == Added(paths, x)
<1>1. paths \in Seq(S) /\ x \in S
  OBVIOUS
<1> HIDE DEF S
<1>2. /\ more \in Seq(S) /\ Distinct(more) /\ ToSet(more) = ToSet(paths) \cup {x}
      /\ Len(more) >= 1 /\ Len(more) <= Len(paths) + 1
      /\ more[1] = IF Len(paths) = 0 THEN x ELSE paths[1]
  BY <1>1, AddedOnce
<1> HIDE DEF more
<1>3. Len(more) \in Nat
  BY <1>2
<1> QED BY <1>2, <1>3 DEF S, more

\* The paths found up to a place of the path, which is behind the fourth slash at most.
Searched(u) ==
  {s \in [i : 1..Len(u.path) + 1, count : 0..4, paths : Seq(Seq(Int))] :
     /\ s.count = Cardinality(Slashes(u.path, s.i - 1))
     /\ Distinct(s.paths) /\ s.paths[1] = Exact(u)
     /\ Len(s.paths) \in 1..2 + s.count
     /\ ToSet(s.paths) = {Exact(u), u.path} \cup Above(u.path, s.i - 1)}

ToSearch(u, s) == IF s.count = 4 THEN 0 ELSE Len(u.path) + 1 - s.i

LEMMA SearchesOn ==
  ASSUME NEW u, NEW path \in Seq(Int), u.path = path, NEW s \in Searched(u)
  PROVE  LET t == PathStep(u.path, s)
         IN /\ t \in Searched(u)
            /\ IF ToSearch(u, s) = 0 THEN ToSearch(u, t) = 0 ELSE ToSearch(u, t) < ToSearch(u, s)
<1> DEFINE t == PathStep(u.path, s)
           G == /\ t \in Searched(u)
                /\ IF ToSearch(u, s) = 0 THEN ToSearch(u, t) = 0 ELSE ToSearch(u, t) < ToSearch(u, s)
<1> SUFFICES G
  OBVIOUS
<1>1. PICK i \in 1..Len(path) + 1, count \in 0..4, paths \in Seq(Seq(Int)) :
        s = [i |-> i, count |-> count, paths |-> paths]
  <2>1. s = [i |-> s.i, count |-> s.count, paths |-> s.paths]
    BY DEF Searched
  <2> QED BY <2>1 DEF Searched
<1>2. /\ count = Cardinality(Slashes(path, i - 1))
      /\ Distinct(paths) /\ paths[1] = Exact(u)
      /\ Len(paths) \in 1..2 + count
      /\ ToSet(paths) = {Exact(u), path} \cup Above(path, i - 1)
  BY <1>1 DEF Searched
<1>3. Len(path) \in Nat /\ i - 1 \in Nat /\ (i - 1) + 1 = i
  OBVIOUS
<1>4. ToSearch(u, s) = IF count = 4 THEN 0 ELSE Len(path) + 1 - i
  BY <1>1 DEF ToSearch
<1> HIDE DEF G
<1>5. CASE i > Len(path) \/ count = 4
  <2>1. t = s
    BY <1>1, <1>5 DEF PathStep
  <2>2. ToSearch(u, s) = 0
    <3>1. i = Len(path) + 1 \/ count = 4
      BY <1>3, <1>5
    <3> QED BY <1>3, <1>4, <3>1
  <2> HIDE DEF t
  <2> QED BY <2>1, <2>2 DEF G
<1>6. CASE i <= Len(path) /\ count # 4 /\ path[i] # Slash
  <2> DEFINE v == [i |-> i + 1, count |-> count, paths |-> paths]
  <2>1. t = v
    <3>1. ~(s.i > Len(u.path) \/ s.count = 4) /\ u.path[s.i] # Slash
      BY <1>1, <1>3, <1>6
    <3>2. t = [s EXCEPT !.i = @ + 1]
      BY <3>1 DEF PathStep
    <3> QED BY <1>1, <3>2
  <2>2. /\ Slashes(path, i) = Slashes(path, i - 1) /\ Above(path, i) = Above(path, i - 1)
    BY ZenonT(60), <1>3, <1>6, SlashesNext
  <2>3. i + 1 \in 1..Len(path) + 1 /\ (i + 1) - 1 = i
    BY <1>3, <1>6
  <2>4. v \in Searched(u)
    BY <1>2, <2>2, <2>3 DEF Searched
  <2>5. ToSearch(u, v) < ToSearch(u, s) /\ ToSearch(u, s) # 0
    <3>1. ToSearch(u, v) = Len(path) + 1 - (i + 1)
      BY <1>6 DEF ToSearch
    <3>2. ToSearch(u, s) = Len(path) + 1 - i
      BY <1>4, <1>6
    <3> QED BY <1>3, <1>6, <3>1, <3>2
  <2> HIDE DEF t, v
  <2> QED BY <2>1, <2>4, <2>5 DEF G
<1>7. CASE i <= Len(path) /\ count # 4 /\ path[i] = Slash
  <2> DEFINE more == Added(paths, SubSeq(path, 1, i))
             v == [i |-> i + 1, count |-> count + 1, paths |-> more]
  <2>1. t = v
    <3>1. ~(s.i > Len(u.path) \/ s.count = 4) /\ u.path[s.i] = Slash
      BY <1>1, <1>3, <1>7
    <3> QED BY <1>1, <3>1 DEF PathStep
  <2>2. /\ Cardinality(Slashes(path, i)) = Cardinality(Slashes(path, i - 1)) + 1
        /\ Above(path, i) = Above(path, i - 1) \cup {SubSeq(path, 1, i)}
    BY <1>3, <1>7, SlashesNext
  <2>3. i + 1 \in 1..Len(path) + 1 /\ (i + 1) - 1 = i /\ count + 1 \in 0..4
    BY <1>3, <1>7
  <2>4. SubSeq(path, 1, i) \in Seq(Int)
    BY <1>3, <1>7
  <2>5. /\ more \in Seq(Seq(Int)) /\ Distinct(more)
        /\ ToSet(more) = ToSet(paths) \cup {SubSeq(path, 1, i)}
        /\ Len(more) >= 1 /\ Len(more) <= Len(paths) + 1 /\ more[1] = paths[1]
    <3>1. Len(paths) # 0
      BY <1>2
    <3> QED BY <1>2, <2>4, <3>1, PathAdded
  <2> HIDE DEF more, t
  <2>6. v \in Searched(u)
    <3>1. Len(more) \in 1..2 + (count + 1)
      <4>1. Len(more) \in Nat /\ Len(paths) \in Nat
        BY <2>5
      <4>2. Len(paths) <= 2 + count
        BY <1>2
      <4> QED BY <2>5, <4>1, <4>2
    <3>2. ToSet(more) = {Exact(u), path} \cup Above(path, i)
      BY <1>2, <2>2, <2>5
    <3>3. count + 1 = Cardinality(Slashes(path, i))
      BY <1>2, <2>2
    <3> QED BY <1>2, <2>3, <2>5, <3>1, <3>2, <3>3 DEF Searched
  <2>7. ToSearch(u, v) < ToSearch(u, s) /\ ToSearch(u, s) # 0
    <3>1. ToSearch(u, v) = IF count + 1 = 4 THEN 0 ELSE Len(path) + 1 - (i + 1)
      BY DEF ToSearch
    <3>2. ToSearch(u, s) = Len(path) + 1 - i
      BY <1>4, <1>7
    <3> QED BY <1>3, <1>7, <3>1, <3>2
  <2> HIDE DEF v
  <2> QED BY <2>1, <2>6, <2>7 DEF G
<1> QED BY <1>3, <1>5, <1>6, <1>7

PathsStart(u) ==
  [i |-> 1, count |-> 0,
   paths |-> Added(IF u.hasQuery THEN <<u.path \o <<Question>> \o u.query>> ELSE << >>, u.path)]

LEMMA SearchStarts ==
  ASSUME NEW u, NEW path \in Seq(Int), u.path = path, u.query \in Seq(Int), u.hasQuery \in BOOLEAN
  PROVE  PathsStart(u) \in Searched(u)
<1> DEFINE queried == IF u.hasQuery THEN <<Exact(u)>> ELSE << >>
           paths == Added(queried, path)
<1>1. Exact(u) \in Seq(Int) /\ (~u.hasQuery => Exact(u) = path)
  <2>1. <<Question>> \in Seq(Int)
    BY DEF Question
  <2>2. u.path \o <<Question>> \o u.query \in Seq(Int)
    BY <2>1
  <2> QED BY <2>2 DEF Exact
<1>2. PathsStart(u) = [i |-> 1, count |-> 0, paths |-> paths]
  BY DEF PathsStart, Exact
<1> HIDE DEF PathsStart
<1>3. /\ queried \in Seq(Seq(Int)) /\ Distinct(queried) /\ Len(queried) <= 1 /\ Len(queried) \in Nat
      /\ IF u.hasQuery THEN Len(queried) = 1 /\ queried[1] = Exact(u) /\ ToSet(queried) = {Exact(u)}
         ELSE Len(queried) = 0 /\ ToSet(queried) = {}
  BY <1>1 DEF Distinct, ToSet
<1> HIDE DEF queried
<1>4. /\ paths \in Seq(Seq(Int)) /\ Distinct(paths) /\ ToSet(paths) = ToSet(queried) \cup {path}
      /\ Len(paths) >= 1 /\ Len(paths) <= Len(queried) + 1
      /\ paths[1] = IF Len(queried) = 0 THEN path ELSE queried[1]
  <2>1. queried \in Seq(Seq(Int)) /\ Distinct(queried) /\ path \in Seq(Int)
    BY <1>3
  <2> QED BY <2>1, PathAdded
<1> HIDE DEF paths
<1>5. paths[1] = Exact(u) /\ ToSet(paths) = {Exact(u), path}
  BY <1>1, <1>3, <1>4
<1>6. Len(paths) \in 1..2
  <2>1. Len(paths) \in Nat
    BY <1>4
  <2>2. Len(paths) <= 2
    BY <1>3, <1>4, <2>1
  <2>3. Len(paths) >= 1
    BY <1>4
  <2>4. \A x \in Nat : x >= 1 /\ x <= 2 => x \in 1..2
    OBVIOUS
  <2> QED BY <2>1, <2>2, <2>3, <2>4
<1>7. Above(path, 0) = {} /\ Cardinality(Slashes(path, 0)) = 0
  <2>1. Slashes(path, 0) = {}
    BY DEF Slashes
  <2> QED BY <2>1, FS_EmptySet DEF Above
<1>8. 1 \in 1..Len(path) + 1 /\ 1 - 1 = 0
  OBVIOUS
<1>9. [i |-> 1, count |-> 0, paths |-> paths] \in Searched(u)
  <2>1. 1..2 + 0 = 1..2 /\ 0 \in 0..4
    OBVIOUS
  <2> QED BY <2>1, <1>4, <1>5, <1>6, <1>7, <1>8 DEF Searched
<1> QED BY <1>2, <1>9

LEMMA SearchingRounds ==
  ASSUME NEW u, NEW path \in Seq(Int), u.path = path, u.query \in Seq(Int), u.hasQuery \in BOOLEAN
  PROVE  \E f \in [Nat -> Searched(u)] :
           /\ f[0] = PathsStart(u)
           /\ \A k \in Nat : f[k + 1] = PathStep(path, f[k])
           /\ Paths(u) = f[Len(path)].paths
<1> DEFINE S == Searched(u)
           start == PathsStart(u)
           Step(s) == PathStep(path, s)
           body == [s \in S |-> Step(s)]
           P(g) == g = [k \in Nat |-> IF k = 0 THEN start ELSE Step(g[k - 1])]
           g == CHOOSE x : P(x)
           T == {n \in Nat : g[n] \in S}
<1>1. start \in S
  BY SearchStarts
<1>2. \A s \in S : Step(s) \in S
  BY SearchesOn
<1>3. Paths(u) = g[Len(path)].paths
  BY DEF Paths, Repeated, PathsStart
<1> HIDE DEF S, Step, start
<1>4. \E f \in [Nat -> S] : Rounds(f, start, body)
  <2>1. body \in [S -> S]
    BY <1>2
  <2> HIDE DEF body, P, g, T
  <2> QED BY <1>1, <2>1, RoundsExist, Zenon
<1>5. PICK f \in [Nat -> S] : f[0] = start /\ \A k \in Nat : f[k + 1] = Step(f[k])
  BY <1>4 DEF Rounds
<1>6. P(f)
  <2>1. \A k \in Nat : f[k] = IF k = 0 THEN start ELSE Step(f[k - 1])
    BY <1>5
  <2> QED BY <2>1
<1>7. P(g)
  BY <1>6
<1> HIDE DEF g
<1>8. g[0] = start /\ \A k \in Nat : g[k + 1] = Step(g[k])
  BY <1>7
<1>9. \A n \in Nat : n \in T
  <2>1. 0 \in T
    BY <1>1, <1>8
  <2>2. ASSUME NEW n \in Nat, n \in T PROVE n + 1 \in T
    <3>1. g[n] \in S /\ g[n + 1] = Step(g[n])
      BY <1>8, <2>2
    <3>2. g[n + 1] \in S
      BY <1>2, <3>1
    <3> QED BY <3>2
  <2> HIDE DEF T
  <2> QED BY <2>1, <2>2, Induction
<1>10. g \in [Nat -> S]
  BY <1>7, <1>9
<1> QED BY <1>3, <1>8, <1>10 DEF S, Step, start

LEMMA PathsAre ==
  ASSUME NEW u, NEW path \in Seq(Int), u.path = path, u.query \in Seq(Int), u.hasQuery \in BOOLEAN
  PROVE  /\ Paths(u) \in Seq(Seq(Int)) /\ Len(Paths(u)) \in 1..6 /\ Distinct(Paths(u))
         /\ Paths(u)[1] = Exact(u)
         /\ ToSet(Paths(u)) = {Exact(u), path} \cup Directories(path)
<1>1. PICK f \in [Nat -> Searched(u)] :
        /\ f[0] = PathsStart(u)
        /\ \A k \in Nat : f[k + 1] = PathStep(path, f[k])
        /\ Paths(u) = f[Len(path)].paths
  BY SearchingRounds
<1> DEFINE size == Len(path)
           todo == [n \in Nat |-> ToSearch(u, f[n])]
           T == {n \in Nat : todo[n] = 0 \/ todo[n] <= size - n}
<1>2. size \in Nat
  OBVIOUS
<1>3. todo \in [Nat -> Nat]
  <2>1. ASSUME NEW n \in Nat PROVE ToSearch(u, f[n]) \in Nat
    <3>1. f[n].i \in 1..size + 1
      BY <1>1 DEF Searched
    <3> QED BY <1>2, <3>1 DEF ToSearch
  <2> QED BY <2>1
<1>4. todo[0] = size
  <2>1. ToSearch(u, PathsStart(u)) = size
    BY <1>2 DEF ToSearch, PathsStart
  <2> QED BY <1>1, <2>1
<1>5. \A n \in Nat : IF todo[n] = 0 THEN todo[n + 1] = 0 ELSE todo[n + 1] < todo[n]
  <2> SUFFICES ASSUME NEW n \in Nat
               PROVE  IF todo[n] = 0 THEN todo[n + 1] = 0 ELSE todo[n + 1] < todo[n]
    OBVIOUS
  <2>1. f[n] \in Searched(u) /\ f[n + 1] = PathStep(path, f[n])
    BY <1>1
  <2>2. todo[n] = ToSearch(u, f[n]) /\ todo[n + 1] = ToSearch(u, f[n + 1])
    OBVIOUS
  <2> HIDE DEF todo
  <2> QED BY <2>1, <2>2, SearchesOn
<1>6. \A n \in Nat : n \in T
  <2> HIDE DEF size, todo
  <2>1. 0 \in T
    BY <1>2, <1>4
  <2>2. ASSUME NEW n \in Nat, n \in T PROVE n + 1 \in T
    <3>1. n + 1 \in Nat
      OBVIOUS
    <3>2. todo[n] \in Nat /\ todo[n + 1] \in Nat
      BY <1>3, <3>1
    <3> QED BY <1>2, <1>5, <2>2, <3>2
  <2> HIDE DEF T
  <2> QED BY <2>1, <2>2, Induction
<1>7. PICK s \in Searched(u) : Paths(u) = s.paths /\ ToSearch(u, s) = 0
  <2>1. size \in T /\ todo[size] \in Nat
    BY <1>2, <1>3, <1>6
  <2>2. todo[size] = 0
    <3> HIDE DEF size, todo
    <3> QED BY <1>2, <2>1
  <2>3. todo[size] = ToSearch(u, f[size]) /\ f[size] \in Searched(u)
    BY <1>2
  <2> QED BY <1>1, <2>2, <2>3
<1>8. PICK i \in 1..size + 1, count \in 0..4 : i = s.i /\ count = s.count
  BY DEF Searched
<1>9. /\ count = Cardinality(Slashes(path, i - 1))
      /\ Distinct(s.paths) /\ s.paths[1] = Exact(u) /\ s.paths \in Seq(Seq(Int))
      /\ Len(s.paths) \in 1..2 + count
      /\ ToSet(s.paths) = {Exact(u), path} \cup Above(path, i - 1)
  BY <1>8 DEF Searched
<1>10. count = 4 \/ i = size + 1
  BY <1>2, <1>7, <1>8 DEF ToSearch
<1>11. Above(path, i - 1) = Directories(path)
  <2>1. DOMAIN path = 1..size
    OBVIOUS
  <2> HIDE DEF size
  <2>2. ASSUME NEW k \in 1..size, path[k] = Slash
        PROVE  k <= i - 1 <=> Cardinality(Slashes(path, k)) <= 4
    <3>1. CASE k <= i - 1
      <4>1. Cardinality(Slashes(path, k)) <= Cardinality(Slashes(path, i - 1))
        BY <1>2, <3>1, SlashesGrow
      <4>2. Cardinality(Slashes(path, k)) \in Nat
        BY SlashesNext
      <4> QED BY <1>9, <3>1, <4>1, <4>2
    <3>2. CASE k > i - 1
      <4>1. count = 4 /\ k - 1 \in Nat /\ (k - 1) + 1 = k /\ i - 1 <= k - 1 /\ i - 1 \in Nat
        BY <1>2, <1>10, <3>2
      <4>2. Cardinality(Slashes(path, k)) = Cardinality(Slashes(path, k - 1)) + 1
        BY <2>2, <4>1, SlashesNext
      <4>3. Cardinality(Slashes(path, i - 1)) <= Cardinality(Slashes(path, k - 1))
        BY <4>1, SlashesGrow
      <4>4. Cardinality(Slashes(path, k - 1)) \in Nat
        BY <4>1, SlashesNext
      <4> QED BY <1>9, <3>2, <4>1, <4>2, <4>3, <4>4
    <3> QED BY <1>2, <3>1, <3>2
  <2>3. Slashes(path, i - 1) =
          {k \in DOMAIN path : path[k] = Slash /\ Cardinality(Slashes(path, k)) <= 4}
    <3>1. ASSUME NEW k PROVE k \in Slashes(path, i - 1) <=> k \in 1..size /\ path[k] = Slash /\ k <= i - 1
      BY <1>2 DEF Slashes
    <3> QED BY <2>1, <2>2, <3>1
  <2> QED BY <2>3 DEF Above, Directories, Slashes
<1>12. Len(s.paths) \in 1..6
  <2>1. \A x \in 1..2 + count : x \in 1..6
    OBVIOUS
  <2> QED BY <1>9, <2>1
<1> QED BY <1>7, <1>9, <1>11, <1>12

\* The expressions of a URL are all its hosts with all its paths, each once, at most
\* thirty, the exact URL first: for hosts of any number of labels and paths and
\* queries of any length (Expressions).
THEOREM ExpressionsAll ==
  \A S : \A labels \in Seq(S) : \A base \in 0..Len(labels) :
    \A u \in [path : Seq(Int), hasQuery : BOOLEAN, query : Seq(Int)] :
      AllExpressions(labels, base, u)
<1> SUFFICES ASSUME NEW S, NEW labels \in Seq(S), NEW base \in 0..Len(labels),
                    NEW u \in [path : Seq(Int), hasQuery : BOOLEAN, query : Seq(Int)]
             PROVE  AllExpressions(labels, base, u)
  OBVIOUS
<1> DEFINE hosts == Hosts(labels, base)
           paths == Paths(u)
           h == Len(hosts)
           n == Len(paths)
           got == Expressions(labels, base, u)
           q(i) == (i - 1) \div n
           r(i) == (i - 1) % n
<1>1. /\ hosts \in Seq(Seq(S)) /\ h \in 1..5 /\ hosts[1] = labels /\ Distinct(hosts)
      /\ ToSet(hosts) = {SubSeq(labels, Len(labels) - m + 1, Len(labels)) : m \in HostSizes(labels, base)}
  BY HostsAre
<1>2. /\ paths \in Seq(Seq(Int)) /\ n \in 1..6 /\ Distinct(paths) /\ paths[1] = Exact(u)
      /\ ToSet(paths) = {Exact(u), u.path} \cup Directories(u.path)
  <2>1. u.path \in Seq(Int) /\ u.query \in Seq(Int) /\ u.hasQuery \in BOOLEAN
    OBVIOUS
  <2> QED BY <2>1, PathsAre
<1>3. DOMAIN hosts = 1..h /\ DOMAIN paths = 1..n
  BY <1>1, <1>2
<1>4. got = [i \in 1..h * n |-> <<hosts[q(i) + 1], paths[r(i) + 1]>>]
  BY DEF Expressions
<1> HIDE DEF hosts, paths, h, n, got, q, r
<1>0. h \in Nat \ {0} /\ n \in Nat \ {0} /\ h * n \in 1..30
  <2>1. \A x \in 1..5 : \A y \in 1..6 : x * y \in 1..30
    <3> SUFFICES ASSUME NEW x \in 1..5, NEW y \in 1..6 PROVE x * y \in 1..30
      OBVIOUS
    <3>1. y = 1 \/ y = 2 \/ y = 3 \/ y = 4 \/ y = 5 \/ y = 6
      OBVIOUS
    <3> QED BY <3>1
  <2> QED BY <1>1, <1>2, <2>1
<1>5. ASSUME NEW i \in 1..h * n
      PROVE  q(i) + 1 \in 1..h /\ r(i) + 1 \in 1..n /\ i - 1 = n * q(i) + r(i)
  <2>1. i - 1 \in 0..h * n - 1
    BY <1>0
  <2>2. q(i) \in 0..h - 1 /\ r(i) \in 0..n - 1 /\ i - 1 = n * q(i) + r(i)
    BY <1>0, <2>1, RowAndColumn DEF q, r
  <2>3. q(i) + 1 \in 1..h /\ r(i) + 1 \in 1..n
    BY SMTT(30), <1>0, <2>2
  <2> QED BY <2>2, <2>3
<1>6. ASSUME NEW a \in 1..h, NEW b \in 1..n
      PROVE  \E i \in 1..h * n : q(i) + 1 = a /\ r(i) + 1 = b
  <2>1. PICK row \in 0..h - 1, column \in 0..n - 1 : row = a - 1 /\ column = b - 1
    BY <1>0
  <2> DEFINE x == n * row + column
  <2>2. x \in 0..h * n - 1 /\ x \div n = a - 1 /\ x % n = b - 1
    <3>1. \A y \in 0..h - 1, z \in 0..n - 1 :
            n * y + z \in 0..h * n - 1 /\ (n * y + z) \div n = y /\ (n * y + z) % n = z
      BY <1>0, RowAndColumn
    <3>2. x \in 0..h * n - 1 /\ x \div n = row /\ x % n = column
      BY <3>1
    <3> QED BY <2>1, <3>2
  <2> HIDE DEF x
  <2>3. x + 1 \in 1..h * n /\ (x + 1) - 1 = x
    BY <1>0, <2>2
  <2>4. q(x + 1) = a - 1 /\ r(x + 1) = b - 1
    BY <2>2, <2>3 DEF q, r
  <2>5. q(x + 1) + 1 = a /\ r(x + 1) + 1 = b
    BY <2>4
  <2> QED BY <2>3, <2>5
<1>7. DOMAIN got = 1..h * n /\ Len(got) = h * n
  BY <1>0, <1>4
<1>8. ToSet(got) = ToSet(hosts) \X ToSet(paths)
  <2>1. ASSUME NEW e \in ToSet(got) PROVE e \in ToSet(hosts) \X ToSet(paths)
    <3>1. PICK i \in 1..h * n : e = <<hosts[q(i) + 1], paths[r(i) + 1]>>
      BY <1>4, <1>7 DEF ToSet
    <3> QED BY <1>3, <1>5, <3>1 DEF ToSet
  <2>2. ASSUME NEW e \in ToSet(hosts) \X ToSet(paths) PROVE e \in ToSet(got)
    <3>1. PICK a \in 1..h, b \in 1..n : e = <<hosts[a], paths[b]>>
      BY <1>3 DEF ToSet
    <3>2. PICK i \in 1..h * n : q(i) + 1 = a /\ r(i) + 1 = b
      BY <1>6
    <3>3. got[i] = e
      BY <1>4, <3>1, <3>2
    <3> QED BY <1>7, <3>3 DEF ToSet
  <2> QED BY <2>1, <2>2
<1>9. ASSUME NEW i \in DOMAIN got, NEW j \in DOMAIN got, got[i] = got[j] PROVE i = j
  <2>1. hosts[q(i) + 1] = hosts[q(j) + 1] /\ paths[r(i) + 1] = paths[r(j) + 1]
    BY <1>4, <1>7, <1>9
  <2>2. /\ q(i) + 1 \in 1..h /\ r(i) + 1 \in 1..n /\ i - 1 = n * q(i) + r(i)
        /\ q(j) + 1 \in 1..h /\ r(j) + 1 \in 1..n /\ j - 1 = n * q(j) + r(j)
    BY <1>5, <1>7
  <2>3. q(i) + 1 = q(j) + 1 /\ r(i) + 1 = r(j) + 1
    BY <1>1, <1>2, <1>3, <2>1, <2>2 DEF Distinct
  <2>4. q(i) = q(j) /\ r(i) = r(j)
    <3>1. /\ q(i) \in Int /\ q(j) \in Int /\ r(i) \in Int /\ r(j) \in Int
      <4>1. i - 1 \in Int /\ j - 1 \in Int
        BY <1>0, <1>7
      <4>2. /\ (i - 1) \div n \in Int /\ (j - 1) \div n \in Int
            /\ (i - 1) % n \in Int /\ (j - 1) % n \in Int
        <5>1. \A x \in Int : x \div n \in Int /\ x % n \in Int
          <6> SUFFICES ASSUME NEW x \in Int PROVE x \div n \in Int /\ x % n \in Int
            OBVIOUS
          <6>1. x % n \in 0..n - 1 /\ x \div n \in Int
            BY <1>0, DivMod
          <6> QED BY <1>0, <6>1
        <5> QED BY <4>1, <5>1
      <4> QED BY <4>2 DEF q, r
    <3> QED BY <2>3, <3>1
  <2>5. i - 1 = j - 1 /\ i \in Int /\ j \in Int
    BY <1>7, <2>2, <2>4
  <2> QED BY <2>5
<1>10. got[1] = <<labels, Exact(u)>>
  <2>1. n \in Nat \ {0} /\ 1 \in 1..h * n
    BY <1>0
  <2>2. q(1) = 0 /\ r(1) = 0
    BY <2>1 DEF q, r
  <2> QED BY <1>1, <1>2, <1>4, <2>1, <2>2
<1>11. ToSet(hosts) =
         {SubSeq(labels, Len(labels) - m + 1, Len(labels)) :
            m \in {Len(labels)} \cup {m \in 1..Len(labels) : base > 0 /\ m >= base /\ m <= base + 3}}
  BY <1>1 DEF HostSizes
<1>12. Len(got) <= 30
  BY <1>0, <1>7
<1> QED BY <1>2, <1>8, <1>9, <1>10, <1>11, <1>12 DEF AllExpressions, got

----
(* Percent escapes *)

\* A pass that has met an escape has put out less than it has read.
Passing(s) ==
  {st \in [at : 1..Len(s) + 1, out : Seq(Int)] :
     /\ Len(st.out) <= st.at - 1
     /\ (\E i \in 1..st.at - 1 : Escape(s, i)) => Len(st.out) < st.at - 1}

LEMMA UnhexIsInt ==
  ASSUME NEW b \in Int
  PROVE  Unhex(b) \in Int
BY DEF Unhex

LEMMA PassesOn ==
  ASSUME NEW s \in Seq(Int), NEW st \in Passing(s)
  PROVE  LET t == PassStep(s, st)
         IN t \in Passing(s) /\ IF st.at > Len(s) THEN t.at = st.at ELSE t.at > st.at
<1> DEFINE t == PassStep(s, st)
           G == t \in Passing(s) /\ IF st.at > Len(s) THEN t.at = st.at ELSE t.at > st.at
<1> SUFFICES G
  OBVIOUS
<1>1. PICK at \in 1..Len(s) + 1, out \in Seq(Int) : st = [at |-> at, out |-> out]
  <2>1. st = [at |-> st.at, out |-> st.out]
    BY DEF Passing
  <2> QED BY <2>1 DEF Passing
<1>2. /\ Len(out) <= at - 1
      /\ (\E i \in 1..at - 1 : Escape(s, i)) => Len(out) < at - 1
  BY <1>1 DEF Passing
<1>3. Len(s) \in Nat /\ Len(out) \in Nat /\ \A i \in 1..Len(s) : s[i] \in Int
  OBVIOUS
<1>4. \A x \in Int : /\ Append(out, x) \in Seq(Int) /\ Len(Append(out, x)) = Len(out) + 1
  OBVIOUS
<1> HIDE DEF G
<1>5. CASE at > Len(s)
  <2>1. t = st
    BY <1>1, <1>5 DEF PassStep
  <2> HIDE DEF t
  <2> QED BY <1>1, <1>5, <2>1 DEF G
<1>6. CASE at <= Len(s) /\ Escape(s, at)
  <2> DEFINE x == 16 * Unhex(s[at + 1]) + Unhex(s[at + 2])
             u == [at |-> at + 3, out |-> Append(out, x)]
  <2>1. t = u
    BY <1>1, <1>3, <1>6 DEF PassStep
  <2>2. at + 2 <= Len(s)
    BY <1>6 DEF Escape
  <2>3. x \in Int
    <3>1. s[at + 1] \in Int /\ s[at + 2] \in Int
      BY <1>3, <2>2
    <3>2. Unhex(s[at + 1]) \in Int /\ Unhex(s[at + 2]) \in Int
      BY <3>1, UnhexIsInt
    <3> HIDE DEF t
    <3> QED BY <3>2
  <2> HIDE DEF x
  <2>4. /\ at + 3 \in 1..Len(s) + 1 /\ Append(out, x) \in Seq(Int)
        /\ Len(Append(out, x)) < (at + 3) - 1
    BY <1>2, <1>3, <1>4, <2>2, <2>3
  <2>5. u \in Passing(s)
    BY SMTT(30), <1>3, <2>4 DEF Passing
  <2>6. u.at > st.at
    BY <1>1
  <2> HIDE DEF t, u
  <2> QED BY <1>1, <1>3, <1>6, <2>1, <2>5, <2>6 DEF G
<1>7. CASE at <= Len(s) /\ ~Escape(s, at)
  <2> DEFINE u == [at |-> at + 1, out |-> Append(out, s[at])]
  <2>1. t = u
    BY <1>1, <1>3, <1>7 DEF PassStep
  <2>2. s[at] \in Int /\ at + 1 \in 1..Len(s) + 1
    BY <1>3, <1>7
  <2>3. Append(out, s[at]) \in Seq(Int) /\ Len(Append(out, s[at])) = Len(out) + 1
    BY <1>4, <2>2
  <2>4. (\E i \in 1..(at + 1) - 1 : Escape(s, i)) => \E i \in 1..at - 1 : Escape(s, i)
    <3>1. \A i \in 1..(at + 1) - 1 : i = at \/ i \in 1..at - 1
      OBVIOUS
    <3> QED BY <1>7, <3>1
  <2>5. /\ Len(Append(out, s[at])) <= (at + 1) - 1
        /\ (\E i \in 1..(at + 1) - 1 : Escape(s, i)) => Len(Append(out, s[at])) < (at + 1) - 1
    <3>1. Len(out) + 1 <= (at + 1) - 1
      BY <1>2, <1>3
    <3>2. Len(out) < at - 1 => Len(out) + 1 < (at + 1) - 1
      BY <1>3
    <3> QED BY <1>2, <2>3, <2>4, <3>1, <3>2
  <2>6. u \in Passing(s)
    BY <2>2, <2>3, <2>5 DEF Passing
  <2>7. u.at > st.at
    BY <1>1
  <2> HIDE DEF t, u
  <2> QED BY <1>1, <1>3, <1>7, <2>1, <2>6, <2>7 DEF G
<1> QED BY <1>3, <1>5, <1>6, <1>7

LEMMA PassRounds ==
  ASSUME NEW s \in Seq(Int)
  PROVE  \E f \in [Nat -> Passing(s)] :
           /\ f[0] = [at |-> 1, out |-> << >>]
           /\ \A k \in Nat : f[k + 1] = PassStep(s, f[k])
           /\ Pass(s) = f[Len(s)].out
<1> DEFINE S == Passing(s)
           start == [at |-> 1, out |-> << >>]
           Step(st) == PassStep(s, st)
           body == [st \in S |-> Step(st)]
           P(g) == g = [k \in Nat |-> IF k = 0 THEN start ELSE Step(g[k - 1])]
           g == CHOOSE x : P(x)
           T == {n \in Nat : g[n] \in S}
<1>1. start \in S
  BY DEF Passing
<1>2. \A st \in S : Step(st) \in S
  BY PassesOn
<1>3. Pass(s) = g[Len(s)].out
  BY DEF Pass, Repeated
<1> HIDE DEF S, Step, start
<1>4. \E f \in [Nat -> S] : Rounds(f, start, body)
  <2>1. body \in [S -> S]
    BY <1>2
  <2> HIDE DEF body, P, g, T
  <2> QED BY <1>1, <2>1, RoundsExist, Zenon
<1>5. PICK f \in [Nat -> S] : f[0] = start /\ \A k \in Nat : f[k + 1] = Step(f[k])
  BY <1>4 DEF Rounds
<1>6. P(f)
  <2>1. \A k \in Nat : f[k] = IF k = 0 THEN start ELSE Step(f[k - 1])
    BY <1>5
  <2> QED BY <2>1
<1>7. P(g)
  BY <1>6
<1> HIDE DEF g
<1>8. g[0] = start /\ \A k \in Nat : g[k + 1] = Step(g[k])
  BY <1>7
<1>9. \A n \in Nat : n \in T
  <2>1. 0 \in T
    BY <1>1, <1>8
  <2>2. ASSUME NEW n \in Nat, n \in T PROVE n + 1 \in T
    <3>1. g[n] \in S /\ g[n + 1] = Step(g[n])
      BY <1>8, <2>2
    <3>2. g[n + 1] \in S
      BY <1>2, <3>1
    <3> QED BY <3>2
  <2> HIDE DEF T
  <2> QED BY <2>1, <2>2, Induction
<1>10. g \in [Nat -> S]
  BY <1>7, <1>9
<1> QED BY <1>3, <1>8, <1>10 DEF S, Step, start

\* A pass ends behind the string.
LEMMA PassEnds ==
  ASSUME NEW s \in Seq(Int)
  PROVE  \E f \in [Nat -> Passing(s)] :
           /\ f[0] = [at |-> 1, out |-> << >>]
           /\ \A k \in Nat : f[k + 1] = PassStep(s, f[k])
           /\ Pass(s) = f[Len(s)].out /\ f[Len(s)].at = Len(s) + 1
<1>1. PICK f \in [Nat -> Passing(s)] :
        /\ f[0] = [at |-> 1, out |-> << >>]
        /\ \A k \in Nat : f[k + 1] = PassStep(s, f[k])
        /\ Pass(s) = f[Len(s)].out
  BY PassRounds
<1> DEFINE size == Len(s)
           at == [n \in Nat |-> f[n].at]
           T == {n \in Nat : at[n] > size \/ at[n] >= n + 1}
<1>2. size \in Nat /\ at \in [Nat -> 1..size + 1] /\ at[0] = 1
  <2>1. ASSUME NEW n \in Nat PROVE f[n].at \in 1..size + 1
    <3>1. f[n] \in Passing(s)
      BY <1>1
    <3> QED BY <3>1 DEF Passing
  <2>2. f[0].at = 1
    BY <1>1
  <2> QED BY <2>1, <2>2
<1>3. \A n \in Nat : IF at[n] > size THEN at[n + 1] = at[n] ELSE at[n + 1] > at[n]
  <2> SUFFICES ASSUME NEW n \in Nat
               PROVE  IF at[n] > size THEN at[n + 1] = at[n] ELSE at[n + 1] > at[n]
    OBVIOUS
  <2>1. f[n] \in Passing(s) /\ f[n + 1] = PassStep(s, f[n])
    BY <1>1
  <2>2. at[n] = f[n].at /\ at[n + 1] = f[n + 1].at
    OBVIOUS
  <2> HIDE DEF at
  <2> QED BY <2>1, <2>2, PassesOn
<1>4. \A n \in Nat : n \in T
  <2> HIDE DEF size, at
  <2>1. 0 \in T
    BY <1>2
  <2>2. ASSUME NEW n \in Nat, n \in T PROVE n + 1 \in T
    <3>1. n + 1 \in Nat
      OBVIOUS
    <3>2. at[n] \in 1..size + 1 /\ at[n + 1] \in 1..size + 1
      BY <1>2, <3>1
    <3> DEFINE x == at[n]
               y == at[n + 1]
    <3>3. x > size \/ x >= n + 1
      BY <2>2
    <3>4. x \in Int /\ y \in Int /\ (IF x > size THEN y = x ELSE y > x)
      BY <1>2, <1>3, <3>2
    <3> HIDE DEF x, y
    <3>5. y > size \/ y >= (n + 1) + 1
      BY <1>2, <3>3, <3>4
    <3> QED BY <3>1, <3>5 DEF y
  <2> HIDE DEF T
  <2> QED BY <2>1, <2>2, Induction
<1>5. at[size] = size + 1
  <2> HIDE DEF size, at
  <2>1. size \in T /\ at[size] \in 1..size + 1
    BY <1>2, <1>4
  <2>2. at[size] > size \/ at[size] >= size + 1
    BY <2>1
  <2> HIDE DEF T
  <2>3. \A x \in 1..size + 1 : x > size \/ x >= size + 1 => x = size + 1
    BY <1>2
  <2> QED BY <2>1, <2>2, <2>3
<1>6. f[size].at = size + 1
  BY <1>2, <1>5
<1> QED BY <1>1, <1>6

\* A pass over a string with an escape makes it shorter.
LEMMA PassShortens ==
  ASSUME NEW s \in Seq(Int)
  PROVE  /\ Pass(s) \in Seq(Int) /\ Len(Pass(s)) <= Len(s)
         /\ HasEscape(s) => Len(Pass(s)) < Len(s)
<1> DEFINE size == Len(s)
<1>1. PICK st \in Passing(s) : st.at = size + 1 /\ Pass(s) = st.out
  <2>1. PICK f \in [Nat -> Passing(s)] : Pass(s) = f[Len(s)].out /\ f[Len(s)].at = Len(s) + 1
    BY PassEnds
  <2>2. f[Len(s)] \in Passing(s)
    OBVIOUS
  <2> QED BY <2>1, <2>2
<1>2. (size + 1) - 1 = size /\ DOMAIN s = 1..size /\ size \in Nat
  OBVIOUS
<1> HIDE DEF size
<1> QED BY <1>1, <1>2 DEF Passing, HasEscape, size

\* The passes over a string, until no escape is left.
Passed(t) == IF HasEscape(t) THEN Pass(t) ELSE t

LEMMA Passes ==
  ASSUME NEW s \in Seq(Int)
  PROVE  \E f \in [Nat -> Seq(Int)] :
           /\ f[0] = s /\ \A k \in Nat : f[k + 1] = Passed(f[k])
           /\ Unescaped(s) = f[Len(s)] /\ ~HasEscape(f[Len(s)])
<1> DEFINE S == Seq(Int)
           Step(t) == Passed(t)
           body == [t \in S |-> Step(t)]
           P(g) == g = [k \in Nat |-> IF k = 0 THEN s ELSE Step(g[k - 1])]
           g == CHOOSE x : P(x)
           size == Len(s)
           T == {n \in Nat : /\ g[n] \in S
                             /\ ~HasEscape(g[n]) \/ Len(g[n]) <= size - n}
<1>1. s \in S /\ size \in Nat
  OBVIOUS
<1>2. \A t \in S : /\ Step(t) \in S /\ Len(t) \in Nat /\ Len(Step(t)) \in Nat
                   /\ IF HasEscape(t) THEN Len(Step(t)) < Len(t) ELSE Step(t) = t
  BY PassShortens DEF Passed
<1>3. Unescaped(s) = g[size]
  BY DEF Unescaped, Repeated, Passed
<1>4. \A t \in S : Len(t) <= 0 => ~HasEscape(t)
  BY DEF HasEscape
<1> HIDE DEF S, Step, size
<1>5. \E f \in [Nat -> S] : Rounds(f, s, body)
  <2>1. body \in [S -> S]
    BY <1>2
  <2> HIDE DEF body, P, g, T
  <2> QED BY <1>1, <2>1, RoundsExist, Zenon
<1>6. PICK f \in [Nat -> S] : f[0] = s /\ \A k \in Nat : f[k + 1] = Step(f[k])
  BY <1>5 DEF Rounds
<1>7. P(f)
  <2>1. \A k \in Nat : f[k] = IF k = 0 THEN s ELSE Step(f[k - 1])
    BY <1>6
  <2> QED BY <2>1
<1>8. P(g)
  BY <1>7
<1> HIDE DEF g
<1>9. g[0] = s /\ \A k \in Nat : g[k + 1] = Step(g[k])
  BY <1>8
<1>10. \A n \in Nat : n \in T
  <2>1. 0 \in T
    BY <1>1, <1>9 DEF size
  <2>2. ASSUME NEW n \in Nat, n \in T PROVE n + 1 \in T
    <3>1. g[n] \in S /\ g[n + 1] = Step(g[n])
      BY <1>9, <2>2
    <3>2. g[n + 1] \in S /\ Len(g[n]) \in Nat /\ Len(g[n + 1]) \in Nat
      BY <1>2, <3>1
    <3>3. CASE HasEscape(g[n])
      <4>1. Len(g[n]) <= size - n /\ Len(g[n + 1]) < Len(g[n])
        BY <1>2, <2>2, <3>1, <3>3
      <4>2. Len(g[n + 1]) <= size - (n + 1)
        BY <1>1, <3>2, <4>1
      <4> QED BY <3>2, <4>2
    <3>4. CASE ~HasEscape(g[n])
      <4>1. g[n + 1] = g[n]
        BY <1>2, <3>1, <3>4
      <4> QED BY <3>2, <3>4, <4>1
    <3> QED BY <3>3, <3>4
  <2> HIDE DEF T
  <2> QED BY <2>1, <2>2, Induction
<1>11. g[size] \in S /\ (~HasEscape(g[size]) \/ Len(g[size]) <= size - size)
  BY <1>1, <1>10
<1>12. size - size = 0
  BY <1>1
<1>13. g \in [Nat -> S]
  BY <1>8, <1>10
<1> QED BY <1>3, <1>4, <1>9, <1>11, <1>12, <1>13 DEF S, Step, size

\* No escape is left in what is unescaped, however they are nested: as many passes
\* as the string is long are enough (unescapeRepeated).
THEOREM NoEscapeLeft ==
  \A s \in Seq(Int) : Unescaped(s) \in Seq(Int) /\ ~HasEscape(Unescaped(s))
<1> SUFFICES ASSUME NEW s \in Seq(Int)
             PROVE  Unescaped(s) \in Seq(Int) /\ ~HasEscape(Unescaped(s))
  OBVIOUS
<1>1. PICK f \in [Nat -> Seq(Int)] : Unescaped(s) = f[Len(s)] /\ ~HasEscape(f[Len(s)])
  BY Passes
<1>2. Len(s) \in Nat
  OBVIOUS
<1> QED BY <1>1, <1>2

----
(* Rice decoding: numbers and their bits *)

LEMMA PowerSum ==
  ASSUME NEW m \in Nat, NEW n \in Nat PROVE Power2(m + n) = Power2(m) * Power2(n)
<1> DEFINE T == {k \in Nat : Power2(m + k) = Power2(m) * Power2(k)}
<1>1. 0 \in T
  BY Power2Def
<1>2. ASSUME NEW k \in Nat, k \in T PROVE k + 1 \in T
  <2>1. m + (k + 1) = (m + k) + 1 /\ m + k \in Nat
    OBVIOUS
  <2>2. Power2(m + (k + 1)) = 2 * Power2(m + k) /\ Power2(k + 1) = 2 * Power2(k)
    BY <2>1, Power2Def
  <2>3. Power2(m) \in Nat /\ Power2(k) \in Nat /\ Power2(m + k) = Power2(m) * Power2(k)
    BY <1>2, Power2Def
  <2>4. Power2(m + (k + 1)) = Power2(m) * Power2(k + 1)
    BY <2>2, <2>3
  <2> QED BY <2>4
<1>3. n \in T
  <2> HIDE DEF T
  <2> QED BY <1>1, <1>2, Induction
<1> QED BY <1>3

LEMMA SplitPlace ==
  ASSUME NEW p \in Int, NEW a \in Int, NEW d \in Int, NEW v \in Int
  PROVE  (2 * p) * a + (v + p * d) = p * (2 * a + d) + v
<1>1. p * (2 * a + d) = p * (2 * a) + p * d
  OBVIOUS
<1>2. p * (2 * a) = (2 * p) * a
  OBVIOUS
<1> QED BY <1>1, <1>2

LEMMA LowestBit ==
  ASSUME NEW h \in Int, NEW d \in 0..1
  PROVE  (2 * h + d) % 2 = d
OBVIOUS

\* The lowest j + 1 bits of x are its lowest j and the one above them.
LEMMA OneMoreBit ==
  ASSUME NEW x \in Nat, NEW j \in Nat
  PROVE  x % Power2(j + 1) = (x % Power2(j)) + Power2(j) * ((x \div Power2(j)) % 2)
<1>1. PICK p \in Nat \ {0} : p = Power2(j) /\ Power2(j + 1) = 2 * p
  BY Power2Def
<1>2. PICK h \in Int, v \in 0..p - 1 :
        h = x \div p /\ v = x % p /\ x = p * h + v
  <2>1. x = p * (x \div p) + (x % p) /\ x % p \in 0..p - 1 /\ x \div p \in Int
    <3>1. x \in Int
      OBVIOUS
    <3> QED BY <1>1, <3>1, DivMod
  <2> QED BY <2>1
<1>3. PICK a \in Int, d \in 0..1 : a = h \div 2 /\ d = h % 2 /\ h = 2 * a + d
  <2>1. /\ h = 2 * (h \div 2) + (h % 2) /\ h % 2 \in 0..2 - 1 /\ h \div 2 \in Int
    BY DivMod
  <2> QED BY <2>1
<1>4. x = (2 * p) * a + (v + p * d) /\ v + p * d \in 0..(2 * p) - 1
  <2>1. (2 * p) * a + (v + p * d) = p * (2 * a + d) + v
    BY SplitPlace
  <2>2. x = (2 * p) * a + (v + p * d)
    BY <1>2, <1>3, <2>1
  <2>3. p * 0 = 0 /\ p * 1 = p /\ (d = 0 \/ d = 1)
    OBVIOUS
  <2>4. p * d = 0 \/ p * d = p
    BY <2>3
  <2>5. v + p * d \in 0..(2 * p) - 1
    BY <2>4
  <2> QED BY <2>2, <2>5
<1>5. x % (2 * p) = v + p * d
  <2>1. 2 * p \in Nat \ {0}
    OBVIOUS
  <2> QED BY <1>4, <2>1, QuotientOf
<1> QED BY <1>1, <1>2, <1>3, <1>5
----
(* The remainder *)

Reading == [at : Nat, place : Nat, value : Nat]

LEMMA ReadsOn ==
  ASSUME NEW data \in Seq({0, 1}), NEW s \in Reading
  PROVE  ReadBit(data, s) \in Reading
<1>1. CASE s.at >= Len(data)
  BY <1>1 DEF ReadBit
<1>2. CASE ~(s.at >= Len(data))
  <2>1. PICK at \in Nat, place \in Nat, value \in Nat :
          s = [at |-> at, place |-> place, value |-> value]
    BY DEF Reading
  <2>2. at + 1 \in 1..Len(data)
    BY <1>2, <2>1
  <2>3. data[at + 1] = 0 \/ data[at + 1] = 1
    BY <2>2
  <2>4. place * data[at + 1] \in Nat
    BY <2>3
  <2>5. value + place * data[at + 1] \in Nat /\ at + 1 \in Nat /\ 2 * place \in Nat
    BY <2>4
  <2>6. ReadBit(data, s) = [at |-> at + 1, place |-> 2 * place,
                            value |-> value + place * data[at + 1]]
    BY <1>2, <2>1 DEF ReadBit
  <2> QED BY <2>5, <2>6 DEF Reading
<1> QED BY <1>1, <1>2

LEMMA ReadRounds ==
  ASSUME NEW data \in Seq({0, 1}), NEW at \in Nat, NEW k \in Nat
  PROVE  \E f \in [Nat -> Reading] :
           /\ f[0] = [at |-> at, place |-> 1, value |-> 0]
           /\ \A n \in Nat : f[n + 1] = ReadBit(data, f[n])
           /\ Remainder(data, at, k) = f[k].value
<1> DEFINE S == Reading
           start == [at |-> at, place |-> 1, value |-> 0]
           Step(s) == ReadBit(data, s)
           body == [s \in S |-> Step(s)]
           P(g) == g = [n \in Nat |-> IF n = 0 THEN start ELSE Step(g[n - 1])]
           g == CHOOSE x : P(x)
           T == {n \in Nat : g[n] \in S}
<1>1. start \in S
  BY DEF Reading
<1>2. \A s \in S : Step(s) \in S
  BY ReadsOn
<1>3. Remainder(data, at, k) = g[k].value
  BY DEF Remainder, Repeated
<1> HIDE DEF S, Step, start
<1>4. \E f \in [Nat -> S] : Rounds(f, start, body)
  <2>1. body \in [S -> S]
    BY <1>2
  <2> HIDE DEF body, P, g, T
  <2> QED BY <1>1, <2>1, RoundsExist, Zenon
<1>5. PICK f \in [Nat -> S] : f[0] = start /\ \A n \in Nat : f[n + 1] = Step(f[n])
  BY <1>4 DEF Rounds
<1>6. P(f)
  <2>1. \A n \in Nat : f[n] = IF n = 0 THEN start ELSE Step(f[n - 1])
    BY <1>5
  <2> QED BY <2>1
<1>7. P(g)
  BY <1>6
<1> HIDE DEF g
<1>8. g[0] = start /\ \A n \in Nat : g[n + 1] = Step(g[n])
  BY <1>7
<1>9. \A n \in Nat : n \in T
  <2>1. 0 \in T
    BY <1>1, <1>8
  <2>2. ASSUME NEW n \in Nat, n \in T PROVE n + 1 \in T
    <3>1. g[n] \in S /\ g[n + 1] = Step(g[n])
      BY <1>8, <2>2
    <3>2. g[n + 1] \in S
      BY <1>2, <3>1
    <3> QED BY <3>2
  <2> HIDE DEF T
  <2> QED BY <2>1, <2>2, Induction
<1>10. g \in [Nat -> S]
  BY <1>7, <1>9
<1> QED BY <1>3, <1>8, <1>10 DEF S, Step, start

LEMMA RemainderNat ==
  ASSUME NEW data \in Seq({0, 1}), NEW at \in Nat, NEW k \in Nat
  PROVE  Remainder(data, at, k) \in Nat
<1>1. PICK f \in [Nat -> Reading] : Remainder(data, at, k) = f[k].value
  BY ReadRounds
<1> QED BY <1>1 DEF Reading

\* While there are bits, round j reads the one of weight Power2(j).
LEMMA RemainderSums ==
  ASSUME NEW data \in Seq({0, 1}), NEW at \in Nat, NEW k \in Nat, at + k <= Len(data)
  PROVE  \E v \in [Nat -> Nat] :
           /\ v[0] = 0 /\ Remainder(data, at, k) = v[k]
           /\ \A j \in 0..k - 1 : v[j + 1] = v[j] + Power2(j) * data[at + j + 1]
<1>1. PICK f \in [Nat -> Reading] :
        /\ f[0] = [at |-> at, place |-> 1, value |-> 0]
        /\ \A n \in Nat : f[n + 1] = ReadBit(data, f[n])
        /\ Remainder(data, at, k) = f[k].value
  BY ReadRounds
<1> DEFINE T == {j \in Nat : j <= k => f[j].at = at + j /\ f[j].place = Power2(j)}
<1>2. 0 \in T
  <2>1. f[0].at = at /\ f[0].place = 1 /\ at + 0 = at
    BY <1>1
  <2> QED BY <2>1, Power2Def
<1>3. ASSUME NEW j \in 0..k - 1, f[j].at = at + j, f[j].place = Power2(j)
      PROVE  f[j + 1] = [at |-> at + j + 1, place |-> 2 * Power2(j),
                         value |-> f[j].value + Power2(j) * data[at + j + 1]]
  <2>1. f[j + 1] = ReadBit(data, f[j])
    BY <1>1
  <2>2. ~(at + j >= Len(data))
    OBVIOUS
  <2> QED BY <1>3, <2>1, <2>2 DEF ReadBit
<1>4. ASSUME NEW j \in Nat, j \in T PROVE j + 1 \in T
  <2> SUFFICES ASSUME j + 1 <= k PROVE f[j + 1].at = at + (j + 1) /\ f[j + 1].place = Power2(j + 1)
    OBVIOUS
  <2>1. j \in 0..k - 1 /\ f[j].at = at + j /\ f[j].place = Power2(j)
    BY <1>4
  <2>2. f[j + 1] = [at |-> at + j + 1, place |-> 2 * Power2(j),
                    value |-> f[j].value + Power2(j) * data[at + j + 1]]
    BY <2>1, <1>3
  <2>3. f[j + 1].at = at + j + 1 /\ f[j + 1].place = 2 * Power2(j)
    BY <2>2
  <2>4. at + j + 1 = at + (j + 1) /\ Power2(j + 1) = 2 * Power2(j)
    BY Power2Def
  <2> QED BY <2>3, <2>4
<1>5. \A j \in Nat : j \in T
  <2> HIDE DEF T
  <2> QED BY <1>2, <1>4, Induction
<1> DEFINE v == [j \in Nat |-> f[j].value]
<1>6. v \in [Nat -> Nat]
  BY DEF Reading
<1>7. v[0] = 0 /\ v[k] = Remainder(data, at, k)
  BY <1>1
<1>8. ASSUME NEW j \in 0..k - 1 PROVE v[j + 1] = v[j] + Power2(j) * data[at + j + 1]
  <2>1. j \in Nat /\ j <= k /\ j + 1 \in Nat /\ j \in T
    BY <1>5
  <2>2. f[j].at = at + j /\ f[j].place = Power2(j)
    BY <2>1
  <2>3. f[j + 1] = [at |-> at + j + 1, place |-> 2 * Power2(j),
                    value |-> f[j].value + Power2(j) * data[at + j + 1]]
    BY <2>2, <1>3
  <2>4. f[j + 1].value = f[j].value + Power2(j) * data[at + j + 1]
    BY <2>3
  <2> QED BY <2>1, <2>4
<1> HIDE DEF v
<1> QED BY <1>6, <1>7, <1>8

\* If the next k bits are the lowest ones of x, the remainder is what they say.
LEMMA RemainderOf ==
  ASSUME NEW data \in Seq({0, 1}), NEW at \in Nat, NEW k \in Nat, at + k <= Len(data),
         NEW x \in Nat, \A i \in 1..k : data[at + i] = (x \div Power2(i - 1)) % 2
  PROVE  Remainder(data, at, k) = x % Power2(k)
<1>1. PICK v \in [Nat -> Nat] :
        /\ v[0] = 0 /\ Remainder(data, at, k) = v[k]
        /\ \A j \in 0..k - 1 : v[j + 1] = v[j] + Power2(j) * data[at + j + 1]
  BY RemainderSums
<1> DEFINE T == {j \in Nat : j <= k => v[j] = x % Power2(j)}
<1>2. 0 \in T
  <2>1. x % 1 = 0
    BY DivMod
  <2> QED BY <1>1, <2>1, Power2Def
<1>3. ASSUME NEW j \in Nat, j \in T PROVE j + 1 \in T
  <2> SUFFICES ASSUME j + 1 <= k PROVE v[j + 1] = x % Power2(j + 1)
    OBVIOUS
  <2>1. j \in 0..k - 1 /\ j + 1 \in 1..k /\ (j + 1) - 1 = j /\ at + (j + 1) = at + j + 1
    OBVIOUS
  <2>2. data[at + j + 1] = (x \div Power2(j)) % 2
    BY <2>1
  <2>3. v[j] = x % Power2(j)
    BY <1>3, <2>1
  <2> QED BY ZenonT(60), <1>1, <2>1, <2>2, <2>3, OneMoreBit
<1>4. k \in T
  <2> HIDE DEF T
  <2> QED BY <1>2, <1>3, Induction
<1> QED BY <1>1, <1>4

\* The remainder fits its k bits, and they are the lowest of every number that has
\* it for a remainder.
LEMMA BitsOf ==
  ASSUME NEW data \in Seq({0, 1}), NEW at \in Nat, NEW k \in Nat, at + k <= Len(data),
         NEW q \in Nat
  PROVE  LET r == Remainder(data, at, k)
             x == q * Power2(k) + r
         IN /\ r \in 0..Power2(k) - 1
            /\ \A i \in 1..k : (x \div Power2(i - 1)) % 2 = data[at + i]
<1>1. PICK v \in [Nat -> Nat] :
        /\ v[0] = 0 /\ Remainder(data, at, k) = v[k]
        /\ \A j \in 0..k - 1 : v[j + 1] = v[j] + Power2(j) * data[at + j + 1]
  BY RemainderSums
<1>2. ASSUME NEW j \in 0..k - 1 PROVE data[at + j + 1] \in {0, 1}
  <2>1. at + j + 1 \in 1..Len(data)
    OBVIOUS
  <2> QED BY <2>1
<1> DEFINE U == {j \in Nat : j <= k => v[j] \in 0..Power2(j) - 1}
<1>3. 0 \in U
  BY <1>1, Power2Def
<1>4. ASSUME NEW j \in Nat, j \in U PROVE j + 1 \in U
  <2> SUFFICES ASSUME j + 1 <= k PROVE v[j + 1] \in 0..Power2(j + 1) - 1
    OBVIOUS
  <2>1. PICK p \in Nat \ {0} : p = Power2(j) /\ Power2(j + 1) = 2 * p
    BY Power2Def
  <2>2. j \in 0..k - 1 /\ v[j] \in 0..p - 1
    BY <1>4, <2>1
  <2>3. v[j + 1] = v[j] + p * data[at + j + 1]
    BY <1>1, <2>1, <2>2
  <2>4. data[at + j + 1] = 0 \/ data[at + j + 1] = 1
    BY <1>2, <2>2
  <2>5. PICK w \in 0..p - 1 : w = v[j]
    BY <2>2
  <2>6. p * 0 = 0 /\ p * 1 = p
    OBVIOUS
  <2>7. v[j + 1] = w \/ v[j + 1] = w + p
    <3>1. p * data[at + j + 1] = 0 \/ p * data[at + j + 1] = p
      BY <2>4, <2>6
    <3>2. v[j + 1] = w + p * data[at + j + 1]
      BY <2>3, <2>5
    <3>3. w + 0 = w
      OBVIOUS
    <3>4. v[j + 1] = w + 0 \/ v[j + 1] = w + p
      BY <3>1, <3>2, Zenon
    <3> QED BY <3>3, <3>4, Zenon
  <2>8. w \in 0..(2 * p) - 1 /\ w + p \in 0..(2 * p) - 1
    OBVIOUS
  <2>9. v[j + 1] \in 0..(2 * p) - 1
    BY <2>7, <2>8
  <2> QED BY <2>1, <2>9
<1>5. \A j \in Nat : j \in U
  <2> HIDE DEF U
  <2> QED BY <1>3, <1>4, Induction
<1> DEFINE x == q * Power2(k) + v[k]
           T == {m \in Nat : m <= k =>
                   \E h \in Nat : x = Power2(k - m) * h + v[k - m]}
<1>6. 0 \in T
  <2>1. x = Power2(k - 0) * q + v[k - 0]
    BY Power2Def
  <2> HIDE DEF x
  <2> QED BY <2>1
<1>7. ASSUME NEW m \in Nat, m \in T PROVE m + 1 \in T
  <2> SUFFICES ASSUME m + 1 <= k
               PROVE  \E h \in Nat : x = Power2(k - (m + 1)) * h + v[k - (m + 1)]
    BY DEF T
  <2> DEFINE j == k - (m + 1)
  <2>1. j \in 0..k - 1 /\ j \in Nat /\ k - m = j + 1 /\ m <= k
    OBVIOUS
  <2> HIDE DEF j, x
  <2>2. PICK h \in Nat : x = Power2(j + 1) * h + v[j + 1]
    BY <1>7, <2>1
  <2>3. PICK p \in Nat \ {0} : p = Power2(j) /\ Power2(j + 1) = 2 * p
    BY <2>1, Power2Def
  <2>4. PICK d \in 0..1 : d = data[at + j + 1]
    <3>1. data[at + j + 1] \in {0, 1}
      BY <1>2, <2>1
    <3> QED BY SMTT(30), <3>1
  <2>5. v[j + 1] = v[j] + p * d
    BY <1>1, <2>1, <2>3, <2>4
  <2>6. PICK w \in Nat : w = v[j]
    BY <2>1
  <2>7. (2 * p) * h + (w + p * d) = p * (2 * h + d) + w
    BY SplitPlace
  <2>8. x = Power2(j) * (2 * h + d) + v[j]
    BY <2>2, <2>3, <2>5, <2>6, <2>7
  <2>9. 2 * h + d \in Nat
    <3>1. h \in Nat
      OBVIOUS
    <3>2. d \in 0..1
      OBVIOUS
    <3>3. d \in Nat
      BY <3>2
    <3> QED BY <3>1, <3>3
  <2>10. \E e \in Nat : x = Power2(j) * e + v[j]
    BY <2>8, <2>9
  <2> QED BY <2>10 DEF j
<1>8. \A m \in Nat : m \in T
  <2> HIDE DEF T
  <2> QED BY <1>6, <1>7, Induction
<1>9. ASSUME NEW j \in 0..k PROVE \E h \in Nat : x = Power2(j) * h + v[j]
  <2>1. k - j \in Nat /\ k - j <= k /\ k - (k - j) = j
    OBVIOUS
  <2>2. k - j \in T
    <3> HIDE DEF T
    <3> QED BY <2>1, <1>8
  <2> QED BY <2>1, <2>2
<1> HIDE DEF x
<1>10. ASSUME NEW j \in 0..k - 1 PROVE (x \div Power2(j)) % 2 = data[at + j + 1]
  <2>1. j \in Nat /\ j \in 0..k /\ j + 1 \in 0..k
    OBVIOUS
  <2>2. PICK h \in Nat : x = Power2(j + 1) * h + v[j + 1]
    BY <1>9, <2>1
  <2>3. PICK p \in Nat \ {0} : p = Power2(j) /\ Power2(j + 1) = 2 * p
    BY <2>1, Power2Def
  <2>4. PICK d \in 0..1 : d = data[at + j + 1]
    <3>1. data[at + j + 1] \in {0, 1}
      BY <1>2
    <3>2. data[at + j + 1] = 0 \/ data[at + j + 1] = 1
      BY <3>1
    <3>3. 0 \in 0..1 /\ 1 \in 0..1
      OBVIOUS
    <3> QED BY <3>2, <3>3
  <2>5. v[j + 1] = v[j] + p * d
    BY <1>1, <2>3, <2>4
  <2>6. PICK w \in 0..p - 1 : w = v[j]
    BY SMTT(30), <1>5, <2>1, <2>3
  <2>7. (2 * p) * h + (w + p * d) = p * (2 * h + d) + w /\ 2 * h + d \in Int
    BY SplitPlace
  <2>8. x = p * (2 * h + d) + w
    BY <2>2, <2>3, <2>5, <2>6, <2>7
  <2>9. x \div p = 2 * h + d
    BY <2>7, <2>8, QuotientOf
  <2>10. (2 * h + d) % 2 = d
    <3>1. h \in Int /\ d \in 0..1
      OBVIOUS
    <3> QED BY <3>1, LowestBit
  <2> QED BY <2>3, <2>4, <2>9, <2>10
<1>11. ASSUME NEW i \in 1..k PROVE (x \div Power2(i - 1)) % 2 = data[at + i]
  <2>1. i - 1 \in 0..k - 1 /\ at + (i - 1) + 1 = at + i
    OBVIOUS
  <2> QED BY <2>1, <1>10
<1>12. v[k] \in 0..Power2(k) - 1
  BY <1>5
<1> QED BY <1>1, <1>11, <1>12 DEF x
----
(* The code of one delta *)

LEMMA ZeroIsNext ==
  ASSUME NEW data \in Seq({0, 1}), NEW at \in Nat
  PROVE  \/ ZeroAfter(data, at) = 0
         \/ /\ ZeroAfter(data, at) \in at + 1..Len(data)
            /\ data[ZeroAfter(data, at)] = 0
            /\ \A i \in at + 1..ZeroAfter(data, at) - 1 : data[i] = 1
<1> DEFINE zeros == {i \in at + 1..Len(data) : data[i] = 0}
           IsNext(i) == i \in zeros /\ \A j \in zeros : i <= j
           z == CHOOSE i \in zeros : \A j \in zeros : i <= j
<1>1. CASE zeros = {}
  BY <1>1 DEF ZeroAfter
<1>2. CASE zeros # {}
  <2>1. ZeroAfter(data, at) = z
    BY <1>2 DEF ZeroAfter
  <2>2. zeros \in SUBSET Nat
    OBVIOUS
  <2>3. \E i \in zeros : \A j \in zeros : i <= j
    <3> HIDE DEF zeros
    <3> QED BY <1>2, <2>2, Least
  <2>4. z \in zeros /\ \A j \in zeros : z <= j
    <3> HIDE DEF zeros
    <3> QED BY <2>3
  <2> HIDE DEF z
  <2>5. z \in at + 1..Len(data) /\ data[z] = 0
    BY <2>4
  <2>6. ASSUME NEW i \in at + 1..z - 1 PROVE data[i] = 1
    <3>1. i \in at + 1..Len(data) /\ i \in 1..Len(data) /\ ~(z <= i)
      BY <2>5
    <3>2. i \notin zeros
      BY <2>4, <3>1
    <3>3. data[i] \in {0, 1}
      BY <3>1
    <3> QED BY <3>1, <3>2, <3>3
  <2> QED BY <2>1, <2>5, <2>6
<1> QED BY <1>1, <1>2

LEMMA ZeroFound ==
  ASSUME NEW data \in Seq({0, 1}), NEW at \in Nat, NEW z \in at + 1..Len(data),
         data[z] = 0, \A i \in at + 1..z - 1 : data[i] = 1
  PROVE  ZeroAfter(data, at) = z
<1> DEFINE zeros == {i \in at + 1..Len(data) : data[i] = 0}
           y == CHOOSE i \in zeros : \A j \in zeros : i <= j
<1>1. z \in zeros
  OBVIOUS
<1>2. \A j \in zeros : z <= j /\ j \in Int
  <2> SUFFICES ASSUME NEW j \in zeros, ~(z <= j) PROVE FALSE
    OBVIOUS
  <2>1. j \in at + 1..z - 1
    OBVIOUS
  <2>2. data[j] = 1 /\ data[j] = 0
    BY <2>1
  <2> QED BY <2>2
<1>3. ZeroAfter(data, at) = y
  BY <1>1 DEF ZeroAfter
<1> HIDE DEF zeros
<1>4. y \in zeros /\ \A j \in zeros : y <= j
  BY <1>1, <1>2
<1> HIDE DEF y
<1>5. y <= z /\ z <= y /\ y \in Int
  BY <1>1, <1>2, <1>4
<1> QED BY <1>3, <1>5

\* The code of a delta has its quotient in ones, a zero, and its k lowest bits.
LEMMA CodeBits ==
  ASSUME NEW delta \in Nat, NEW k \in Nat, NEW q \in Nat, q = delta \div Power2(k)
  PROVE  LET code == DeltaBits(delta, k)
         IN /\ code \in Seq({0, 1}) /\ Len(code) = q + 1 + k
            /\ \A i \in 1..q : code[i] = 1
            /\ code[q + 1] = 0
            /\ \A i \in 1..k : code[q + 1 + i] = (delta \div Power2(i - 1)) % 2
<1> DEFINE ones == [i \in 1..q |-> 1]
           low == [i \in 1..k |-> (delta \div Power2(i - 1)) % 2]
<1>1. ones \in Seq({0, 1}) /\ Len(ones) = q /\ <<0>> \in Seq({0, 1}) /\ Len(<<0>>) = 1
  OBVIOUS
<1>2. \A i \in 1..k : (delta \div Power2(i - 1)) % 2 \in {0, 1}
  <2> SUFFICES ASSUME NEW i \in 1..k PROVE (delta \div Power2(i - 1)) % 2 \in {0, 1}
    OBVIOUS
  <2>1. PICK p \in Nat \ {0} : p = Power2(i - 1)
    <3>1. i - 1 \in Nat
      OBVIOUS
    <3> QED BY <3>1, Power2Def
  <2>2. delta \div p \in Int
    <3>1. delta \in Int
      OBVIOUS
    <3> QED BY <3>1, DivMod
  <2>3. (delta \div p) % 2 \in 0..2 - 1
    BY <2>2, DivMod
  <2> QED BY <2>1, <2>3
<1>3. low \in Seq({0, 1}) /\ Len(low) = k
  <2>1. low \in [1..k -> {0, 1}]
    BY <1>2
  <2> HIDE DEF low
  <2> QED BY <2>1
<1>4. DeltaBits(delta, k) = ones \o <<0>> \o low
  BY DEF DeltaBits
<1>5. /\ \A i \in 1..q : ones[i] = 1
      /\ \A i \in 1..k : low[i] = (delta \div Power2(i - 1)) % 2
  OBVIOUS
<1> HIDE DEF ones, low
<1> DEFINE half == ones \o <<0>>
<1>6. /\ half \in Seq({0, 1}) /\ Len(half) = q + 1 /\ half[q + 1] = 0
      /\ \A i \in 1..q : half[i] = 1
  BY <1>1, <1>5
<1> HIDE DEF half
<1>7. /\ half \o low \in Seq({0, 1}) /\ Len(half \o low) = q + 1 + k
      /\ \A i \in 1..q + 1 : (half \o low)[i] = half[i]
      /\ \A i \in 1..k : (half \o low)[q + 1 + i] = low[i]
  <2>1. PICK m \in Nat : m = q + 1
    OBVIOUS
  <2>2. half \in Seq({0, 1}) /\ Len(half) = m
    BY <1>6, <2>1
  <2>3. /\ half \o low \in Seq({0, 1}) /\ Len(half \o low) = m + k
        /\ \A i \in 1..m : (half \o low)[i] = half[i]
        /\ \A i \in 1..k : (half \o low)[m + i] = low[i]
    BY <1>3, <2>2
  <2> QED BY <2>1, <2>3
<1>8. DeltaBits(delta, k) = half \o low
  BY <1>4 DEF half
<1>9. \A i \in 1..q + 1 : i = q + 1 \/ i \in 1..q
  OBVIOUS
<1>10. q + 1 \in 1..q + 1 /\ \A i \in 1..q : i \in 1..q + 1
  OBVIOUS
<1> QED BY <1>5, <1>6, <1>7, <1>8, <1>10

\* The code of delta stands in data after the first at bits.
Coded(data, at, delta, k) ==
  /\ at + Len(DeltaBits(delta, k)) <= Len(data)
  /\ \A i \in 1..Len(DeltaBits(delta, k)) : data[at + i] = DeltaBits(delta, k)[i]

\* What the reader makes of it, with q its quotient.
Read(data, at, delta, k, q) ==
  /\ ZeroAfter(data, at) = at + q + 1 /\ at + q + 1 + k <= Len(data)
  /\ at + q + 1 + k = at + Len(DeltaBits(delta, k))
  /\ Remainder(data, at + q + 1, k) = delta % Power2(k)

\* What stands there is what the reader reads.
LEMMA CodeIsRead ==
  ASSUME NEW data \in Seq({0, 1}), NEW at \in Nat, NEW delta \in Nat, NEW k \in Nat,
         Coded(data, at, delta, k), NEW q \in Nat, q = delta \div Power2(k)
  PROVE  Read(data, at, delta, k, q)
<1> DEFINE code == DeltaBits(delta, k)
           z == at + q + 1
<1>1. /\ code \in Seq({0, 1}) /\ Len(code) = q + 1 + k
      /\ \A i \in 1..q : code[i] = 1
      /\ code[q + 1] = 0
      /\ \A i \in 1..k : code[q + 1 + i] = (delta \div Power2(i - 1)) % 2
  BY ZenonT(60), CodeBits
<1>2. at + Len(code) <= Len(data) /\ \A i \in 1..Len(code) : data[at + i] = code[i]
  BY DEF Coded
<1> HIDE DEF code
<1> DEFINE n == q + 1 + k
<1>9. Len(code) = n /\ n \in Nat
  BY <1>1
<1>10. Len(data) \in Nat /\ at + n <= Len(data)
  BY <1>2, <1>9
<1>3. z \in at + 1..Len(data) /\ z \in Nat /\ z + k <= Len(data) /\ z + k = at + Len(code)
  <2>1. z \in Nat /\ z >= at + 1 /\ z + k = at + n
    OBVIOUS
  <2>2. z <= Len(data) /\ z + k <= Len(data)
    BY <1>10, <2>1
  <2> QED BY <1>9, <1>10, <2>1, <2>2
<1>4. data[z] = 0
  <2>1. q + 1 \in 1..n /\ at + (q + 1) = z
    OBVIOUS
  <2> QED BY <1>1, <1>2, <1>9, <2>1
<1>5. \A i \in at + 1..z - 1 : data[i] = 1
  <2> SUFFICES ASSUME NEW i \in at + 1..z - 1 PROVE data[i] = 1
    OBVIOUS
  <2>1. i - at \in 1..q /\ i - at \in 1..n /\ at + (i - at) = i
    OBVIOUS
  <2>2. data[at + (i - at)] = code[i - at] /\ code[i - at] = 1
    BY <1>1, <1>2, <1>9, <2>1
  <2> QED BY <2>1, <2>2
<1>6. \A i \in 1..k : data[z + i] = (delta \div Power2(i - 1)) % 2
  <2> SUFFICES ASSUME NEW i \in 1..k PROVE data[z + i] = (delta \div Power2(i - 1)) % 2
    OBVIOUS
  <2>1. q + 1 + i \in 1..n /\ at + (q + 1 + i) = z + i
    OBVIOUS
  <2>2. data[at + (q + 1 + i)] = code[q + 1 + i]
    BY <1>2, <1>9, <2>1
  <2> QED BY <1>1, <2>1, <2>2
<1> HIDE DEF z
<1>7. ZeroAfter(data, at) = z
  BY <1>3, <1>4, <1>5, ZeroFound
<1>8. Remainder(data, z, k) = delta % Power2(k)
  BY <1>3, <1>6, RemainderOf
<1> QED BY <1>3, <1>7, <1>8 DEF z, code, Read

\* And what the reader reads stands there.
LEMMA ReadIsCode ==
  ASSUME NEW data \in Seq({0, 1}), NEW at \in Nat, NEW k \in Nat,
         NEW z \in at + 1..Len(data), z = ZeroAfter(data, at), z + k <= Len(data)
  PROVE  LET delta == (z - at - 1) * Power2(k) + Remainder(data, z, k)
         IN /\ delta \in Nat /\ Coded(data, at, delta, k)
            /\ at + Len(DeltaBits(delta, k)) = z + k
<1>1. PICK p \in Nat \ {0} : p = Power2(k)
  BY Power2Def
<1>2. PICK q \in Nat : q = z - at - 1
  OBVIOUS
<1>3. z \in Nat /\ z = at + q + 1
  BY <1>2
<1>4. PICK r \in 0..p - 1 :
        /\ r = Remainder(data, z, k)
        /\ \A i \in 1..k : ((q * p + r) \div Power2(i - 1)) % 2 = data[z + i]
  <2>1. /\ Remainder(data, z, k) \in 0..Power2(k) - 1
        /\ \A i \in 1..k :
             ((q * Power2(k) + Remainder(data, z, k)) \div Power2(i - 1)) % 2 = data[z + i]
    BY <1>3, BitsOf
  <2> QED BY <1>1, <2>1
<1>5. PICK delta \in Nat : delta = q * p + r /\ q * p = p * q
  <2>1. q * p \in Nat /\ q * p = p * q /\ r \in Nat
    OBVIOUS
  <2>2. q * p + r \in Nat
    BY <2>1
  <2> QED BY <2>1, <2>2
<1>6. q = delta \div Power2(k)
  <2>1. (p * q + r) \div p = q
    <3>1. q \in Int
      OBVIOUS
    <3> QED BY <3>1, QuotientOf
  <2> QED BY <1>1, <1>5, <2>1
<1> DEFINE code == DeltaBits(delta, k)
<1>7. /\ code \in Seq({0, 1}) /\ Len(code) = q + 1 + k
      /\ \A i \in 1..q : code[i] = 1
      /\ code[q + 1] = 0
      /\ \A i \in 1..k : code[q + 1 + i] = (delta \div Power2(i - 1)) % 2
  <2> HIDE DEF code
  <2>1. delta \in Nat /\ q \in Nat /\ k \in Nat
    OBVIOUS
  <2> QED BY ZenonT(60), <1>6, <2>1, CodeBits DEF code
<1> HIDE DEF code
<1>8. data[z] = 0 /\ \A i \in at + 1..z - 1 : data[i] = 1
  <2>1. z # 0
    BY <1>3
  <2> QED BY <2>1, ZeroIsNext
<1>9. at + Len(code) = z + k
  BY <1>3, <1>7
<1>10. ASSUME NEW i \in 1..Len(code) PROVE data[at + i] = code[i]
  <2>1. i \in 1..q \/ i = q + 1 \/ i - (q + 1) \in 1..k
    BY <1>7
  <2>2. CASE i \in 1..q
    <3>1. at + i \in at + 1..z - 1
      BY <1>3, <2>2
    <3> QED BY <1>7, <1>8, <2>2, <3>1
  <2>3. CASE i = q + 1
    <3>1. at + i = z
      BY <1>3, <2>3
    <3> QED BY <1>7, <1>8, <2>3, <3>1
  <2>4. CASE i - (q + 1) \in 1..k
    <3>1. z + (i - (q + 1)) = at + i /\ q + 1 + (i - (q + 1)) = i
      BY <1>3
    <3>2. data[z + (i - (q + 1))] = (delta \div Power2(i - (q + 1) - 1)) % 2
      BY <1>4, <1>5, <2>4
    <3>3. code[q + 1 + (i - (q + 1))] = (delta \div Power2(i - (q + 1) - 1)) % 2
      BY <1>7, <2>4
    <3> QED BY <3>1, <3>2, <3>3
  <2> QED BY <2>1, <2>2, <2>3, <2>4
<1>11. Coded(data, at, delta, k) /\ at + Len(DeltaBits(delta, k)) = z + k
  BY <1>9, <1>10 DEF Coded, code
<1>12. (z - at - 1) * Power2(k) + Remainder(data, z, k) = delta
  BY <1>1, <1>2, <1>4, <1>5
<1> QED BY <1>11, <1>12
----
(* The loops of the decoder and of the encoding *)

LEMMA Quotients ==
  ASSUME NEW delta \in Nat, NEW k \in Nat
  PROVE  /\ delta \div Power2(k) \in Nat /\ delta % Power2(k) \in 0..Power2(k) - 1
         /\ delta = (delta \div Power2(k)) * Power2(k) + (delta % Power2(k))
<1>1. PICK p \in Nat \ {0} : p = Power2(k)
  BY Power2Def
<1>2. delta = p * (delta \div p) + (delta % p) /\ delta % p \in 0..p - 1 /\ delta \div p \in Int
  <2>1. delta \in Int
    OBVIOUS
  <2> QED BY <2>1, DivMod
<1>3. delta \div p \in Nat
  OBVIOUS
<1>4. p * (delta \div p) = (delta \div p) * p
  BY <1>2
<1> QED BY <1>1, <1>2, <1>3, <1>4

Decoding(data) ==
  {s \in [err : {"none", "ErrInvalidRice"}, entries : Seq(Int), at : Nat] :
     s.err = "none" => s.entries # << >> /\ s.at <= Len(data)}

\* The delta the reader finds after the first at bits.
DeltaRead(data, at, k) ==
  (ZeroAfter(data, at) - at - 1) * Power2(k) + Remainder(data, ZeroAfter(data, at), k)

\* One more entry, of the zero, the delta and the sum it is made of.
Entry(bits, b, e, at, z, delta, sum) ==
  IF z = 0 \/ z + b.k > Len(b.data) \/ z - at - 1 >= Power2(bits - b.k)
     \/ sum >= Power2(bits) \/ delta = 0
  THEN Failed("ErrInvalidRice")
  ELSE [err |-> "none", entries |-> Append(e, sum), at |-> z + b.k]

LEMMA NextEntryIs ==
  ASSUME NEW b, NEW bits, NEW e, NEW at, NEW z, NEW delta, NEW sum,
         z = ZeroAfter(b.data, at), delta = DeltaRead(b.data, at, b.k),
         sum = e[Len(e)] + delta
  PROVE  NextEntry(bits, b, [err |-> "none", entries |-> e, at |-> at]) =
           Entry(bits, b, e, at, z, delta, sum)
<1> DEFINE got == [err |-> "none", entries |-> e, at |-> at]
<1>1. got.err = "none" /\ got.entries = e /\ got.at = at
  OBVIOUS
<1> HIDE DEF got
<1>2. delta = (z - at - 1) * Power2(b.k) + Remainder(b.data, z, b.k)
  BY DEF DeltaRead
<1>3. NextEntry(bits, b, got) = Entry(bits, b, e, at, z, delta, sum)
  BY <1>1, <1>2 DEF NextEntry, Entry
<1> QED BY <1>3 DEF got

LEMMA DecodesOn ==
  ASSUME NEW b, b.k \in Nat, b.data \in Seq({0, 1}), NEW bits, NEW s \in Decoding(b.data)
  PROVE  NextEntry(bits, b, s) \in Decoding(b.data)
<1>1. CASE s.err # "none"
  BY <1>1 DEF NextEntry
<1>2. CASE s.err = "none"
  <2>1. PICK e \in Seq(Int), at \in Nat :
          s = [err |-> "none", entries |-> e, at |-> at] /\ e # << >>
    BY <1>2 DEF Decoding
  <2>2. PICK z : z = ZeroAfter(b.data, at)
    OBVIOUS
  <2>3. z = 0 \/ z \in at + 1..Len(b.data)
    BY <2>2, ZeroIsNext
  <2>4. PICK delta : delta = DeltaRead(b.data, at, b.k)
    OBVIOUS
  <2>5. PICK sum : sum = e[Len(e)] + delta
    OBVIOUS
  <2>6. NextEntry(bits, b, s) = Entry(bits, b, e, at, z, delta, sum)
    BY <2>1, <2>2, <2>4, <2>5, NextEntryIs
  <2>7. Failed("ErrInvalidRice") \in Decoding(b.data)
    BY DEF Failed, Decoding
  <2>8. ASSUME z # 0, ~(z + b.k > Len(b.data))
        PROVE  [err |-> "none", entries |-> Append(e, sum), at |-> z + b.k] \in Decoding(b.data)
    <3>1. z \in Nat /\ z >= at + 1 /\ Len(b.data) \in Nat
      BY <2>3, <2>8
    <3>2. delta \in Int
      <4>1. Power2(b.k) \in Nat /\ Remainder(b.data, z, b.k) \in Nat
        BY <3>1, Power2Def, RemainderNat
      <4>2. (z - at - 1) * Power2(b.k) \in Int
        BY <3>1, <4>1
      <4> QED BY <2>2, <2>4, <4>1, <4>2 DEF DeltaRead
    <3>3. Len(e) \in 1..Len(e) /\ e[Len(e)] \in Int
      BY <2>1
    <3>4. sum \in Int
      BY <2>5, <3>2, <3>3
    <3>5. Append(e, sum) \in Seq(Int) /\ Append(e, sum) # << >>
      BY <3>4
    <3>6. z + b.k \in Nat /\ z + b.k <= Len(b.data)
      BY <2>8, <3>1
    <3> QED BY <3>5, <3>6 DEF Decoding
  <2> QED BY <2>6, <2>7, <2>8 DEF Entry
<1> QED BY <1>1, <1>2

\* f are the rounds of the decoder, and got its answer.
Decodes(f, b, width, max, got) ==
  /\ f[0] = [err |-> "none", entries |-> <<b.first>>, at |-> 0]
  /\ \A n \in Nat : f[n + 1] = NextEntry(width * ByteBits, b, f[n])
  /\ got = IF b.firstWidth # width THEN Failed("ErrInvalidRice")
           ELSE IF b.count + 1 > max THEN Failed("ErrDecodeLimit")
           ELSE IF b.count # 0 /\ ~ParameterFits(width * ByteBits, b)
           THEN Failed("ErrInvalidRice")
           ELSE IF f[b.count].err = "none" /\ ~Padded(b.data, f[b.count].at)
           THEN Failed("ErrInvalidRice")
           ELSE f[b.count]

LEMMA DecodeRounds ==
  ASSUME NEW b, b.k \in Nat, b.data \in Seq({0, 1}), b.count \in Nat, b.first \in Int,
         NEW width, NEW max
  PROVE  \E f \in [Nat -> Decoding(b.data)] : Decodes(f, b, width, max, DecodeRice(width, b, max))
<1> DEFINE S == Decoding(b.data)
           start == [err |-> "none", entries |-> <<b.first>>, at |-> 0]
           Step(s) == NextEntry(width * ByteBits, b, s)
           body == [s \in S |-> Step(s)]
           P(g) == g = [n \in Nat |-> IF n = 0 THEN start ELSE Step(g[n - 1])]
           g == CHOOSE x : P(x)
           T == {n \in Nat : g[n] \in S}
           Answer(got) ==
                IF b.firstWidth # width THEN Failed("ErrInvalidRice")
                ELSE IF b.count + 1 > max THEN Failed("ErrDecodeLimit")
                ELSE IF b.count # 0 /\ ~ParameterFits(width * ByteBits, b)
                THEN Failed("ErrInvalidRice")
                ELSE IF got.err = "none" /\ ~Padded(b.data, got.at)
                THEN Failed("ErrInvalidRice")
                ELSE got
<1>1. start \in S
  <2>1. <<b.first>> \in Seq(Int) /\ <<b.first>> # << >> /\ 0 <= Len(b.data)
    OBVIOUS
  <2> QED BY <2>1 DEF Decoding
<1>2. \A s \in S : Step(s) \in S
  BY DecodesOn
<1>3. DecodeRice(width, b, max) = Answer(g[b.count])
  BY DEF DecodeRice, Repeated
<1> HIDE DEF S, Step, start, Answer
<1>4. \E f \in [Nat -> S] : Rounds(f, start, body)
  <2>1. body \in [S -> S]
    BY <1>2
  <2> HIDE DEF body, P, g, T
  <2> QED BY <1>1, <2>1, RoundsExist, Zenon
<1>5. PICK f \in [Nat -> S] : f[0] = start /\ \A n \in Nat : f[n + 1] = Step(f[n])
  BY <1>4 DEF Rounds
<1>6. P(f)
  <2>1. \A n \in Nat : f[n] = IF n = 0 THEN start ELSE Step(f[n - 1])
    BY <1>5
  <2> QED BY <2>1
<1>7. P(g)
  BY <1>6
<1> HIDE DEF g
<1>8. g[0] = start /\ \A n \in Nat : g[n + 1] = Step(g[n])
  BY <1>7
<1>9. \A n \in Nat : n \in T
  <2>1. 0 \in T
    BY <1>1, <1>8
  <2>2. ASSUME NEW n \in Nat, n \in T PROVE n + 1 \in T
    <3>1. g[n] \in S /\ g[n + 1] = Step(g[n])
      BY <1>8, <2>2
    <3>2. g[n + 1] \in S
      BY <1>2, <3>1
    <3> QED BY <3>2
  <2> HIDE DEF T
  <2> QED BY <2>1, <2>2, Induction
<1>10. g \in [Nat -> S]
  BY <1>7, <1>9
<1> HIDE DEF T, body, P
<1>11. Decodes(g, b, width, max, DecodeRice(width, b, max))
  BY <1>3, <1>8 DEF Step, start, Answer, Decodes
<1> QED BY <1>10, <1>11 DEF S

Encoding == [i : Nat \ {0}, bits : Seq({0, 1})]

LEMMA EncodesOn ==
  ASSUME NEW list \in Seq(Int), StrictlyIncreasing(list), NEW k \in Nat, NEW s \in Encoding
  PROVE  EncodeStep(list, k, s) \in Encoding
<1>1. CASE s.i >= Len(list)
  BY <1>1 DEF EncodeStep
<1>2. CASE ~(s.i >= Len(list))
  <2>1. PICK i \in Nat \ {0}, bits \in Seq({0, 1}) : s = [i |-> i, bits |-> bits]
    BY DEF Encoding
  <2>2. i + 1 \in 2..Len(list) /\ (i + 1) - 1 = i /\ i \in 1..Len(list) /\ i + 1 \in 1..Len(list)
    BY <1>2, <2>1
  <2>3. list[i] < list[i + 1] /\ list[i] \in Int /\ list[i + 1] \in Int
    BY <2>2 DEF StrictlyIncreasing
  <2>4. PICK delta \in Nat : delta = list[i + 1] - list[i]
    BY <2>3
  <2>5. DeltaBits(delta, k) \in Seq({0, 1})
    <3>1. delta \div Power2(k) \in Nat
      BY Quotients
    <3> QED BY <3>1, CodeBits
  <2>6. EncodeStep(list, k, s) = [i |-> i + 1, bits |-> bits \o DeltaBits(delta, k)]
    BY <1>2, <2>1, <2>4 DEF EncodeStep
  <2>7. bits \o DeltaBits(delta, k) \in Seq({0, 1}) /\ i + 1 \in Nat \ {0}
    BY <2>5
  <2> QED BY <2>6, <2>7 DEF Encoding
<1> QED BY <1>1, <1>2

LEMMA EncodeRounds ==
  ASSUME NEW list \in Seq(Int), StrictlyIncreasing(list), Len(list) >= 1, NEW k \in Nat
  PROVE  \E f \in [Nat -> Encoding] :
           /\ f[0] = [i |-> 1, bits |-> << >>]
           /\ \A n \in Nat : f[n + 1] = EncodeStep(list, k, f[n])
           /\ Deltas(list, k) = f[Len(list) - 1].bits
<1> DEFINE S == Encoding
           start == [i |-> 1, bits |-> << >>]
           Step(s) == EncodeStep(list, k, s)
           body == [s \in S |-> Step(s)]
           P(g) == g = [n \in Nat |-> IF n = 0 THEN start ELSE Step(g[n - 1])]
           g == CHOOSE x : P(x)
           T == {n \in Nat : g[n] \in S}
<1>1. start \in S
  BY DEF Encoding
<1>2. \A s \in S : Step(s) \in S
  BY EncodesOn
<1>3. Deltas(list, k) = g[Len(list) - 1].bits
  BY DEF Deltas, Repeated
<1> HIDE DEF S, Step, start
<1>4. \E f \in [Nat -> S] : Rounds(f, start, body)
  <2>1. body \in [S -> S]
    BY <1>2
  <2> HIDE DEF body, P, g, T
  <2> QED BY <1>1, <2>1, RoundsExist, Zenon
<1>5. PICK f \in [Nat -> S] : f[0] = start /\ \A n \in Nat : f[n + 1] = Step(f[n])
  BY <1>4 DEF Rounds
<1>6. P(f)
  <2>1. \A n \in Nat : f[n] = IF n = 0 THEN start ELSE Step(f[n - 1])
    BY <1>5
  <2> QED BY <2>1
<1>7. P(g)
  BY <1>6
<1> HIDE DEF g
<1>8. g[0] = start /\ \A n \in Nat : g[n + 1] = Step(g[n])
  BY <1>7
<1>9. \A n \in Nat : n \in T
  <2>1. 0 \in T
    BY <1>1, <1>8
  <2>2. ASSUME NEW n \in Nat, n \in T PROVE n + 1 \in T
    <3>1. g[n] \in S /\ g[n + 1] = Step(g[n])
      BY <1>8, <2>2
    <3>2. g[n + 1] \in S
      BY <1>2, <3>1
    <3> QED BY <3>2
  <2> HIDE DEF T
  <2> QED BY <2>1, <2>2, Induction
<1>10. g \in [Nat -> S]
  BY <1>7, <1>9
<1> QED BY <1>3, <1>8, <1>10 DEF S, Step, start
----
(* One round of the decoder *)

\* What the decoder has after the entries e, with one more.
Longer(e, at, delta, k) ==
  [err |-> "none", entries |-> Append(e, e[Len(e)] + delta),
   at |-> at + Len(DeltaBits(delta, k))]

\* The sum fits its width.
Fits(last, delta, bits) == last + delta < Power2(bits)

\* A block the decoder may read: of bits, and a parameter they have room for.
Readable(b, bits) == b.k \in Nat /\ b.k <= bits /\ b.data \in Seq({0, 1})

\* The delta that may stand there next, after the entries e.
Follows(e, at, delta, b, bits) ==
  delta # 0 /\ Coded(b.data, at, delta, b.k) /\ Fits(e[Len(e)], delta, bits)

\* A delta that stands in the data is the one that is decoded.
LEMMA EntryDecoded ==
  ASSUME NEW b, NEW bits \in Nat, NEW e \in Seq(Int), NEW at \in Nat, NEW delta \in Nat,
         Readable(b, bits), e[Len(e)] \in Nat, Follows(e, at, delta, b, bits)
  PROVE  NextEntry(bits, b, [err |-> "none", entries |-> e, at |-> at]) =
           Longer(e, at, delta, b.k)
<1>1. PICK k \in Nat, last \in Nat : k = b.k /\ k <= bits /\ last = e[Len(e)]
  BY DEF Readable
<1> delta # 0 /\ Coded(b.data, at, delta, b.k) /\ Fits(last, delta, bits) /\ b.data \in Seq({0, 1})
  BY <1>1 DEF Follows, Readable
<1>2. PICK q \in Nat, r \in Nat :
        q = delta \div Power2(k) /\ r = delta % Power2(k) /\ delta = q * Power2(k) + r
  <2>1. PICK p \in Nat \ {0} : p = Power2(k)
    BY Power2Def
  <2>2. /\ delta \div Power2(k) \in Nat /\ delta % Power2(k) \in 0..Power2(k) - 1
        /\ delta = (delta \div Power2(k)) * Power2(k) + (delta % Power2(k))
    BY Quotients
  <2>3. delta % Power2(k) \in Nat
    BY <2>1, <2>2
  <2> QED BY <2>2, <2>3
<1>3. PICK z : z = ZeroAfter(b.data, at)
  OBVIOUS
<1>4. /\ z = at + q + 1 /\ z + k <= Len(b.data)
      /\ z + k = at + Len(DeltaBits(delta, k))
      /\ Remainder(b.data, z, k) = r
  <2>1. PICK data \in Seq({0, 1}) : data = b.data
    OBVIOUS
  <2>2. Coded(data, at, delta, k) /\ delta \in Nat
    BY <1>1, <2>1
  <2>3. Read(data, at, delta, k, q)
    <3>1. \A d \in Nat, x \in Nat :
            Coded(data, at, d, k) /\ x = d \div Power2(k) => Read(data, at, d, k, x)
      BY CodeIsRead
    <3>2. q = delta \div Power2(k) /\ delta \in Nat
      BY <1>2
    <3> QED BY <2>2, <3>1, <3>2
  <2> QED BY <1>2, <1>3, <2>1, <2>3 DEF Read
<1>5. z - at - 1 = q
  BY <1>4
<1>6. delta = DeltaRead(b.data, at, b.k)
  <2>1. DeltaRead(b.data, at, b.k) = (z - at - 1) * Power2(k) + Remainder(b.data, z, k)
    BY <1>1, <1>3 DEF DeltaRead
  <2> QED BY <1>2, <1>4, <1>5, <2>1
<1>7. NextEntry(bits, b, [err |-> "none", entries |-> e, at |-> at]) =
        Entry(bits, b, e, at, z, delta, last + delta)
  BY <1>1, <1>3, <1>6, NextEntryIs
<1>8. q < Power2(bits - k)
  <2>1. PICK m \in Nat : m = bits - k
    BY <1>1
  <2>2. PICK p \in Nat \ {0}, u \in Nat \ {0} : p = Power2(k) /\ u = Power2(m)
    BY Power2Def
  <2>3. Power2(bits) = u * p
    <3>1. m + k = bits
      BY <2>1
    <3> QED BY <2>2, <3>1, PowerSum
  <2>4. q * p < u * p
    <3>1. PICK x \in Nat, y \in Nat : x = q * p /\ y = u * p
      OBVIOUS
    <3>2. delta = x + r /\ last + delta < y
      BY <1>2, <2>2, <2>3, <3>1 DEF Fits
    <3>3. x < y
      BY <3>2
    <3> QED BY <3>1, <3>3
  <2>5. q < u
    <3> SUFFICES ASSUME ~(q < u) PROVE FALSE
      OBVIOUS
    <3>1. PICK h \in Nat : q = u + h
      <4>1. q - u \in Nat /\ q = u + (q - u)
        OBVIOUS
      <4> QED BY <4>1
    <3>2. q * p = u * p + h * p
      BY <3>1
    <3>3. PICK x \in Nat, y \in Nat : x = u * p /\ y = h * p
      OBVIOUS
    <3>4. x + y < x
      BY <2>4, <3>2, <3>3
    <3> QED BY <3>4
  <2> QED BY <2>1, <2>2, <2>5
<1>9. z # 0 /\ ~(z + k > Len(b.data)) /\ delta # 0
  BY <1>4
<1>10. ~(z - at - 1 >= Power2(bits - k))
  <2>1. bits - k \in Nat
    BY <1>1
  <2>2. Power2(bits - k) \in Nat
    BY <2>1, Power2Def
  <2> QED BY <1>5, <1>8, <2>2
<1>11. ~(last + delta >= Power2(bits))
  <2>1. Power2(bits) \in Nat
    BY Power2Def
  <2> QED BY <2>1 DEF Fits
<1>12. Entry(bits, b, e, at, z, delta, last + delta) =
         [err |-> "none", entries |-> Append(e, last + delta), at |-> z + b.k]
  BY <1>1, <1>9, <1>10, <1>11 DEF Entry
<1> QED BY <1>1, <1>4, <1>7, <1>12 DEF Longer

\* And one that is decoded stands in the data.
LEMMA EntryEncoded ==
  ASSUME NEW b, NEW bits \in Nat, NEW e \in Seq(Int), NEW at \in Nat, NEW next,
         b.k \in Nat, b.data \in Seq({0, 1}), e[Len(e)] \in Nat,
         next = NextEntry(bits, b, [err |-> "none", entries |-> e, at |-> at]),
         next.err = "none"
  PROVE  \E delta \in Nat : Follows(e, at, delta, b, bits) /\ next = Longer(e, at, delta, b.k)
<1>1. PICK k \in Nat : k = b.k
  OBVIOUS
<1> PICK last \in Nat : last = e[Len(e)]
  OBVIOUS
<1>2. PICK z : z = ZeroAfter(b.data, at)
  OBVIOUS
<1>3. PICK delta : delta = DeltaRead(b.data, at, b.k)
  OBVIOUS
<1>4. next = Entry(bits, b, e, at, z, delta, last + delta)
  BY <1>2, <1>3, NextEntryIs
<1>5. ~( \/ z = 0 \/ z + b.k > Len(b.data) \/ z - at - 1 >= Power2(bits - b.k)
         \/ last + delta >= Power2(bits) \/ delta = 0)
  <2>1. Failed("ErrInvalidRice").err # "none"
    BY DEF Failed
  <2> QED BY <1>4, <2>1 DEF Entry
<1>6. next = [err |-> "none", entries |-> Append(e, last + delta), at |-> z + b.k]
  BY <1>4, <1>5 DEF Entry
<1>7. z \in at + 1..Len(b.data) /\ z \in Nat /\ z + k <= Len(b.data)
  <2>1. z = 0 \/ z \in at + 1..Len(b.data)
    BY <1>2, ZeroIsNext
  <2>2. z \in Nat /\ Len(b.data) \in Nat
    BY <2>1
  <2> QED BY SMTT(30), <1>1, <1>5, <2>1, <2>2
<1>8. /\ delta \in Nat /\ Coded(b.data, at, delta, k)
      /\ at + Len(DeltaBits(delta, k)) = z + k
  <2>1. delta = (z - at - 1) * Power2(k) + Remainder(b.data, z, k)
    BY <1>1, <1>2, <1>3 DEF DeltaRead
  <2> QED BY ZenonT(60), <1>1, <1>2, <1>7, <2>1, ReadIsCode
<1>9. Fits(last, delta, bits)
  <2>1. Power2(bits) \in Nat
    BY Power2Def
  <2> QED BY SMTT(30), <1>5, <1>8, <2>1 DEF Fits
<1>10. Follows(e, at, delta, b, bits)
  BY <1>1, <1>5, <1>8, <1>9 DEF Follows
<1>11. next = Longer(e, at, delta, b.k)
  BY <1>1, <1>6, <1>8 DEF Longer
<1> QED BY <1>8, <1>10, <1>11
----
(* What the encoding is *)

Stands(data, c) == Len(c) <= Len(data) /\ \A i \in 1..Len(c) : data[i] = c[i]

LEMMA StandsApart ==
  ASSUME NEW data \in Seq({0, 1}), NEW c \in Seq({0, 1}), NEW d \in Seq({0, 1}),
         Stands(data, c \o d)
  PROVE  /\ Stands(data, c) /\ Len(c \o d) = Len(c) + Len(d)
         /\ Len(c) + Len(d) <= Len(data)
         /\ \A i \in 1..Len(d) : data[Len(c) + i] = d[i]
<1>1. PICK m \in Nat, n \in Nat, t \in Nat : m = Len(c) /\ n = Len(d) /\ t = Len(data)
  OBVIOUS
<1>2. /\ Len(c \o d) = m + n /\ \A i \in 1..m : (c \o d)[i] = c[i]
      /\ \A i \in 1..n : (c \o d)[m + i] = d[i]
  BY <1>1
<1>3. m + n <= t /\ \A i \in 1..m + n : data[i] = (c \o d)[i]
  BY <1>1, <1>2 DEF Stands
<1>4. \A i \in 1..m : i \in 1..m + n
  OBVIOUS
<1>5. \A i \in 1..n : m + i \in 1..m + n
  OBVIOUS
<1>6. m <= t
  BY <1>3
<1> QED BY <1>1, <1>2, <1>3, <1>4, <1>5, <1>6 DEF Stands

LEMMA StandsTogether ==
  ASSUME NEW data \in Seq({0, 1}), NEW c \in Seq({0, 1}), NEW d \in Seq({0, 1}),
         Stands(data, c), Len(c) + Len(d) <= Len(data),
         \A i \in 1..Len(d) : data[Len(c) + i] = d[i]
  PROVE  Stands(data, c \o d) /\ Len(c \o d) = Len(c) + Len(d)
<1>1. PICK m \in Nat, n \in Nat, t \in Nat : m = Len(c) /\ n = Len(d) /\ t = Len(data)
  OBVIOUS
<1>2. /\ Len(c \o d) = m + n /\ \A i \in 1..m : (c \o d)[i] = c[i]
      /\ \A i \in 1..n : (c \o d)[m + i] = d[i]
  BY <1>1
<1>3. ASSUME NEW i \in 1..m + n PROVE data[i] = (c \o d)[i]
  <2>1. CASE i \in 1..m
    BY <1>1, <1>2, <2>1 DEF Stands
  <2>2. CASE i - m \in 1..n
    <3>1. m + (i - m) = i
      OBVIOUS
    <3>2. data[m + (i - m)] = d[i - m]
      BY <1>1, <2>2
    <3>3. (c \o d)[m + (i - m)] = d[i - m]
      BY <1>2, <2>2
    <3> QED BY <3>1, <3>2, <3>3
  <2>3. i \in 1..m \/ i - m \in 1..n
    OBVIOUS
  <2> QED BY <2>1, <2>2, <2>3
<1> QED BY <1>1, <1>2, <1>3 DEF Stands

\* c[j] are the codes of the first j of n deltas.
Grows(c, list, k, n) ==
  /\ c[0] = << >>
  /\ \A j \in 0..n - 1 : c[j + 1] = c[j] \o DeltaBits(list[j + 2] - list[j + 1], k)

\* The encoding, delta by delta.
LEMMA EncodingGrows ==
  ASSUME NEW list \in Seq(Int), StrictlyIncreasing(list), NEW n \in Nat, Len(list) = n + 1,
         NEW k \in Nat
  PROVE  \E c \in [Nat -> Seq({0, 1})] : Deltas(list, k) = c[n] /\ Grows(c, list, k, n)
<1>1. PICK f \in [Nat -> Encoding] :
        /\ f[0] = [i |-> 1, bits |-> << >>]
        /\ \A m \in Nat : f[m + 1] = EncodeStep(list, k, f[m])
        /\ Deltas(list, k) = f[Len(list) - 1].bits
  <2>1. Len(list) >= 1
    OBVIOUS
  <2> QED BY <2>1, EncodeRounds
<1> DEFINE c == [j \in Nat |-> f[j].bits]
           T == {j \in Nat : j <= n => f[j].i = j + 1}
<1>2. ASSUME NEW j \in 0..n - 1, f[j].i = j + 1
      PROVE  f[j + 1] = [i |-> j + 2,
                         bits |-> f[j].bits \o DeltaBits(list[j + 2] - list[j + 1], k)]
  <2>1. f[j + 1] = EncodeStep(list, k, f[j])
    BY <1>1
  <2>2. ~(j + 1 >= Len(list)) /\ (j + 1) + 1 = j + 2
    OBVIOUS
  <2> QED BY <1>2, <2>1, <2>2 DEF EncodeStep
<1>3. 0 \in T
  <2>1. f[0].i = 1 /\ 0 + 1 = 1
    BY <1>1
  <2> QED BY <2>1
<1>4. ASSUME NEW j \in Nat, j \in T PROVE j + 1 \in T
  <2> SUFFICES ASSUME j + 1 <= n PROVE f[j + 1].i = (j + 1) + 1
    OBVIOUS
  <2>1. j \in 0..n - 1 /\ f[j].i = j + 1 /\ (j + 1) + 1 = j + 2
    BY <1>4
  <2>2. f[j + 1] = [i |-> j + 2,
                    bits |-> f[j].bits \o DeltaBits(list[j + 2] - list[j + 1], k)]
    BY <1>2, <2>1
  <2>3. f[j + 1].i = j + 2
    BY <2>2
  <2> QED BY <2>1, <2>3
<1>5. \A j \in Nat : j \in T
  <2> HIDE DEF T
  <2> QED BY <1>3, <1>4, Induction
<1>6. c \in [Nat -> Seq({0, 1})]
  BY DEF Encoding
<1>7. c[0] = << >> /\ Deltas(list, k) = c[n]
  <2>1. Len(list) - 1 = n /\ f[0].bits = << >>
    BY <1>1
  <2> QED BY <1>1, <2>1
<1>8. ASSUME NEW j \in 0..n - 1
      PROVE  c[j + 1] = c[j] \o DeltaBits(list[j + 2] - list[j + 1], k)
  <2>1. j \in Nat /\ j <= n /\ j + 1 \in Nat /\ j \in T
    BY <1>5
  <2>2. f[j].i = j + 1
    BY <2>1
  <2>3. f[j + 1] = [i |-> j + 2,
                    bits |-> f[j].bits \o DeltaBits(list[j + 2] - list[j + 1], k)]
    BY <1>2, <2>2
  <2>4. f[j + 1].bits = f[j].bits \o DeltaBits(list[j + 2] - list[j + 1], k)
    <3> DEFINE y == f[j].bits \o DeltaBits(list[j + 2] - list[j + 1], k)
    <3>1. f[j + 1] = [i |-> j + 2, bits |-> y]
      BY <2>3
    <3> HIDE DEF y
    <3>2. f[j + 1].bits = y
      BY <3>1
    <3> QED BY <3>2 DEF y
  <2> QED BY <2>1, <2>4
<1> HIDE DEF c
<1>9. Grows(c, list, k, n)
  BY <1>7, <1>8 DEF Grows
<1> QED BY <1>6, <1>7, <1>9

Padding(c) == (0 - Len(c)) % ByteBits
PaddedWith(data, c, p) ==
  Len(data) = Len(c) + p /\ Stands(data, c) /\ \A i \in 1..p : data[Len(c) + i] = 0

\* The codes of all deltas, and zeros up to a whole byte.
LEMMA DataAre ==
  ASSUME NEW list, NEW k, NEW c \in Seq({0, 1}), c = Deltas(list, k),
         NEW p \in Nat, p = Padding(c)
  PROVE  RiceData(list, k) \in Seq({0, 1}) /\ PaddedWith(RiceData(list, k), c, p)
<1> DEFINE zeros == [i \in 1..p |-> 0]
<1>1. RiceData(list, k) = c \o zeros
  BY DEF RiceData, Padding
<1>2. zeros \in Seq({0, 1}) /\ Len(zeros) = p /\ \A i \in 1..p : zeros[i] = 0
  OBVIOUS
<1> HIDE DEF zeros
<1>3. PICK m \in Nat : m = Len(c)
  OBVIOUS
<1>4. /\ c \o zeros \in Seq({0, 1}) /\ Len(c \o zeros) = m + p
      /\ \A i \in 1..m : (c \o zeros)[i] = c[i]
      /\ \A i \in 1..p : (c \o zeros)[m + i] = zeros[i]
  BY <1>2, <1>3
<1>5. m <= m + p
  OBVIOUS
<1> QED BY <1>1, <1>2, <1>3, <1>4, <1>5 DEF Stands, PaddedWith
----
(* What is encoded is decoded *)

Prefix(v, j) == [i \in 1..j |-> v[i]]

LEMMA PrefixGrows ==
  ASSUME NEW v, NEW j \in Nat, \A i \in 1..j + 1 : v[i] \in Int
  PROVE  /\ Prefix(v, j + 1) \in Seq(Int) /\ Len(Prefix(v, j + 1)) = j + 1
         /\ Prefix(v, j + 1)[j + 1] = v[j + 1]
         /\ Append(Prefix(v, j), v[j + 1]) = Prefix(v, j + 1)
<1>1. Prefix(v, j) \in Seq(Int) /\ Len(Prefix(v, j)) = j /\ \A i \in 1..j : Prefix(v, j)[i] = v[i]
  <2>1. \A i \in 1..j : i \in 1..j + 1
    OBVIOUS
  <2>2. Prefix(v, j) \in [1..j -> Int]
    BY <2>1 DEF Prefix
  <2> QED BY <2>2 DEF Prefix
<1>2. Prefix(v, j + 1) \in Seq(Int) /\ Len(Prefix(v, j + 1)) = j + 1 /\ \A i \in 1..j + 1 : Prefix(v, j + 1)[i] = v[i]
  <2>1. Prefix(v, j + 1) \in [1..j + 1 -> Int]
    BY DEF Prefix
  <2>2. j + 1 \in Nat
    OBVIOUS
  <2> QED BY <2>1, <2>2 DEF Prefix
<1>3. j + 1 \in 1..j + 1 /\ v[j + 1] \in Int
  OBVIOUS
<1>4. /\ Append(Prefix(v, j), v[j + 1]) \in Seq(Int) /\ Len(Append(Prefix(v, j), v[j + 1])) = j + 1
      /\ \A i \in 1..j + 1 : Append(Prefix(v, j), v[j + 1])[i] = v[i]
  <2>1. PICK x \in Int : x = v[j + 1]
    BY <1>3
  <2>2. /\ Append(Prefix(v, j), x) \in Seq(Int) /\ Len(Append(Prefix(v, j), x)) = j + 1
        /\ \A i \in 1..j : Append(Prefix(v, j), x)[i] = Prefix(v, j)[i]
        /\ Append(Prefix(v, j), x)[j + 1] = x
    BY <1>1
  <2>3. \A i \in 1..j + 1 : i = j + 1 \/ i \in 1..j
    OBVIOUS
  <2> QED BY <1>1, <2>1, <2>2, <2>3
<1>5. Append(Prefix(v, j), v[j + 1]) = Prefix(v, j + 1)
  <2>1. PICK w \in Seq(Int) : w = Append(Prefix(v, j), v[j + 1])
    BY <1>4
  <2>2. Len(w) = j + 1 /\ \A i \in 1..j + 1 : w[i] = Prefix(v, j + 1)[i]
    BY <1>2, <1>4, <2>1
  <2>3. w = Prefix(v, j + 1)
    BY <1>2, <2>2
  <2> QED BY <2>1, <2>3
<1>6. Prefix(v, j + 1)[j + 1] = v[j + 1]
  BY <1>2, <1>3
<1>7. Prefix(v, j + 1) \in Seq(Int) /\ Len(Prefix(v, j + 1)) = j + 1
  BY <1>2
<1> QED BY <1>5, <1>6, <1>7

\* The delta before entry j + 2 stands in the data after its first c[j] bits.
DeltaStands(c, list, k, j, data) ==
  \E delta \in Nat \ {0} : /\ delta = list[j + 2] - list[j + 1]
                           /\ Coded(data, Len(c[j]), delta, k)
                           /\ Len(c[j + 1]) = Len(c[j]) + Len(DeltaBits(delta, k))

\* Each delta of a list stands where the encoding put it.
LEMMA CodesStand ==
  ASSUME NEW list \in Seq(Int), StrictlyIncreasing(list), NEW n \in Nat, Len(list) = n + 1,
         NEW k \in Nat, NEW data \in Seq({0, 1}),
         NEW c \in [Nat -> Seq({0, 1})], Grows(c, list, k, n), Stands(data, c[n])
  PROVE  /\ \A j \in 0..n - 1 : DeltaStands(c, list, k, j, data)
         /\ n * (k + 1) <= Len(data)
<1>1. ASSUME NEW j \in 0..n - 1
      PROVE  \E delta \in Nat \ {0} : /\ delta = list[j + 2] - list[j + 1]
                                      /\ DeltaBits(delta, k) \in Seq({0, 1})
                                      /\ Len(DeltaBits(delta, k)) >= k + 1
  <2>1. j + 2 \in 2..Len(list) /\ (j + 2) - 1 = j + 1 /\ j + 1 \in 1..Len(list) /\ j + 2 \in 1..Len(list)
    OBVIOUS
  <2>2. list[j + 1] < list[j + 2] /\ list[j + 1] \in Int /\ list[j + 2] \in Int
    <3>1. \A i \in 2..Len(list) : list[i - 1] < list[i]
      BY DEF StrictlyIncreasing
    <3>2. list[(j + 2) - 1] < list[j + 2]
      BY <2>1, <3>1
    <3>3. list[j + 1] \in Int /\ list[j + 2] \in Int
      <4>1. \A i \in 1..Len(list) : list[i] \in Int
        OBVIOUS
      <4> QED BY <2>1, <4>1
    <3> QED BY <2>1, <3>2, <3>3
  <2>3. PICK delta \in Nat : delta = list[j + 2] - list[j + 1] /\ delta # 0
    BY SMTT(30), <2>2
  <2>4. PICK q \in Nat : q = delta \div Power2(k)
    BY Quotients
  <2>5. DeltaBits(delta, k) \in Seq({0, 1}) /\ Len(DeltaBits(delta, k)) = q + 1 + k
    BY ZenonT(60), <2>4, CodeBits
  <2>6. q + 1 + k >= k + 1
    OBVIOUS
  <2>7. delta \in Nat \ {0}
    BY <2>3
  <2> QED BY <2>3, <2>5, <2>6, <2>7
<1>2. ASSUME NEW j \in 0..n - 1, Stands(data, c[j + 1])
      PROVE  /\ Stands(data, c[j])
             /\ \E delta \in Nat \ {0} :
                  /\ delta = list[j + 2] - list[j + 1]
                  /\ Coded(data, Len(c[j]), delta, k)
                  /\ Len(c[j + 1]) = Len(c[j]) + Len(DeltaBits(delta, k))
  <2>1. PICK delta \in Nat \ {0} : /\ delta = list[j + 2] - list[j + 1]
                                   /\ DeltaBits(delta, k) \in Seq({0, 1})
    BY <1>1
  <2>2. PICK d \in Seq({0, 1}) : d = DeltaBits(delta, k)
    BY <2>1
  <2>3. PICK a \in Seq({0, 1}) : a = c[j]
    OBVIOUS
  <2>4. c[j + 1] = a \o d
    BY <2>1, <2>2, <2>3 DEF Grows
  <2>5. /\ Stands(data, a) /\ Len(a \o d) = Len(a) + Len(d)
        /\ Len(a) + Len(d) <= Len(data)
        /\ \A i \in 1..Len(d) : data[Len(a) + i] = d[i]
    BY <1>2, <2>4, StandsApart
  <2>6. Coded(data, Len(a), delta, k)
    BY <2>2, <2>5 DEF Coded
  <2>7. Len(c[j + 1]) = Len(a) + Len(DeltaBits(delta, k))
    BY <2>2, <2>4, <2>5
  <2> QED BY <2>1, <2>3, <2>5, <2>6, <2>7
<1> DEFINE T == {m \in Nat : m <= n => Stands(data, c[n - m])}
           U == {j \in Nat : j <= n => j * (k + 1) <= Len(c[j])}
<1>3. \A m \in Nat : m \in T
  <2>1. 0 \in T
    <3>1. n - 0 = n
      OBVIOUS
    <3> QED BY <3>1
  <2>2. ASSUME NEW m \in Nat, m \in T PROVE m + 1 \in T
    <3> SUFFICES ASSUME m + 1 <= n PROVE Stands(data, c[n - (m + 1)])
      OBVIOUS
    <3>1. n - (m + 1) \in 0..n - 1 /\ (n - (m + 1)) + 1 = n - m /\ m <= n
      OBVIOUS
    <3>2. Stands(data, c[n - m])
      BY <2>2, <3>1
    <3> QED BY <1>2, <3>1, <3>2
  <2> HIDE DEF T
  <2> QED BY <2>1, <2>2, Induction
<1>4. \A j \in 0..n : Stands(data, c[j])
  <2> SUFFICES ASSUME NEW j \in 0..n PROVE Stands(data, c[j])
    OBVIOUS
  <2>1. n - j \in Nat /\ n - j <= n /\ n - (n - j) = j
    OBVIOUS
  <2>2. n - j \in T
    <3> HIDE DEF T
    <3> QED BY <1>3, <2>1
  <2> QED BY <2>1, <2>2
<1>5. \A j \in 0..n - 1 :
        \E delta \in Nat \ {0} :
          /\ delta = list[j + 2] - list[j + 1]
          /\ Coded(data, Len(c[j]), delta, k)
          /\ Len(c[j + 1]) = Len(c[j]) + Len(DeltaBits(delta, k))
  <2> SUFFICES ASSUME NEW j \in 0..n - 1
               PROVE  \E delta \in Nat \ {0} :
                        /\ delta = list[j + 2] - list[j + 1]
                        /\ Coded(data, Len(c[j]), delta, k)
                        /\ Len(c[j + 1]) = Len(c[j]) + Len(DeltaBits(delta, k))
    OBVIOUS
  <2>1. j + 1 \in 0..n
    OBVIOUS
  <2> QED BY <1>2, <1>4, <2>1
<1>6. \A j \in Nat : j \in U
  <2>1. 0 \in U
    <3>1. Len(c[0]) = 0 /\ 0 * (k + 1) = 0
      BY DEF Grows
    <3> QED BY <3>1
  <2>2. ASSUME NEW j \in Nat, j \in U PROVE j + 1 \in U
    <3> SUFFICES ASSUME j + 1 <= n PROVE (j + 1) * (k + 1) <= Len(c[j + 1])
      OBVIOUS
    <3>1. j \in 0..n - 1 /\ j * (k + 1) <= Len(c[j])
      BY <2>2
    <3>2. PICK delta \in Nat \ {0} : /\ delta = list[j + 2] - list[j + 1]
                                     /\ Len(c[j + 1]) = Len(c[j]) + Len(DeltaBits(delta, k))
      BY <1>5, <3>1
    <3>3. PICK d \in Nat : d = Len(DeltaBits(delta, k)) /\ d >= k + 1
      <4>1. DeltaBits(delta, k) \in Seq({0, 1}) /\ Len(DeltaBits(delta, k)) >= k + 1
        BY <1>1, <3>1, <3>2
      <4> QED BY <4>1
    <3>4. PICK a \in Nat, x \in Nat : a = Len(c[j]) /\ x = j * (k + 1)
      <4>1. Len(c[j]) \in Nat /\ j * (k + 1) \in Nat
        OBVIOUS
      <4> QED BY <4>1
    <3>5. (j + 1) * (k + 1) = x + (k + 1)
      BY <3>4
    <3>6. x + (k + 1) <= a + d
      BY <3>1, <3>3, <3>4
    <3> QED BY <3>2, <3>3, <3>4, <3>5, <3>6
  <2> HIDE DEF U
  <2> QED BY <2>1, <2>2, Induction
<1>7. n * (k + 1) <= Len(data)
  <2>1. n \in U
    <3> HIDE DEF U
    <3> QED BY <1>6
  <2>2. n * (k + 1) <= Len(c[n])
    BY <2>1
  <2>3. Len(c[n]) <= Len(data)
    BY DEF Stands
  <2>4. PICK x \in Nat, y \in Nat, z \in Nat : x = n * (k + 1) /\ y = Len(c[n]) /\ z = Len(data)
    <3>1. n * (k + 1) \in Nat /\ Len(data) \in Nat
      OBVIOUS
    <3>2. c[n] \in Seq({0, 1})
      OBVIOUS
    <3>3. Len(c[n]) \in Nat
      BY <3>2
    <3> QED BY <3>1, <3>3
  <2> QED BY <2>2, <2>3, <2>4
<1> QED BY <1>5, <1>7 DEF DeltaStands

\* g are the rounds of the decoder of b, from first on.
DecodingRounds(g, b, bits, first) ==
  /\ g[0] = [err |-> "none", entries |-> <<first>>, at |-> 0]
  /\ \A j \in Nat : g[j + 1] = NextEntry(bits, b, g[j])

Below(list, top) == \A i \in 1..Len(list) : list[i] \in Nat /\ list[i] < top

\* The codes c of list stand in the data of b, and g are the rounds of its decoder.
Encodes(b, bits, list, n, c, g) ==
  /\ StrictlyIncreasing(list) /\ Len(list) = n + 1 /\ Below(list, Power2(bits))
  /\ Readable(b, bits)
  /\ Grows(c, list, b.k, n) /\ Stands(b.data, c[n]) /\ DecodingRounds(g, b, bits, list[1])

\* Round by round, the decoder finds the entries of a list in its encoding.
LEMMA RoundsDecode ==
  ASSUME NEW list \in Seq(Int), NEW n \in Nat, NEW bits \in Nat, NEW b,
         NEW c \in [Nat -> Seq({0, 1})], NEW g, Encodes(b, bits, list, n, c, g)
  PROVE  g[n] = [err |-> "none", entries |-> list, at |-> Len(c[n])]
<1> /\ StrictlyIncreasing(list) /\ Len(list) = n + 1 /\ Below(list, Power2(bits))
    /\ Readable(b, bits)
    /\ Grows(c, list, b.k, n) /\ Stands(b.data, c[n]) /\ DecodingRounds(g, b, bits, list[1])
  BY DEF Encodes
<1> DEFINE Good(j) == g[j] = [err |-> "none", entries |-> Prefix(list, j + 1), at |-> Len(c[j])]
           T == {j \in Nat : j <= n => Good(j)}
<1>1. \A i \in 1..n + 1 : list[i] \in Int
  BY DEF Below
<1>2. 0 \in T
  <2>1. Prefix(list, 1) = <<list[1]>>
    BY DEF Prefix
  <2>2. Len(c[0]) = 0 /\ 0 + 1 = 1
    BY DEF Grows
  <2> QED BY <2>1, <2>2 DEF DecodingRounds
<1>3. ASSUME NEW j \in Nat, j \in T PROVE j + 1 \in T
  <2> SUFFICES ASSUME j + 1 <= n PROVE Good(j + 1)
    <3> HIDE DEF Good
    <3> QED OBVIOUS
  <2>1. j \in 0..n - 1 /\ Good(j)
    BY <1>3
  <2>2. PICK delta \in Nat \ {0} :
          /\ delta = list[j + 2] - list[j + 1]
          /\ Coded(b.data, Len(c[j]), delta, b.k)
          /\ Len(c[j + 1]) = Len(c[j]) + Len(DeltaBits(delta, b.k))
    <3>1. PICK data \in Seq({0, 1}), k \in Nat : data = b.data /\ k = b.k
      BY DEF Readable
    <3>2. Grows(c, list, k, n) /\ Stands(data, c[n])
      BY <3>1
    <3>3. DeltaStands(c, list, k, j, data)
      BY <2>1, <3>2, CodesStand
    <3> QED BY <3>1, <3>3 DEF DeltaStands
  <2>3. PICK last \in Nat, next \in Nat :
          last = list[j + 1] /\ next = list[j + 2] /\ next < Power2(bits)
    <3>1. j + 1 \in 1..Len(list) /\ j + 2 \in 1..Len(list)
      OBVIOUS
    <3> QED BY <3>1 DEF Below
  <2>4. last + delta = next
    <3>1. delta = next - last
      BY <2>2, <2>3
    <3> QED BY <3>1
  <2>5. PICK at \in Nat : at = Len(c[j])
    <3>1. c[j] \in Seq({0, 1})
      OBVIOUS
    <3> QED BY <3>1
  <2>6. PICK e \in Seq(Int) :
          /\ e = Prefix(list, j + 1) /\ last = e[Len(e)]
          /\ Append(e, next) = Prefix(list, (j + 1) + 1)
    <3>1. /\ Prefix(list, j + 1) \in Seq(Int) /\ Len(Prefix(list, j + 1)) = j + 1
          /\ Prefix(list, j + 1)[j + 1] = list[j + 1]
      <4>1. \A i \in 1..j + 1 : list[i] \in Int
        <5>1. \A i \in 1..j + 1 : i \in 1..n + 1
          OBVIOUS
        <5> QED BY <1>1, <5>1
      <4> QED BY <4>1, PrefixGrows
    <3>2. Append(Prefix(list, j + 1), list[(j + 1) + 1]) = Prefix(list, (j + 1) + 1)
      <4>1. \A i \in 1..(j + 1) + 1 : list[i] \in Int
        <5>1. \A i \in 1..(j + 1) + 1 : i \in 1..n + 1
          OBVIOUS
        <5> QED BY <1>1, <5>1
      <4>2. j + 1 \in Nat
        OBVIOUS
      <4> QED BY <4>1, <4>2, PrefixGrows
    <3>3. (j + 1) + 1 = j + 2
      OBVIOUS
    <3> QED BY <2>3, <3>1, <3>2, <3>3
  <2>7. NextEntry(bits, b, [err |-> "none", entries |-> e, at |-> at]) =
          Longer(e, at, delta, b.k)
    <3>1. Coded(b.data, at, delta, b.k) /\ last = e[Len(e)]
      BY <2>2, <2>5, <2>6
    <3>2. Fits(last, delta, bits)
      BY <2>3, <2>4 DEF Fits
    <3>3. Follows(e, at, delta, b, bits) /\ e[Len(e)] \in Nat
      BY <3>1, <3>2 DEF Follows
    <3> QED BY ZenonT(60), <3>3, EntryDecoded
  <2>8. g[j + 1] = NextEntry(bits, b, [err |-> "none", entries |-> e, at |-> at])
    BY <2>1, <2>5, <2>6 DEF DecodingRounds
  <2>9. Longer(e, at, delta, b.k) =
          [err |-> "none", entries |-> Prefix(list, (j + 1) + 1), at |-> Len(c[j + 1])]
    <3>1. e[Len(e)] + delta = next
      BY <2>4, <2>6
    <3>2. Append(e, e[Len(e)] + delta) = Prefix(list, (j + 1) + 1)
      BY <2>6, <3>1
    <3>3. at + Len(DeltaBits(delta, b.k)) = Len(c[j + 1])
      BY <2>2, <2>5
    <3> QED BY <3>2, <3>3 DEF Longer
  <2> QED BY <2>7, <2>8, <2>9
<1>4. \A j \in Nat : j \in T
  <2> HIDE DEF T
  <2> QED BY <1>2, <1>3, Induction
<1>5. Good(n)
  <2>1. n \in T
    <3> HIDE DEF T
    <3> QED BY <1>4
  <2> QED BY <2>1
<1>6. Prefix(list, n + 1) = list
  BY DEF Prefix
<1> QED BY <1>5, <1>6

\* Every list that is encoded is decoded, up to the limit on its length, whatever
\* its length, the widths of its entries and of a byte, and the Rice parameter.
LEMMA EncodedDecodes ==
  ASSUME NEW list \in Seq(Int), StrictlyIncreasing(list), Len(list) >= 1,
         Below(list, Power2(Width * ByteBits)),
         NEW k \in Width * ByteBits - QuotientBits..Width * ByteBits - 2
  PROVE  EncodedIsDecoded(list, k)
<1>1. PICK bits \in Nat : bits = Width * ByteBits
  BY RiceAssumption, WidthAssumption
<1>2. k \in Nat /\ k <= bits /\ k \in bits - QuotientBits..bits - 2
  BY <1>1, RiceAssumption, WidthAssumption
<1>3. list \in Seq(Int) /\ Below(list, Power2(bits))
  BY <1>1
<1>4. PICK n \in Nat : Len(list) = n + 1 /\ n = Len(list) - 1
  <2>1. Len(list) \in Nat /\ Len(list) - 1 \in Nat /\ Len(list) = (Len(list) - 1) + 1
    OBVIOUS
  <2> QED BY <2>1
<1>5. PICK c \in [Nat -> Seq({0, 1})] :
        Deltas(list, k) = c[n] /\ Grows(c, list, k, n)
  BY <1>2, <1>3, <1>4, EncodingGrows
<1>6. PICK code \in Seq({0, 1}) : code = c[n]
  OBVIOUS
<1>7. PICK p \in Nat : p = Padding(code) /\ p < ByteBits
  <2>1. 0 - Len(code) \in Int
    OBVIOUS
  <2>2. (0 - Len(code)) % ByteBits \in 0..ByteBits - 1
    BY <2>1, RiceAssumption, DivMod
  <2> QED BY <2>2, RiceAssumption DEF Padding
<1>8. PICK data \in Seq({0, 1}) :
        data = RiceData(list, k) /\ PaddedWith(data, code, p)
  <2>1. code = Deltas(list, k)
    BY <1>5, <1>6
  <2> QED BY <1>7, <2>1, DataAre
<1> DEFINE b == RiceBlock(Width, list[1], k, n, data)
           got == DecodeRice(Width, b, MaxEntries)
<1>9. /\ b.firstWidth = Width /\ b.first = list[1] /\ b.k = k /\ b.count = n
      /\ b.data = data
  BY DEF RiceBlock
<1>10. EncodedIsDecoded(list, k) =
         IF Len(list) > MaxEntries THEN got.err = "ErrDecodeLimit"
         ELSE got.err = "none" /\ got.entries = list
  BY <1>4, <1>8 DEF EncodedIsDecoded
<1> HIDE DEF b
<1>11. PICK g \in [Nat -> Decoding(b.data)] : Decodes(g, b, Width, MaxEntries, got)
  <2>1. b.k \in Nat /\ b.data \in Seq({0, 1}) /\ b.count \in Nat
    BY <1>2, <1>9
  <2>2. b.first \in Int
    <3>1. 1 \in 1..Len(list)
      BY <1>4
    <3> QED BY <1>3, <1>9, <3>1 DEF Below
  <2> QED BY <2>1, <2>2, DecodeRounds
<1> HIDE DEF got
<1>12. CASE n + 1 > MaxEntries
  BY <1>4, <1>9, <1>10, <1>11, <1>12 DEF Failed, Decodes
<1>13. CASE ~(n + 1 > MaxEntries)
  <2>1. g[n] = [err |-> "none", entries |-> list, at |-> Len(c[n])]
    <3>1. Grows(c, list, b.k, n) /\ Below(list, Power2(bits))
      BY <1>3, <1>5, <1>9
    <3>2. Stands(b.data, c[n]) /\ Readable(b, bits)
      BY <1>2, <1>6, <1>8, <1>9 DEF PaddedWith, Readable
    <3>3. DecodingRounds(g, b, bits, list[1])
      BY <1>1, <1>9, <1>11 DEF Decodes, DecodingRounds
    <3>4. list \in Seq(Int) /\ Len(list) = n + 1
      BY <1>3, <1>4
    <3>5. c \in [Nat -> Seq({0, 1})] /\ n \in Nat /\ bits \in Nat
      OBVIOUS
    <3>6. Encodes(b, bits, list, n, c, g)
      BY <3>1, <3>2, <3>3, <3>4 DEF Encodes
    <3>7. \A h : Encodes(b, bits, list, n, c, h) =>
                   h[n] = [err |-> "none", entries |-> list, at |-> Len(c[n])]
      BY ZenonT(60), <3>4, <3>5, RoundsDecode
    <3> QED BY <3>6, <3>7
  <2>2. n # 0 => ParameterFits(Width * ByteBits, b)
    <3>1. Stands(data, c[n]) /\ list \in Seq(Int)
      BY <1>3, <1>6, <1>8 DEF PaddedWith
    <3>2. n * (k + 1) <= Len(data)
      BY <1>2, <1>4, <1>5, <3>1, CodesStand
    <3> QED BY <1>1, <1>2, <1>9, <3>2 DEF ParameterFits
  <2>3. Padded(data, Len(code))
    <3>1. PICK m \in Nat : m = Len(code)
      OBVIOUS
    <3>2. Len(data) = m + p /\ (m + p) - m = p
      BY <1>8, <3>1 DEF PaddedWith
    <3>3. ASSUME NEW i \in m + 1..m + p PROVE data[i] = 0
      <4>1. i - m \in 1..p /\ m + (i - m) = i
        OBVIOUS
      <4>2. data[m + (i - m)] = 0
        BY <1>8, <3>1, <4>1 DEF PaddedWith
      <4> QED BY <4>1, <4>2
    <3> QED BY <1>7, <3>1, <3>2, <3>3 DEF Padded
  <2>4. got = g[n]
    <3>1. g[n].err = "none" /\ g[n].at = Len(code)
      BY <1>6, <2>1
    <3> QED BY <1>9, <1>11, <1>13, <2>2, <2>3, <3>1 DEF Decodes
  <2>5. got.err = "none" /\ got.entries = list
    BY <2>1, <2>4
  <2> QED BY <1>4, <1>10, <1>13, <2>5
<1> QED BY <1>12, <1>13
----
(* What is decoded is encoded *)

LEMMA GrowOne ==
  ASSUME NEW list, NEW k, NEW n \in Nat, NEW c \in [Nat -> Seq({0, 1})],
         NEW d \in [Nat -> Seq({0, 1})], Grows(c, list, k, n), Grows(d, list, k, n)
  PROVE  c[n] = d[n]
<1> DEFINE T == {j \in Nat : j <= n => c[j] = d[j]}
<1>1. 0 \in T
  BY DEF Grows
<1>2. ASSUME NEW j \in Nat, j \in T PROVE j + 1 \in T
  <2> SUFFICES ASSUME j + 1 <= n PROVE c[j + 1] = d[j + 1]
    OBVIOUS
  <2>1. j \in 0..n - 1 /\ c[j] = d[j]
    BY <1>2
  <2>2. /\ c[j + 1] = c[j] \o DeltaBits(list[j + 2] - list[j + 1], k)
        /\ d[j + 1] = d[j] \o DeltaBits(list[j + 2] - list[j + 1], k)
    BY <2>1 DEF Grows
  <2> QED BY <2>1, <2>2
<1>3. n \in T
  <2> HIDE DEF T
  <2> QED BY <1>1, <1>2, Induction
<1> QED BY <1>3

\* After j rounds, the decoder has a sorted list that fits, and has read its codes.
Sorted(e, first, top, j) ==
  /\ Len(e) = j + 1 /\ StrictlyIncreasing(e) /\ Below(e, top) /\ e[1] = first
HasRead(e, at, data, k, j) ==
  \E c \in [Nat -> Seq({0, 1})] :
    Grows(c, e, k, j) /\ Stands(data, c[j]) /\ Len(c[j]) = at

LEMMA AppendIs ==
  ASSUME NEW e \in Seq(Int), NEW x \in Int, NEW j \in Nat, Len(e) = j + 1
  PROVE  \E w \in Seq(Int) : /\ w = Append(e, x) /\ Len(w) = j + 2 /\ w[j + 2] = x
                             /\ \A i \in 1..j + 1 : w[i] = e[i]
<1>1. PICK n \in Nat : n = j + 1 /\ n + 1 = j + 2
  OBVIOUS
<1>2. /\ Append(e, x) \in Seq(Int) /\ Len(Append(e, x)) = n + 1 /\ Append(e, x)[n + 1] = x
      /\ \A i \in 1..n : Append(e, x)[i] = e[i]
  BY <1>1
<1> QED BY <1>1, <1>2

LEMMA SortedOn ==
  ASSUME NEW e \in Seq(Int), NEW first, NEW top, NEW j \in Nat, Sorted(e, first, top, j),
         NEW x \in Nat, e[Len(e)] < x, x < top
  PROVE  Sorted(Append(e, x), first, top, j + 1)
<1>1. PICK w \in Seq(Int) : /\ w = Append(e, x) /\ Len(w) = j + 2 /\ w[j + 2] = x
                            /\ \A i \in 1..j + 1 : w[i] = e[i]
  <2>1. Len(e) = j + 1 /\ x \in Int
    BY DEF Sorted
  <2> QED BY ZenonT(60), <2>1, AppendIs
<1>2. /\ Len(e) = j + 1 /\ e[j + 1] < x /\ e[1] = first
      /\ \A i \in 2..j + 1 : e[i - 1] < e[i]
      /\ \A i \in 1..j + 1 : e[i] \in Nat /\ e[i] < top
  BY DEF Sorted, StrictlyIncreasing, Below
<1>3. Len(w) = j + 2 /\ w[j + 2] = x /\ \A i \in 1..j + 1 : w[i] = e[i]
  BY <1>1
<1>4. ASSUME NEW i \in 2..j + 2 PROVE w[i - 1] < w[i]
  <2>1. CASE i = j + 2
    <3>1. i - 1 = j + 1 /\ j + 1 \in 1..j + 1
      BY <2>1
    <3>2. w[j + 1] = e[j + 1] /\ w[i] = x
      BY <1>3, <2>1, <3>1
    <3> QED BY <1>2, <3>1, <3>2
  <2>2. CASE i # j + 2
    <3>1. i \in 2..j + 1 /\ i - 1 \in 1..j + 1 /\ i \in 1..j + 1
      BY <2>2
    <3>2. w[i - 1] = e[i - 1] /\ w[i] = e[i] /\ e[i - 1] < e[i]
      BY <1>2, <1>3, <3>1
    <3> QED BY <3>2
  <2> QED BY <2>1, <2>2
<1>5. ASSUME NEW i \in 1..j + 2 PROVE w[i] \in Nat /\ w[i] < top
  <2>1. i = j + 2 \/ i \in 1..j + 1
    OBVIOUS
  <2> QED BY <1>2, <1>3, <2>1
<1>6. w[1] = first
  <2>1. 1 \in 1..j + 1
    OBVIOUS
  <2> QED BY <1>2, <1>3, <2>1
<1>7. j + 2 = (j + 1) + 1
  OBVIOUS
<1>8. StrictlyIncreasing(w) /\ Below(w, top)
  BY <1>3, <1>4, <1>5 DEF StrictlyIncreasing, Below
<1> QED BY <1>1, <1>3, <1>6, <1>7, <1>8 DEF Sorted

LEMMA ReadsOneMore ==
  ASSUME NEW data \in Seq({0, 1}), NEW k \in Nat, NEW j \in Nat, NEW e \in Seq(Int),
         Len(e) = j + 1, NEW at \in Nat, HasRead(e, at, data, k, j),
         NEW delta \in Nat, Coded(data, at, delta, k), NEW x \in Int, x - e[j + 1] = delta
  PROVE  HasRead(Append(e, x), at + Len(DeltaBits(delta, k)), data, k, j + 1)
<1>1. PICK c \in [Nat -> Seq({0, 1})] :
        Grows(c, e, k, j) /\ Stands(data, c[j]) /\ Len(c[j]) = at
  BY DEF HasRead
<1>2. PICK code \in Seq({0, 1}) : code = DeltaBits(delta, k)
  <2>1. delta \div Power2(k) \in Nat
    BY Quotients
  <2> QED BY <2>1, CodeBits
<1>3. PICK w \in Seq(Int) : /\ w = Append(e, x) /\ Len(w) = j + 2 /\ w[j + 2] = x
                            /\ \A i \in 1..j + 1 : w[i] = e[i]
  BY ZenonT(60), AppendIs
<1>4. Len(w) = j + 2 /\ w[j + 2] = x /\ \A i \in 1..j + 1 : w[i] = e[i]
  BY <1>3
<1>5. PICK a \in Seq({0, 1}) : a = c[j]
  OBVIOUS
<1> DEFINE d == [i \in Nat |-> IF i = j + 1 THEN a \o code ELSE c[i]]
<1>6. d \in [Nat -> Seq({0, 1})]
  <2>1. a \o code \in Seq({0, 1})
    OBVIOUS
  <2> QED BY <2>1
<1>7. d[j + 1] = a \o code /\ \A i \in 0..j : d[i] = c[i]
  <2>1. \A i \in 0..j : i \in Nat /\ i # j + 1
    OBVIOUS
  <2>2. j + 1 \in Nat
    OBVIOUS
  <2> QED BY <2>1, <2>2
<1> HIDE DEF d
<1>8. ASSUME NEW i \in 0..j PROVE d[i + 1] = d[i] \o DeltaBits(w[i + 2] - w[i + 1], k)
  <2>1. CASE i = j
    <3>1. w[i + 2] = x /\ w[i + 1] = e[j + 1]
      <4>1. j + 1 \in 1..j + 1
        OBVIOUS
      <4> QED BY <1>4, <2>1, <4>1
    <3>2. w[i + 2] - w[i + 1] = delta
      BY <3>1
    <3>3. d[i + 1] = a \o code /\ d[i] = a
      BY <1>5, <1>7, <2>1
    <3> QED BY <1>2, <3>2, <3>3
  <2>2. CASE i # j
    <3>1. i \in 0..j - 1 /\ i + 1 \in 1..j + 1 /\ i + 2 \in 1..j + 1 /\ i + 1 \in 0..j
      BY <2>2
    <3>2. w[i + 2] = e[i + 2] /\ w[i + 1] = e[i + 1]
      BY <1>4, <3>1
    <3>3. d[i + 1] = c[i + 1] /\ d[i] = c[i]
      BY <1>7, <3>1
    <3>4. c[i + 1] = c[i] \o DeltaBits(e[i + 2] - e[i + 1], k)
      BY <1>1, <3>1 DEF Grows
    <3> QED BY <3>2, <3>3, <3>4
  <2> QED BY <2>1, <2>2
<1>9. Grows(d, w, k, j + 1)
  <2>1. d[0] = << >>
    <3>1. 0 \in 0..j
      OBVIOUS
    <3> QED BY <1>1, <1>7, <3>1 DEF Grows
  <2>2. \A i \in 0..(j + 1) - 1 : i \in 0..j
    OBVIOUS
  <2> QED BY <1>8, <2>1, <2>2 DEF Grows
<1>10. Stands(data, a \o code) /\ Len(a \o code) = at + Len(code)
  <2>1. at + Len(code) <= Len(data) /\ \A i \in 1..Len(code) : data[at + i] = code[i]
    BY <1>2 DEF Coded
  <2>2. Len(a) = at /\ Stands(data, a)
    BY <1>1, <1>5
  <2> QED BY <2>1, <2>2, StandsTogether
<1>11. Stands(data, d[j + 1]) /\ Len(d[j + 1]) = at + Len(DeltaBits(delta, k))
  BY <1>2, <1>7, <1>10
<1> QED BY <1>3, <1>6, <1>9, <1>11 DEF HasRead

\* One more round leaves it so.
LEMMA RoundKept ==
  ASSUME NEW b, NEW bits \in Nat, NEW j \in Nat, NEW e \in Seq(Int), NEW at \in Nat,
         b.k \in Nat, b.data \in Seq({0, 1}),
         Sorted(e, b.first, Power2(bits), j), HasRead(e, at, b.data, b.k, j),
         NEW next, next = NextEntry(bits, b, [err |-> "none", entries |-> e, at |-> at]),
         next.err = "none"
  PROVE  \E f \in Seq(Int), to \in Nat :
           /\ next = [err |-> "none", entries |-> f, at |-> to]
           /\ Sorted(f, b.first, Power2(bits), j + 1)
           /\ HasRead(f, to, b.data, b.k, j + 1)
<1>1. PICK k \in Nat, data \in Seq({0, 1}) : k = b.k /\ data = b.data
  OBVIOUS
<1>2. Len(e) = j + 1 /\ \A i \in 1..j + 1 : e[i] \in Nat
  BY DEF Sorted, Below
<1>3. PICK last \in Nat : last = e[Len(e)] /\ last = e[j + 1]
  <2>1. j + 1 \in 1..j + 1
    OBVIOUS
  <2> QED BY <1>2, <2>1
<1>4. PICK delta \in Nat :
        /\ delta # 0 /\ Coded(b.data, at, delta, b.k) /\ Fits(last, delta, bits)
        /\ next = Longer(e, at, delta, b.k)
  <2>1. PICK delta \in Nat : Follows(e, at, delta, b, bits) /\ next = Longer(e, at, delta, b.k)
    <3>1. e[Len(e)] \in Nat
      BY <1>3
    <3> QED BY <3>1, EntryEncoded
  <2> QED BY <1>3, <2>1 DEF Follows
<1>5. PICK x \in Nat : x = last + delta
  OBVIOUS
<1>6. PICK len \in Nat : len = Len(DeltaBits(delta, k))
  <2>1. PICK q \in Nat : q = delta \div Power2(k)
    BY Quotients
  <2>2. Len(DeltaBits(delta, k)) = q + 1 + k
    BY <2>1, CodeBits
  <2> QED BY <2>2
<1>7. Sorted(Append(e, x), b.first, Power2(bits), j + 1)
  <2>1. e[Len(e)] < x /\ x < Power2(bits)
    BY <1>3, <1>4, <1>5 DEF Fits
  <2> QED BY <2>1, SortedOn
<1>8. HasRead(Append(e, x), at + len, b.data, b.k, j + 1)
  <2>1. x - e[j + 1] = delta
    <3>1. x - last = delta
      BY <1>5
    <3> QED BY <1>3, <3>1
  <2>2. HasRead(e, at, data, k, j) /\ Coded(data, at, delta, k) /\ delta \in Nat /\ x \in Int
    BY <1>1, <1>4
  <2>3. HasRead(Append(e, x), at + Len(DeltaBits(delta, k)), data, k, j + 1)
    BY <1>2, <2>1, <2>2, ReadsOneMore
  <2> QED BY <1>1, <1>6, <2>3
<1>9. next = [err |-> "none", entries |-> Append(e, x), at |-> at + len]
  BY <1>1, <1>3, <1>4, <1>5, <1>6 DEF Longer
<1>10. Append(e, x) \in Seq(Int) /\ at + len \in Nat
  OBVIOUS
<1> QED BY <1>7, <1>8, <1>9, <1>10

\* The zeros that are left are the ones the encoding ends with.
LEMMA PaddingIs ==
  ASSUME NEW data \in Seq({0, 1}), NEW m \in Nat, Len(data) = m * ByteBits,
         NEW c \in Seq({0, 1}), Stands(data, c), Padded(data, Len(c)),
         NEW list, NEW k, c = Deltas(list, k)
  PROVE  RiceData(list, k) = data
<1>1. PICK a \in Nat, t \in Nat, w \in Nat \ {0} :
        a = Len(c) /\ t = Len(data) /\ w = ByteBits /\ t = m * w
  <2>1. Len(c) \in Nat /\ Len(data) \in Nat
    OBVIOUS
  <2> QED BY <2>1, RiceAssumption
<1>2. a <= t /\ t - a < w /\ \A i \in a + 1..t : data[i] = 0
  BY <1>1 DEF Stands, Padded
<1>3. PICK p \in Nat : p = Padding(c) /\ p = t - a
  <2>1. PICK r \in 0..w - 1 : r = t - a
    BY <1>2
  <2>2. PICK q \in Int : q = 0 - m
    OBVIOUS
  <2>3. w * q + r = 0 - a
    <3>1. w * q = 0 - m * w
      BY <2>2
    <3>2. w * q = 0 - t
      BY <1>1, <3>1
    <3>3. PICK y \in Int : y = w * q
      OBVIOUS
    <3>4. y + r = 0 - a
      BY <2>1, <3>2, <3>3
    <3> QED BY <3>3, <3>4
  <2>4. (w * q + r) % w = r
    BY QuotientOf
  <2>5. (0 - a) % w = r
    BY <2>3, <2>4
  <2>6. r \in Nat
    OBVIOUS
  <2> QED BY <1>1, <2>1, <2>5, <2>6 DEF Padding
<1>4. PICK d \in Seq({0, 1}) : d = RiceData(list, k) /\ PaddedWith(d, c, p)
  BY <1>3, DataAre
<1>5. Len(d) = t
  BY <1>1, <1>2, <1>3, <1>4 DEF PaddedWith
<1>6. ASSUME NEW i \in 1..t PROVE d[i] = data[i]
  <2>1. CASE i \in 1..a
    BY <1>1, <1>4, <2>1 DEF PaddedWith, Stands
  <2>2. CASE i \in a + 1..t
    <3>1. i - a \in 1..p /\ a + (i - a) = i
      BY <1>3, <2>2
    <3>2. d[a + (i - a)] = 0
      BY <1>1, <1>4, <3>1 DEF PaddedWith
    <3> QED BY <1>2, <2>2, <3>1, <3>2
  <2>3. i \in 1..a \/ i \in a + 1..t
    BY <1>2
  <2> QED BY <2>1, <2>2, <2>3
<1>7. d = data
  BY <1>1, <1>5, <1>6
<1> QED BY <1>4, <1>7

\* g[j] is a list of j + 1 entries, read so far.
Reads(s, b, bits, j) ==
  \E e \in Seq(Int), at \in Nat : /\ s = [err |-> "none", entries |-> e, at |-> at]
                                  /\ Sorted(e, b.first, Power2(bits), j)
                                  /\ HasRead(e, at, b.data, b.k, j)

\* Round by round, as long as nothing fails, the decoder reads codes of a sorted list.
LEMMA RoundsEncode ==
  ASSUME NEW b, NEW bits \in Nat, NEW n \in Nat, NEW g, b.k \in Nat, b.data \in Seq({0, 1}),
         b.first \in Nat, b.first < Power2(bits), DecodingRounds(g, b, bits, b.first),
         g[n].err = "none"
  PROVE  Reads(g[n], b, bits, n)
<1> DEFINE T == {m \in Nat : m <= n => g[n - m].err = "none"}
           U == {j \in Nat : j <= n => Reads(g[j], b, bits, j)}
<1>1. \A m \in Nat : m \in T
  <2>1. 0 \in T
    <3>1. n - 0 = n
      OBVIOUS
    <3> QED BY <3>1
  <2>2. ASSUME NEW m \in Nat, m \in T PROVE m + 1 \in T
    <3> SUFFICES ASSUME m + 1 <= n PROVE g[n - (m + 1)].err = "none"
      OBVIOUS
    <3>1. n - (m + 1) \in Nat /\ (n - (m + 1)) + 1 = n - m /\ m <= n
      OBVIOUS
    <3>2. g[n - m] = NextEntry(bits, b, g[n - (m + 1)])
      BY <3>1 DEF DecodingRounds
    <3>3. g[n - m].err = "none"
      BY <2>2, <3>1
    <3> QED BY <3>2, <3>3 DEF NextEntry
  <2> HIDE DEF T
  <2> QED BY <2>1, <2>2, Induction
<1>2. ASSUME NEW j \in Nat, j <= n PROVE g[j].err = "none"
  <2>1. n - j \in Nat /\ n - j <= n /\ n - (n - j) = j
    BY <1>2
  <2>2. n - j \in T
    <3> HIDE DEF T
    <3> QED BY <1>1, <2>1
  <2> QED BY <2>1, <2>2
<1>3. 0 \in U
  <2> DEFINE e == <<b.first>>
  <2>1. e \in Seq(Int) /\ Len(e) = 0 + 1 /\ e[1] = b.first
    OBVIOUS
  <2> HIDE DEF e
  <2>2. Sorted(e, b.first, Power2(bits), 0)
    <3>1. StrictlyIncreasing(e)
      BY <2>1 DEF StrictlyIncreasing
    <3>2. Below(e, Power2(bits))
      <4>1. \A i \in 1..0 + 1 : i = 1
        OBVIOUS
      <4> QED BY <2>1, <4>1 DEF Below
    <3> QED BY <2>1, <3>1, <3>2 DEF Sorted
  <2>3. HasRead(e, 0, b.data, b.k, 0)
    <3> DEFINE c == [i \in Nat |-> << >>]
    <3>1. c \in [Nat -> Seq({0, 1})] /\ c[0] = << >>
      OBVIOUS
    <3> HIDE DEF c
    <3>2. Grows(c, e, b.k, 0)
      BY <3>1 DEF Grows
    <3>3. Stands(b.data, c[0]) /\ Len(c[0]) = 0
      BY SMTT(30), <3>1 DEF Stands
    <3> QED BY <3>1, <3>2, <3>3 DEF HasRead
  <2>4. g[0] = [err |-> "none", entries |-> e, at |-> 0]
    BY DEF DecodingRounds, e
  <2>5. Reads(g[0], b, bits, 0)
    BY <2>1, <2>2, <2>3, <2>4 DEF Reads
  <2> QED BY <2>5
<1>4. ASSUME NEW j \in Nat, j \in U PROVE j + 1 \in U
  <2> SUFFICES ASSUME j + 1 <= n PROVE Reads(g[j + 1], b, bits, j + 1)
    OBVIOUS
  <2>1. PICK e \in Seq(Int), at \in Nat :
          /\ g[j] = [err |-> "none", entries |-> e, at |-> at]
          /\ Sorted(e, b.first, Power2(bits), j)
          /\ HasRead(e, at, b.data, b.k, j)
    <3>1. j <= n
      OBVIOUS
    <3>2. Reads(g[j], b, bits, j)
      BY <1>4, <3>1
    <3> QED BY <3>2 DEF Reads
  <2>2. PICK next : next = g[j + 1]
    OBVIOUS
  <2>3. next = NextEntry(bits, b, [err |-> "none", entries |-> e, at |-> at])
    BY <2>1, <2>2 DEF DecodingRounds
  <2>4. next.err = "none"
    <3>1. j + 1 \in Nat
      OBVIOUS
    <3> QED BY <1>2, <2>2, <3>1
  <2>5. Reads(next, b, bits, j + 1)
    BY <2>1, <2>3, <2>4, RoundKept DEF Reads
  <2> QED BY <2>2, <2>5
<1>5. n \in U
  <2> HIDE DEF U
  <2> QED BY <1>3, <1>4, Induction
<1> QED BY <1>5

\* Whatever the decoder accepts is the encoding of the sorted list it returns, every
\* entry of which fits: no other block decodes to the same list.
LEMMA DecodedEncodes ==
  ASSUME NEW b, b.k \in Nat, b.count \in Nat, b.first \in Entries, b.data \in Seq({0, 1}),
         NEW m \in Nat, Len(b.data) = m * ByteBits
  PROVE  DecodedIsEncoded(b)
<1> DEFINE got == DecodeRice(Width, b, MaxEntries)
<1>1. PICK bits \in Nat, top \in Nat : bits = Width * ByteBits /\ top = Power2(bits)
  <2>1. Width * ByteBits \in Nat
    BY RiceAssumption, WidthAssumption
  <2> QED BY <2>1, Power2Def
<1>2. Entries = 0..top - 1
  BY <1>1 DEF Entries
<1>3. b.first \in Nat /\ b.first < Power2(bits) /\ b.first \in Int
  BY <1>1, <1>2
<1>4. PICK n \in Nat : n = b.count
  OBVIOUS
<1>5. PICK g \in [Nat -> Decoding(b.data)] : Decodes(g, b, Width, MaxEntries, got)
  BY <1>3, DecodeRounds
<1>6. DecodedIsEncoded(b) <=>
        (got.err = "none" =>
           /\ b.firstWidth = Width /\ Len(got.entries) = b.count + 1 /\ b.count < MaxEntries
           /\ StrictlyIncreasing(got.entries) /\ ToSet(got.entries) \subseteq Entries
           /\ got.entries[1] = b.first /\ RiceData(got.entries, b.k) = b.data)
  BY DEF DecodedIsEncoded
<1> HIDE DEF got
<1> SUFFICES ASSUME got.err = "none"
             PROVE  /\ b.firstWidth = Width /\ Len(got.entries) = b.count + 1 /\ b.count < MaxEntries
                    /\ StrictlyIncreasing(got.entries) /\ ToSet(got.entries) \subseteq Entries
                    /\ got.entries[1] = b.first /\ RiceData(got.entries, b.k) = b.data
  BY <1>6
<1>7. /\ b.firstWidth = Width /\ ~(n + 1 > MaxEntries)
      /\ got = g[n] /\ (g[n].err = "none" => Padded(b.data, g[n].at))
  <2>1. Failed("ErrInvalidRice").err # "none" /\ Failed("ErrDecodeLimit").err # "none"
    BY DEF Failed
  <2> QED BY <1>4, <1>5, <2>1 DEF Decodes
<1>8. n < MaxEntries
  BY <1>7, BoundAssumption
<1>9. Reads(g[n], b, bits, n)
  <2>1. DecodingRounds(g, b, bits, b.first)
    BY <1>1, <1>5 DEF Decodes, DecodingRounds
  <2>2. g[n].err = "none"
    BY <1>7
  <2>3. \A h : DecodingRounds(h, b, bits, b.first) => (h[n].err = "none" => Reads(h[n], b, bits, n))
    BY <1>3, RoundsEncode
  <2> QED BY <2>1, <2>2, <2>3
<1>10. PICK e \in Seq(Int), at \in Nat :
         /\ got = [err |-> "none", entries |-> e, at |-> at]
         /\ Sorted(e, b.first, Power2(bits), n)
         /\ HasRead(e, at, b.data, b.k, n)
  BY <1>7, <1>9 DEF Reads
<1>11. PICK c \in [Nat -> Seq({0, 1})] :
         Grows(c, e, b.k, n) /\ Stands(b.data, c[n]) /\ Len(c[n]) = at
  BY <1>10 DEF HasRead
<1>12. Len(e) = n + 1 /\ StrictlyIncreasing(e) /\ Below(e, Power2(bits)) /\ e[1] = b.first
  BY <1>10 DEF Sorted
<1>13. PICK k \in Nat, data \in Seq({0, 1}), code \in Seq({0, 1}) :
         k = b.k /\ data = b.data /\ code = c[n]
  OBVIOUS
<1>14. Deltas(e, k) = code
  <2>1. PICK d \in [Nat -> Seq({0, 1})] : Deltas(e, k) = d[n] /\ Grows(d, e, k, n)
    BY <1>12, EncodingGrows
  <2>2. c[n] = d[n]
    BY <1>11, <1>13, <2>1, GrowOne
  <2> QED BY <1>13, <2>1, <2>2
<1>15. RiceData(e, k) = data
  <2>1. Padded(data, Len(code)) /\ Stands(data, code) /\ Len(data) = m * ByteBits
    BY <1>7, <1>10, <1>11, <1>13
  <2> QED BY <1>14, <2>1, PaddingIs
<1>16. ToSet(e) \subseteq Entries
  <2>1. ASSUME NEW i \in 1..Len(e)
        PROVE  e[i] \in Entries
    <3>1. e[i] \in Nat /\ e[i] < top
      BY <1>1, <1>12 DEF Below
    <3>2. PICK x \in Nat : x = e[i]
      BY <3>1
    <3>3. x < top
      BY <3>1, <3>2
    <3>4. x \in 0..top - 1
      BY <3>3
    <3> QED BY <1>2, <3>2, <3>4
  <2> QED BY <2>1 DEF ToSet
<1>17. got.entries = e
  BY <1>10
<1>18. Len(got.entries) = b.count + 1 /\ StrictlyIncreasing(got.entries) /\ got.entries[1] = b.first
  BY <1>4, <1>12, <1>17
<1>19. ToSet(got.entries) \subseteq Entries
  BY <1>16, <1>17
<1>20. RiceData(got.entries, b.k) = b.data
  BY <1>13, <1>15, <1>17
<1>21. b.count < MaxEntries
  BY <1>4, <1>8
<1> QED BY <1>7, <1>18, <1>19, <1>20, <1>21

\* Decoding is the inverse of encoding, whatever the width of an entry and of a
\* byte, the length of a list and its encoding, and the Rice parameter.
THEOREM RiceInverts ==
  /\ \A b : /\ b \in [firstWidth : Nat, first : Entries, k : Nat, count : Nat, data : Seq({0, 1})]
            /\ \E m \in Nat : Len(b.data) = m * ByteBits
            => DecodedIsEncoded(b)
  /\ \A list \in Seq(Entries), k \in Width * ByteBits - QuotientBits..Width * ByteBits - 2 :
       StrictlyIncreasing(list) /\ Len(list) >= 1 => EncodedIsDecoded(list, k)
<1>1. ASSUME NEW b \in [firstWidth : Nat, first : Entries, k : Nat, count : Nat, data : Seq({0, 1})],
             \E m \in Nat : Len(b.data) = m * ByteBits
      PROVE  DecodedIsEncoded(b)
  <2>1. PICK m \in Nat : Len(b.data) = m * ByteBits
    BY <1>1
  <2>2. b.k \in Nat /\ b.count \in Nat /\ b.first \in Entries /\ b.data \in Seq({0, 1})
    OBVIOUS
  <2> QED BY <2>1, <2>2, DecodedEncodes
<1>2. ASSUME NEW list \in Seq(Entries), NEW k \in Width * ByteBits - QuotientBits..Width * ByteBits - 2,
             StrictlyIncreasing(list), Len(list) >= 1
      PROVE  EncodedIsDecoded(list, k)
  <2>1. PICK top \in Nat : top = Power2(Width * ByteBits)
    <3>1. Width * ByteBits \in Nat
      BY RiceAssumption, WidthAssumption
    <3> QED BY <3>1, Power2Def
  <2>2. Entries = 0..top - 1
    BY <2>1 DEF Entries
  <2>3. PICK s \in Seq(Int) : s = list
    BY <2>2
  <2>4. Below(s, Power2(Width * ByteBits))
    <3>1. \A i \in 1..Len(list) : list[i] \in Entries
      OBVIOUS
    <3> QED BY SMTT(30), <2>1, <2>2, <2>3, <3>1 DEF Below
  <2>5. StrictlyIncreasing(s) /\ Len(s) >= 1
    BY <1>2, <2>3
  <2>6. EncodedIsDecoded(s, k)
    BY <2>4, <2>5, EncodedDecodes
  <2> QED BY <2>3, <2>6
<1> QED BY <1>1, <1>2
----
(* What the runs check, from the lemmas on every input *)

\* A behaviour chooses one input, by one of seven actions.
LEMMA OneInput ==
  /\ Init => case.algorithm = "none"
  /\ ChooseBlock => case'.algorithm = "block"
  /\ ChooseList => case'.algorithm = "list"
  /\ ChooseMerge => case'.algorithm = "merge"
  /\ ChooseRaw => case'.algorithm = "raw"
  /\ ChooseExpressions => case'.algorithm = "expressions"
  /\ ChooseSearch => case'.algorithm = "search"
  /\ ChooseBackoff => case'.algorithm = "backoff"
<1>1. Init => case.algorithm = "none"
  BY DEF Init, Seed
<1>2. /\ ChooseBlock => case'.algorithm = "block"
      /\ ChooseMerge => case'.algorithm = "merge"
  BY DEF ChooseBlock, ChooseMerge
<1>5. ChooseList => case'.algorithm = "list"
  <2> SUFFICES ASSUME ChooseList PROVE case'.algorithm = "list"
    OBVIOUS
  <2>1. \E list, k : case' = [algorithm |-> "list", list |-> list, k |-> k]
    BY Zenon DEF ChooseList
  <2> QED BY <2>1
<1>3. /\ ChooseRaw => case'.algorithm = "raw"
      /\ ChooseExpressions => case'.algorithm = "expressions"
  BY DEF ChooseRaw, ChooseExpressions
<1>4. /\ ChooseSearch => case'.algorithm = "search"
      /\ ChooseBackoff => case'.algorithm = "backoff"
  BY DEF ChooseSearch, ChooseBackoff
<1> QED BY <1>1, <1>2, <1>3, <1>4, <1>5

\* Until an input is chosen, the state is the initial one.
Seeds == case.algorithm = "none" => Init

LEMMA SeedsKept == Spec => []Seeds
<1>1. Init => Seeds
  BY DEF Seeds
<1>2. Seeds /\ [Next]_case => Seeds'
  <2> SUFFICES ASSUME Seeds, [Next]_case PROVE Seeds'
    OBVIOUS
  <2>1. CASE Next
    BY <2>1, OneInput DEF Seeds, Next
  <2>2. CASE UNCHANGED case
    BY <2>2 DEF Seeds, Init
  <2> QED BY <2>1, <2>2
<1> QED BY <1>1, <1>2, PTL DEF Spec

\* What the code reports of a hash is what the service enforces, for any answer.
LEMMA EnforcedAlways ==
  ASSUME NEW requested,
         NEW answer \in SUBSET [hash : DOMAIN PrefixOf, whole : BOOLEAN,
                                details : SUBSET [type : Nat, attributes : SUBSET Nat]],
         ~SearchFails(requested, answer), NEW h \in DOMAIN PrefixOf
  PROVE  Collected(h, FullHashes(answer)) = EnforcedOf(h, requested, answer)
<1>1. ASSUME NEW t \in Collected(h, FullHashes(answer))
      PROVE  t \in EnforcedOf(h, requested, answer)
  <2>1. PICK match \in answer : /\ match.hash = h
                                /\ \E d \in Details(match) : d.attributes = {} /\ d.type = t
    BY DEF Collected, FullHashes
  <2>2. PICK d \in match.details : d.type = t /\ d.attributes = {} /\ t \in ThreatTypes
    BY <2>1 DEF Details
  <2>3. d = [type |-> t, attributes |-> {}]
    BY <2>2
  <2> QED BY <2>1, <2>2, <2>3 DEF EnforcedOf, SearchFails
<1>2. ASSUME NEW t \in EnforcedOf(h, requested, answer)
      PROVE  t \in Collected(h, FullHashes(answer))
  <2>1. PICK match \in answer : match.hash = h /\ [type |-> t, attributes |-> {}] \in match.details
    BY DEF EnforcedOf
  <2>2. t \in ThreatTypes
    BY DEF EnforcedOf
  <2> DEFINE full == [hash |-> match.hash, details |-> Details(match)]
  <2>3. full \in FullHashes(answer) /\ full.hash = h
    BY <2>1 DEF FullHashes
  <2>4. [type |-> t, attributes |-> {}] \in full.details
    BY <2>1, <2>2 DEF Details
  <2> HIDE DEF full
  <2> QED BY <2>3, <2>4 DEF Collected
<1> QED BY <1>1, <1>2

\* Only what is enforced is reported, in every behaviour.
THEOREM EnforcedOnly == Spec => []Enforced
<1>1. Init => Enforced
  BY OneInput DEF Enforced, Chosen
<1>2. Enforced /\ [Next]_case => Enforced'
  <2> SUFFICES ASSUME Enforced, [Next]_case PROVE Enforced'
    OBVIOUS
  <2>1. CASE ChooseSearch
    <3> DEFINE M == [hash : DOMAIN PrefixOf, whole : BOOLEAN,
                     details : SUBSET [type : Nat, attributes : SUBSET Nat]]
    <3>1. ASSUME NEW n \in Nat PROVE SomeMatches(n) \subseteq M
      <4>1. SomeDetails \subseteq [type : Nat, attributes : SUBSET Nat]
        BY DEF SomeDetails
      <4>2. \A s \in SeqOf(SomeDetails, n) : ToSet(s) \subseteq SomeDetails
        BY DEF SeqOf, ToSet
      <4> QED BY <4>1, <4>2 DEF SomeMatches
    <3>2. case'.answer \in SUBSET M
      <4> HIDE DEF M
      <4> QED BY <2>1, <3>1 DEF ChooseSearch
    <3> QED BY <3>2, EnforcedAlways DEF Enforced
  <2>2. CASE ChooseBlock \/ ChooseList \/ ChooseMerge \/ ChooseRaw
             \/ ChooseExpressions \/ ChooseBackoff
    BY <2>2, OneInput DEF Enforced, Chosen
  <2>3. CASE UNCHANGED case
    BY <2>3 DEF Enforced, Chosen
  <2> QED BY <2>1, <2>2, <2>3 DEF Next
<1> QED BY <1>1, <1>2, PTL DEF Spec

\* The delay is doubled up to the longest, in every behaviour.
THEOREM BackoffSafe == Spec => []BackoffDoubles
<1>1. Init => BackoffDoubles
  BY OneInput DEF BackoffDoubles, Chosen
<1>2. BackoffDoubles /\ Seeds /\ [Next]_case => BackoffDoubles'
  <2> SUFFICES ASSUME BackoffDoubles, Seeds, [Next]_case PROVE BackoffDoubles'
    OBVIOUS
  <2>1. CASE ChooseBackoff
    <3>1. case.x \in 1..MaxInt
      BY <2>1 DEF ChooseBackoff, Seeded, Seeds, Init, Seed
    <3>2. PICK max \in case.x..MaxInt, failures \in 1..MaxFailures :
            case' = [algorithm |-> "backoff", initial |-> case.x, max |-> max, failures |-> failures]
      BY <2>1 DEF ChooseBackoff
    <3>3. max \in 0..MaxInt /\ case.x \in 0..max /\ failures \in Nat \ {0}
      BY <3>1, MaxIntAssumption, BoundAssumption
    <3>4. Doubles(case.x, max, failures)
      BY <3>3, DelaysDouble
    <3> QED BY <3>2, <3>4 DEF BackoffDoubles
  <2>2. CASE ChooseBlock \/ ChooseList \/ ChooseMerge \/ ChooseRaw
             \/ ChooseExpressions \/ ChooseSearch
    BY <2>2, OneInput DEF BackoffDoubles, Chosen
  <2>3. CASE UNCHANGED case
    BY <2>3 DEF BackoffDoubles, Chosen
  <2> QED BY <2>1, <2>2, <2>3 DEF Next
<1> QED BY <1>1, <1>2, SeedsKept, PTL DEF Spec

LEMMA SortedAreSeqs ==
  ASSUME NEW S, NEW n \in Nat
  PROVE  \A s \in SortedSeqs(S, n) : s \in Seq(S) /\ StrictlyIncreasing(s)
BY DEF SortedSeqs, SeqOf

\* Merging and searching are right in every behaviour.
THEOREM MergeSafe == Spec => []MergeAgrees
<1>1. Init => MergeAgrees
  BY OneInput DEF MergeAgrees, Chosen
<1>2. MergeAgrees /\ Seeds /\ [Next]_case => MergeAgrees'
  <2> SUFFICES ASSUME MergeAgrees, Seeds, [Next]_case PROVE MergeAgrees'
    OBVIOUS
  <2>1. CASE ChooseMerge
    <3>1. case.x \in Lists
      BY <2>1 DEF ChooseMerge, Seeded, Seeds, Init, Seed
    <3>2. PICK additions \in Lists, removals \in SortedSeqs(0..Len(case.x) - 1, Len(case.x)) :
            case' = [algorithm |-> "merge", base |-> case.x, additions |-> additions,
                     removals |-> removals]
      BY <2>1 DEF ChooseMerge
    <3>3. \A s \in Lists : s \in Seq(Int) /\ StrictlyIncreasing(s)
      <4>1. \A s \in Lists : s \in Seq(Numbers) /\ StrictlyIncreasing(s)
        BY SortedAreSeqs DEF Lists
      <4>2. Seq(Numbers) \subseteq Seq(Int)
        BY DEF Numbers
      <4> QED BY <4>1, <4>2
    <3>4. removals \in Seq(Nat) /\ StrictlyIncreasing(removals)
      <4>1. case.x \in Seq(Int) /\ Len(case.x) \in Nat
        BY <3>1, <3>3
      <4>2. removals \in Seq(0..Len(case.x) - 1) /\ StrictlyIncreasing(removals)
        BY <4>1, SortedAreSeqs
      <4> QED BY <4>1, <4>2
    <3>5. MergeCorrect(case.x, additions, removals)
      BY <3>1, <3>3, <3>4, MergesAll
    <3>6. \A h \in 0..6 : SearchCorrect(additions, h)
      BY <3>3, SearchFinds
    <3> QED BY <3>2, <3>5, <3>6 DEF MergeAgrees
  <2>2. CASE ChooseBlock \/ ChooseList \/ ChooseRaw
             \/ ChooseExpressions \/ ChooseSearch \/ ChooseBackoff
    BY <2>2, OneInput DEF MergeAgrees, Chosen
  <2>3. CASE UNCHANGED case
    BY <2>3 DEF MergeAgrees, Chosen
  <2> QED BY <2>1, <2>2, <2>3 DEF Next
<1> QED BY <1>1, <1>2, SeedsKept, PTL DEF Spec

\* The expressions are complete in every behaviour.
THEOREM ExpressionsSafe == Spec => []ExpressionsComplete
<1>1. Init => ExpressionsComplete
  BY OneInput DEF ExpressionsComplete, Chosen
<1>2. ExpressionsComplete /\ Seeds /\ [Next]_case => ExpressionsComplete'
  <2> SUFFICES ASSUME ExpressionsComplete, Seeds, [Next]_case PROVE ExpressionsComplete'
    OBVIOUS
  <2>1. CASE ChooseExpressions
    <3>1. case.x \in 1..7
      BY <2>1 DEF ChooseExpressions, Seeded, Seeds, Init, Seed
    <3>2. PICK base \in 0..case.x, path \in SeqOf({Slash, 97}, MaxPath - 1), query \in Queries :
            case' = [algorithm |-> "expressions", labels |-> [i \in 1..case.x |-> i], base |-> base,
                     url |-> [path |-> <<Slash>> \o path, hasQuery |-> query[1], query |-> query[2]]]
      BY <2>1 DEF ChooseExpressions
    <3> DEFINE labels == [i \in 1..case.x |-> i]
               u == [path |-> <<Slash>> \o path, hasQuery |-> query[1], query |-> query[2]]
    <3>3. labels \in Seq(Int) /\ base \in 0..Len(labels)
      BY <3>1
    <3>4. query[1] \in BOOLEAN /\ query[2] \in Seq(Int)
      <4>1. << >> \in Seq(Int) /\ <<97>> \in Seq(Int)
        OBVIOUS
      <4>2. query = <<FALSE, << >>>> \/ query = <<TRUE, << >>>> \/ query = <<TRUE, <<97>>>>
        BY DEF Queries
      <4>3. ASSUME NEW b \in BOOLEAN, NEW t \in Seq(Int), query = <<b, t>>
            PROVE  query[1] \in BOOLEAN /\ query[2] \in Seq(Int)
        BY <4>3
      <4> QED BY <4>1, <4>2, <4>3
    <3>5. <<Slash>> \o path \in Seq(Int)
      <4>1. path \in Seq(Int) /\ <<Slash>> \in Seq(Int)
        BY BoundAssumption DEF SeqOf, Slash
      <4> QED BY <4>1
    <3>6. u \in [path : Seq(Int), hasQuery : BOOLEAN, query : Seq(Int)]
      BY <3>4, <3>5
    <3> HIDE DEF labels, u
    <3>7. AllExpressions(labels, base, u)
      BY <3>3, <3>6, ExpressionsAll
    <3> QED BY <3>2, <3>7 DEF ExpressionsComplete, labels, u
  <2>2. CASE ChooseBlock \/ ChooseList \/ ChooseMerge \/ ChooseRaw
             \/ ChooseSearch \/ ChooseBackoff
    BY <2>2, OneInput DEF ExpressionsComplete, Chosen
  <2>3. CASE UNCHANGED case
    BY <2>3 DEF ExpressionsComplete, Chosen
  <2> QED BY <2>1, <2>2, <2>3 DEF Next
<1> QED BY <1>1, <1>2, SeedsKept, PTL DEF Spec

\* Decoding is the inverse of encoding in every behaviour.
THEOREM RiceSafe == Spec => []RiceInverse
<1>1. Init => RiceInverse
  BY OneInput DEF RiceInverse, Chosen
<1>2. RiceInverse /\ Seeds /\ [Next]_case => RiceInverse'
  <2> SUFFICES ASSUME RiceInverse, Seeds, [Next]_case PROVE RiceInverse'
    OBVIOUS
  <2>1. CASE ChooseBlock
    <3>1. case.x \in Entries
      BY <2>1 DEF ChooseBlock, Seeded, Seeds, Init, Seed
    <3>2. PICK k \in 0..Width * ByteBits - 1, count \in 0..MaxEntries, data \in Datas, w \in {1, Width} :
            case' = [algorithm |-> "block", block |-> RiceBlock(w, case.x, k, count, data)]
      BY <2>1 DEF ChooseBlock
    <3>3. PICK m \in Nat : data \in [1..m * ByteBits -> {0, 1}]
      BY DEF Datas
    <3>4. data \in Seq({0, 1}) /\ Len(data) = m * ByteBits
      <4>1. m * ByteBits \in Nat
        BY RiceAssumption
      <4> QED BY <3>3, <4>1
    <3> DEFINE b == RiceBlock(w, case.x, k, count, data)
    <3>5. b \in [firstWidth : Nat, first : Entries, k : Nat, count : Nat, data : Seq({0, 1})]
          /\ b.data = data
      <4>1. k \in Nat /\ count \in Nat /\ w \in Nat
        BY WidthAssumption
      <4> QED BY <3>1, <3>4, <4>1 DEF RiceBlock
    <3> HIDE DEF b
    <3>6. DecodedIsEncoded(b)
      BY <3>4, <3>5, RiceInverts
    <3>7. case'.algorithm = "block" /\ case'.block = b
      BY <3>2 DEF b
    <3> QED BY <3>6, <3>7 DEF RiceInverse, Chosen
  <2>2. CASE ChooseList
    <3>1. case.x \in Entries
      BY <2>2 DEF ChooseList, Seeded, Seeds, Init, Seed
    <3>2. PICK more \in SortedSeqs({y \in Entries : y > case.x}, MaxEntries),
               k \in Width * ByteBits - QuotientBits..Width * ByteBits - 2 :
            case' = [algorithm |-> "list", list |-> <<case.x>> \o more, k |-> k]
      BY <2>2 DEF ChooseList
    <3> DEFINE list == <<case.x>> \o more
    <3>3. list \in Seq(Entries) /\ StrictlyIncreasing(list) /\ Len(list) >= 1
      <4>1. more \in Seq({y \in Entries : y > case.x}) /\ StrictlyIncreasing(more)
        BY SortedAreSeqs, BoundAssumption
      <4>2. PICK x \in Int : x = case.x /\ x \in Entries
        BY <3>1 DEF Entries
      <4>3. more \in Seq(Int) /\ \A i \in 1..Len(more) : more[i] \in Entries /\ more[i] > x
        <5>1. {y \in Entries : y > x} \subseteq Int
          BY DEF Entries
        <5> QED BY <4>1, <4>2, <5>1
      <4>4. PICK n \in Nat : n = Len(more)
        BY <4>3
      <4>5. /\ Len(list) = n + 1 /\ list[1] = x /\ list \in Seq(Int)
            /\ \A i \in 1..n : list[i + 1] = more[i]
        BY <4>2, <4>3, <4>4
      <4> HIDE DEF list
      <4>6. ASSUME NEW i \in 2..n + 1 PROVE list[i - 1] < list[i] /\ list[i] \in Entries
        <5>1. i - 1 \in 1..n /\ (i - 1) + 1 = i
          OBVIOUS
        <5>2. list[i] = more[i - 1] /\ more[i - 1] > x /\ more[i - 1] \in Entries
          BY <4>3, <4>4, <4>5, <5>1
        <5>3. CASE i = 2
          <6>1. more[i - 1] \in Int
            BY <4>3, <4>4, <5>1
          <6>2. list[i - 1] = x
            BY <4>5, <5>3
          <6> QED BY <5>2, <6>1, <6>2
        <5>4. CASE i # 2
          <6>1. i - 2 \in 1..n /\ (i - 2) + 1 = i - 1 /\ i - 1 \in 2..n /\ (i - 1) - 1 = i - 2
            BY <5>4
          <6>2. list[i - 1] = more[i - 2]
            BY <4>5, <6>1
          <6>3. more[(i - 1) - 1] < more[i - 1]
            BY <4>1, <4>4, <6>1 DEF StrictlyIncreasing
          <6> QED BY <5>2, <6>1, <6>2, <6>3
        <5> QED BY <5>3, <5>4
      <4>7. ASSUME NEW i \in 1..n + 1 PROVE list[i] \in Entries
        <5>1. i = 1 \/ i \in 2..n + 1
          OBVIOUS
        <5> QED BY <4>2, <4>5, <4>6, <5>1
      <4>8. list \in Seq(Entries)
        BY <4>5, <4>7
      <4>9. StrictlyIncreasing(list)
        BY <4>5, <4>6 DEF StrictlyIncreasing
      <4> QED BY <4>5, <4>8, <4>9
    <3> HIDE DEF list
    <3>4. EncodedIsDecoded(list, k)
      BY <3>3, RiceInverts
    <3>5. case'.algorithm = "list" /\ case'.list = list /\ case'.k = k
      BY <3>2 DEF list
    <3> QED BY <3>4, <3>5 DEF RiceInverse, Chosen
  <2>3. CASE ChooseMerge \/ ChooseRaw \/ ChooseExpressions \/ ChooseSearch \/ ChooseBackoff
    BY <2>3, OneInput DEF RiceInverse, Chosen
  <2>4. CASE UNCHANGED case
    BY <2>4 DEF RiceInverse, Chosen
  <2> QED BY <2>1, <2>2, <2>3, <2>4 DEF Next
<1> QED BY <1>1, <1>2, SeedsKept, PTL DEF Spec
===========================================================================
