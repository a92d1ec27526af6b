----------------------------- MODULE URLProofs -----------------------------
(***************************************************************************)
(* That the canonical form of a URL does not depend on how it is spelled   *)
(* and is the canonical form of itself, for URLs of any length: the loops  *)
(* of urls.go as folds over what they read, with an equation for each.     *)
(***************************************************************************)
EXTENDS AlgorithmProofs, SequenceTheorems
----
(* Sequences, and loops over them *)

\* Induction on how a sequence is built.
LEMMA AppendInduction ==
  ASSUME NEW T, NEW A, << >> \in A,
         \A s \in Seq(T), x \in T : s \in A => Append(s, x) \in A
  PROVE  \A s \in Seq(T) : s \in A
<1> DEFINE U == {n \in Nat : \A s \in Seq(T) : Len(s) = n => s \in A}
<1>1. 0 \in U
  <2>1. \A s \in Seq(T) : Len(s) = 0 => s = << >>
    OBVIOUS
  <2> QED BY <2>1
<1>2. ASSUME NEW n \in Nat, n \in U PROVE n + 1 \in U
  <2> SUFFICES ASSUME NEW s \in Seq(T), Len(s) = n + 1 PROVE s \in A
    OBVIOUS
  <2> DEFINE t == SubSeq(s, 1, n)
             x == s[n + 1]
  <2>1. t \in Seq(T) /\ Len(t) = n /\ x \in T /\ \A i \in 1..n : t[i] = s[i]
    OBVIOUS
  <2> HIDE DEF t
  <2>2. s = Append(t, x)
    <3>1. Append(t, x) \in Seq(T) /\ Len(Append(t, x)) = n + 1
      BY <2>1
    <3>2. \A i \in 1..n + 1 : Append(t, x)[i] = s[i]
      BY <2>1
    <3> QED BY <3>1, <3>2, SeqEqual
  <2>3. t \in A
    BY <1>2, <2>1
  <2> HIDE DEF x
  <2>4. Append(t, x) \in A
    BY <2>1, <2>3
  <2> QED BY <2>2, <2>4
<1>3. \A n \in Nat : n \in U
  <2> HIDE DEF U
  <2> QED BY <1>1, <1>2, Induction
<1>4. \A s \in Seq(T) : Len(s) \in Nat
  OBVIOUS
<1> QED BY <1>3, <1>4

\* Induction on the length of a sequence.
LEMMA LengthInduction ==
  ASSUME NEW T, NEW A,
         \A s \in Seq(T) : (\A t \in Seq(T) : Len(t) < Len(s) => t \in A) => s \in A
  PROVE  \A s \in Seq(T) : s \in A
<1> SUFFICES ASSUME NEW r \in Seq(T), r \notin A PROVE FALSE
  OBVIOUS
<1> DEFINE U == {n \in Nat : \E s \in Seq(T) : s \notin A /\ Len(s) = n}
<1>1. U \in SUBSET Nat /\ Len(r) \in U
  OBVIOUS
<1>2. PICK n \in U : \A m \in U : n <= m
  BY <1>1, Least
<1>3. PICK s \in Seq(T) : s \notin A /\ Len(s) = n
  OBVIOUS
<1>4. ASSUME NEW t \in Seq(T), Len(t) < Len(s) PROVE t \in A
  <2>1. Len(t) \in Nat /\ Len(t) < n /\ n \in Nat
    BY <1>3, <1>4
  <2> QED BY <1>2, <2>1
<1> QED BY <1>3, <1>4

\* op makes of a value in S and an element in T a value in S.
Steps(op, S, T) == op \in [S \X T -> S]

\* f has what op makes of start and the first elements of s.
FoldSteps(f, op, start, s) ==
  f[0] = start /\ \A k \in 1..Len(s) : f[k] = op[<<f[k - 1], s[k]>>]

LEMMA FoldExists ==
  ASSUME NEW S, NEW T, NEW op, Steps(op, S, T), NEW start \in S, NEW s \in Seq(T)
  PROVE  \E f \in [0..Len(s) -> S] : FoldSteps(f, op, start, s)
<1> USE DEF Steps
<1> DEFINE U == {n \in Nat : n <= Len(s) => \E f \in [0..n -> S] :
                   f[0] = start /\ \A k \in 1..n : f[k] = op[<<f[k - 1], s[k]>>]}
<1>1. 0 \in U
  <2> DEFINE f == [k \in 0..0 |-> start]
  <2>1. f \in [0..0 -> S] /\ f[0] = start
    OBVIOUS
  <2> HIDE DEF f
  <2>2. \A k \in 1..0 : f[k] = op[<<f[k - 1], s[k]>>]
    OBVIOUS
  <2> QED BY <2>1, <2>2
<1>2. ASSUME NEW n \in Nat, n \in U PROVE n + 1 \in U
  <2> SUFFICES ASSUME n + 1 <= Len(s)
               PROVE  \E f \in [0..n + 1 -> S] :
                        f[0] = start /\ \A k \in 1..n + 1 : f[k] = op[<<f[k - 1], s[k]>>]
    OBVIOUS
  <2>1. n <= Len(s) /\ s[n + 1] \in T
    OBVIOUS
  <2>2. PICK g \in [0..n -> S] : g[0] = start /\ \A k \in 1..n : g[k] = op[<<g[k - 1], s[k]>>]
    BY <1>2, <2>1
  <2>3. PICK y \in S : y = op[<<g[n], s[n + 1]>>]
    BY <2>1
  <2> DEFINE f == [k \in 0..n + 1 |-> IF k = n + 1 THEN y ELSE g[k]]
  <2>4. f \in [0..n + 1 -> S] /\ f[0] = start
    BY <2>2
  <2>5. ASSUME NEW k \in 1..n + 1 PROVE f[k] = op[<<f[k - 1], s[k]>>]
    <3>1. CASE k = n + 1
      <4>1. f[k] = y /\ f[k - 1] = g[n]
        BY <3>1
      <4> QED BY <2>3, <3>1, <4>1
    <3>2. CASE k # n + 1
      <4>1. k \in 1..n /\ f[k] = g[k] /\ f[k - 1] = g[k - 1]
        BY <3>2
      <4> QED BY <2>2, <4>1
    <3> QED BY <3>1, <3>2
  <2> QED BY <2>4, <2>5
<1>3. Len(s) \in U
  <2> HIDE DEF U
  <2>1. Len(s) \in Nat
    OBVIOUS
  <2> QED BY <1>1, <1>2, <2>1, Induction
<1> QED BY <1>3 DEF FoldSteps

WhileIn(g, op, start, s, S) ==
  g[0] = start /\ \A k \in 1..Len(s) : g[k - 1] \in S => g[k] = op[<<g[k - 1], s[k]>>]

\* Any g whose next value is that of op, as long as it stays in S, has those values.
LEMMA FoldAgrees ==
  ASSUME NEW S, NEW T, NEW op, Steps(op, S, T), NEW start \in S, NEW s \in Seq(T),
         NEW f, FoldSteps(f, op, start, s), f \in [0..Len(s) -> S],
         NEW g, WhileIn(g, op, start, s, S)
  PROVE  \A k \in 0..Len(s) : g[k] = f[k]
<1> USE DEF WhileIn
<1> DEFINE U == {n \in Nat : n <= Len(s) => g[n] = f[n]}
<1>1. 0 \in U
  BY DEF FoldSteps
<1>2. ASSUME NEW n \in Nat, n \in U PROVE n + 1 \in U
  <2> SUFFICES ASSUME n + 1 <= Len(s) PROVE g[n + 1] = f[n + 1]
    OBVIOUS
  <2>1. n + 1 \in 1..Len(s) /\ (n + 1) - 1 = n /\ n \in 0..Len(s) /\ n <= Len(s)
    OBVIOUS
  <2>2. g[n] = f[n] /\ f[n] \in S
    BY <1>2, <2>1
  <2>3. g[n + 1] = op[<<g[n], s[n + 1]>>]
    BY <2>1, <2>2
  <2>4. f[n + 1] = op[<<f[n], s[n + 1]>>]
    BY <2>1 DEF FoldSteps
  <2> QED BY <2>2, <2>3, <2>4
<1>3. \A n \in Nat : n \in U
  <2> HIDE DEF U
  <2> QED BY <1>1, <1>2, Induction
<1> QED BY <1>3

\* A loop over s whose body is the function op.
FoldBy(op, start, s) == Folded(LAMBDA x, y : op[<<x, y>>], start, s)

LEMMA FoldIs ==
  ASSUME NEW S, NEW T, NEW op, Steps(op, S, T), NEW start \in S, NEW s \in Seq(T)
  PROVE  \E f \in [0..Len(s) -> S] :
           FoldSteps(f, op, start, s) /\ FoldBy(op, start, s) = f[Len(s)]
<1> DEFINE P(g) == g = [k \in 0..Len(s) |-> IF k = 0 THEN start ELSE op[<<g[k - 1], s[k]>>]]
           g == CHOOSE h : P(h)
<1>1. PICK f \in [0..Len(s) -> S] : FoldSteps(f, op, start, s)
  BY FoldExists
<1> USE DEF Steps
<1>2. Len(s) \in Nat
  OBVIOUS
<1>3. P(f)
  <2>1. \A k \in 0..Len(s) : f[k] = IF k = 0 THEN start ELSE op[<<f[k - 1], s[k]>>]
    BY <1>1, <1>2 DEF FoldSteps
  <2> QED BY <2>1
<1>4. P(g)
  BY <1>3
<1>5. FoldBy(op, start, s) = g[Len(s)]
  BY DEF FoldBy, Folded
<1> HIDE DEF g
<1>6. WhileIn(g, op, start, s, S)
  BY <1>2, <1>4 DEF WhileIn
<1> HIDE DEF P, Steps
<1>7. \A k \in 0..Len(s) : g[k] = f[k]
  BY <1>1, <1>6, FoldAgrees
<1>8. g[Len(s)] = f[Len(s)]
  BY <1>2, <1>7
<1> QED BY <1>1, <1>5, <1>8

\* The defining equation of a loop over a sequence.
LEMMA FoldEquation ==
  ASSUME NEW S, NEW T, NEW op, Steps(op, S, T), NEW start \in S
  PROVE  /\ FoldBy(op, start, << >>) = start
         /\ \A s \in Seq(T) : FoldBy(op, start, s) \in S
         /\ \A s \in Seq(T), x \in T :
              FoldBy(op, start, Append(s, x)) = op[<<FoldBy(op, start, s), x>>]
<1>1. FoldBy(op, start, << >>) = start
  <2>1. << >> \in Seq(T) /\ Len(<< >>) = 0
    OBVIOUS
  <2>2. PICK e \in Seq(T) : e = << >> /\ Len(e) = 0
    BY <2>1
  <2>3. PICK f \in [0..Len(e) -> S] : FoldSteps(f, op, start, e) /\ FoldBy(op, start, e) = f[Len(e)]
    BY FoldIs
  <2> QED BY <2>2, <2>3 DEF FoldSteps
<1>2. ASSUME NEW s \in Seq(T) PROVE FoldBy(op, start, s) \in S
  BY FoldIs
<1>3. ASSUME NEW s \in Seq(T), NEW x \in T
      PROVE  FoldBy(op, start, Append(s, x)) = op[<<FoldBy(op, start, s), x>>]
  <2> DEFINE t == Append(s, x)
  <2>1. PICK n \in Nat : n = Len(s)
    OBVIOUS
  <2>2. /\ t \in Seq(T) /\ Len(t) = n + 1 /\ t[n + 1] = x
        /\ \A i \in 1..n : t[i] = s[i]
    BY <2>1
  <2> HIDE DEF t
  <2>3. PICK f \in [0..n -> S] : FoldSteps(f, op, start, s) /\ FoldBy(op, start, s) = f[n]
    BY <2>1, FoldIs
  <2>4. PICK g \in [0..n + 1 -> S] : FoldSteps(g, op, start, t) /\ FoldBy(op, start, t) = g[n + 1]
    BY SMTT(30), <2>2, FoldIs
  <2>5. WhileIn(g, op, start, s, S)
    <3>1. \A k \in 1..n : k \in 1..n + 1 /\ t[k] = s[k]
      BY <2>2
    <3>2. \A k \in 1..n + 1 : g[k] = op[<<g[k - 1], t[k]>>]
      BY <2>2, <2>4 DEF FoldSteps
    <3> QED BY <2>1, <2>4, <3>1, <3>2 DEF FoldSteps, WhileIn
  <2>6. \A k \in 0..Len(s) : g[k] = f[k]
    <3>1. f \in [0..Len(s) -> S]
      BY <2>1
    <3> QED BY <2>3, <2>5, <3>1, FoldAgrees
  <2>7. g[n] = f[n]
    BY <2>1, <2>6
  <2>8. g[n + 1] = op[<<g[n], t[n + 1]>>]
    BY <2>2, <2>4 DEF FoldSteps
  <2> QED BY <2>2, <2>3, <2>4, <2>7, <2>8 DEF t
<1> QED BY <1>1, <1>2, <1>3

LEMMA AppendConcat ==
  ASSUME NEW T, NEW s \in Seq(T), NEW t \in Seq(T), NEW x \in T
  PROVE  s \o Append(t, x) = Append(s \o t, x)
<1>1. PICK m \in Nat, n \in Nat : m = Len(s) /\ n = Len(t)
  OBVIOUS
<1>2. /\ s \o Append(t, x) \in Seq(T) /\ Append(s \o t, x) \in Seq(T)
      /\ Len(s \o Append(t, x)) = m + n + 1 /\ Len(Append(s \o t, x)) = m + n + 1
  BY <1>1
<1>3. \A i \in 1..m + n + 1 : (s \o Append(t, x))[i] = Append(s \o t, x)[i]
  BY <1>1
<1> QED BY <1>2, <1>3, SeqEqual

\* The loop over two sequences in a row.
LEMMA FoldConcat ==
  ASSUME NEW S, NEW T, NEW op, Steps(op, S, T), NEW start \in S,
         NEW s \in Seq(T), NEW t \in Seq(T)
  PROVE  FoldBy(op, start, s \o t) = FoldBy(op, FoldBy(op, start, s), t)
<1> DEFINE mid == FoldBy(op, start, s)
           A == {r \in Seq(T) : FoldBy(op, start, s \o r) = FoldBy(op, mid, r)}
<1>1. mid \in S
  BY FoldEquation
<1>2. << >> \in A
  <2>1. s \o << >> = s /\ << >> \in Seq(T)
    OBVIOUS
  <2>2. FoldBy(op, mid, << >>) = mid
    BY <1>1, FoldEquation
  <2> QED BY <2>1, <2>2
<1>3. ASSUME NEW r \in Seq(T), NEW x \in T, r \in A PROVE Append(r, x) \in A
  <2>1. s \o Append(r, x) = Append(s \o r, x) /\ s \o r \in Seq(T) /\ Append(r, x) \in Seq(T)
    BY AppendConcat
  <2>2. FoldBy(op, start, Append(s \o r, x)) = op[<<FoldBy(op, start, s \o r), x>>]
    <3>1. PICK q \in Seq(T) : q = s \o r
      BY <2>1
    <3>2. FoldBy(op, start, Append(q, x)) = op[<<FoldBy(op, start, q), x>>]
      BY FoldEquation
    <3> QED BY <3>1, <3>2
  <2>3. FoldBy(op, mid, Append(r, x)) = op[<<FoldBy(op, mid, r), x>>]
    <3> HIDE DEF mid, A
    <3> QED BY <1>1, FoldEquation
  <2>4. FoldBy(op, start, s \o r) = FoldBy(op, mid, r)
    BY <1>3
  <2> QED BY <2>1, <2>2, <2>3, <2>4
<1>4. t \in A
  <2> HIDE DEF A, mid
  <2> QED BY <1>2, <1>3, AppendInduction
<1> QED BY <1>4
----
(* The loops of urls.go *)

Byte == 0..255
Text == Seq(Byte)
Texts == Seq(Text)

LEMMA PrintedIsText ==
  ASSUME NEW b \in Byte
  PROVE  Printed(b) \in Text /\ Encoded(b) \in Text
<1>1. /\ HexDigit(b \div 16) \in Byte /\ HexDigit(b % 16) \in Byte
      /\ Percent \in Byte
  BY DEF HexDigit, Byte, Percent
<1>2. Encoded(b) \in Text
  BY <1>1 DEF Encoded, Text
<1> QED BY <1>2 DEF Printed, Text

\* The tabs and line ends of a URL are dropped.
StripStep == [p \in Text \X Byte |-> IF p[2] \in {9, 10, 13} THEN p[1] ELSE Append(p[1], p[2])]

LEMMA StrippedIs ==
  ASSUME NEW s \in Seq(Byte)
  PROVE  Steps(StripStep, Text, Byte) /\ Stripped(s) = FoldBy(StripStep, << >>, s)
<1> DEFINE S == Text
           T == Byte
           op == StripStep
           start == << >>
           Body(x, y) == IF y \in {9, 10, 13} THEN x ELSE Append(x, y)
           n == Len(s)
           P(g) == g = [k \in 0..n |-> IF k = 0 THEN start ELSE Body(g[k - 1], s[k])]
           g == CHOOSE h : P(h)
<1>1. n \in Nat /\ \A k \in 1..n : s[k] \in T
  OBVIOUS
<1>2. start \in S /\ \A x \in S, y \in T : Body(x, y) \in S
  BY DEF Text
<1>3. op = [p \in S \X T |-> op[p]] /\ \A x \in S, y \in T : op[<<x, y>>] = Body(x, y)
  BY DEF StripStep
<1>4. Stripped(s) = g[n]
  BY DEF Stripped, Folded
<1> HIDE DEF Body, g, op, S, T, start, n
<1>5. Steps(op, S, T)
  <2>1. ASSUME NEW p \in S \X T PROVE op[p] \in S
    <3>1. PICK x \in S, y \in T : p = <<x, y>>
      OBVIOUS
    <3> QED BY <1>2, <1>3, <3>1
  <2> QED BY <1>3, <2>1 DEF Steps
<1>6. PICK f \in [0..n -> S] : FoldSteps(f, op, start, s) /\ FoldBy(op, start, s) = f[n]
  BY <1>2, <1>5, FoldIs DEF n, T
<1>7. P(f)
  <2>1. f[0] = start
    BY <1>6 DEF FoldSteps
  <2>2. ASSUME NEW k \in 1..n PROVE f[k] = Body(f[k - 1], s[k])
    <3>1. f[k - 1] \in S /\ s[k] \in T
      BY <1>1
    <3>2. f[k] = op[<<f[k - 1], s[k]>>]
      BY <1>6 DEF FoldSteps, n
    <3> QED BY <1>3, <3>1, <3>2
  <2>3. f = [k \in 0..n |-> IF k = 0 THEN start ELSE Body(f[k - 1], s[k])]
    BY <1>1, <2>1, <2>2
  <2> QED BY <2>3
<1>8. P(g)
  BY <1>7 DEF g
<1>9. WhileIn(g, op, start, s, S)
  <2>1. g[0] = start /\ \A k \in 1..n : g[k] = Body(g[k - 1], s[k])
    BY <1>1, <1>8
  <2> QED BY <1>1, <1>3, <2>1 DEF WhileIn, n
<1>10. \A k \in 0..n : g[k] = f[k]
  BY <1>2, <1>5, <1>6, <1>9, FoldAgrees DEF n, T
<1>11. Stripped(s) = FoldBy(op, start, s)
  BY <1>1, <1>4, <1>6, <1>10
<1> QED BY <1>5, <1>11 DEF op, S, T, start

LEMMA StrippedEquation ==
  /\ Stripped(<< >>) = << >>
  /\ \A s \in Seq(Byte) : Stripped(s) \in Text
  /\ \A s \in Seq(Byte), x \in Byte : Stripped(Append(s, x)) = IF x \in {9, 10, 13} THEN Stripped(s) ELSE Append(Stripped(s), x)
<1> DEFINE S == Text
           T == Byte
           op == StripStep
           start == << >>
           X(z) == Stripped(z)
<1>1. << >> \in Seq(T) /\ \A s \in Seq(T), x \in T : Append(s, x) \in Seq(T)
  OBVIOUS
<1>2. start \in S
  BY DEF Text
<1>3. \A x \in S, y \in T : op[<<x, y>>] = IF y \in {9, 10, 13} THEN x ELSE Append(x, y)
  BY DEF StripStep
<1>4. \A s \in Seq(T) : Steps(op, S, T) /\ X(s) = FoldBy(op, start, s)
  BY StrippedIs
<1> HIDE DEF S, T, op, start, X
<1>5. Steps(op, S, T)
  BY <1>1, <1>4
<1>6. /\ FoldBy(op, start, << >>) = start
      /\ \A s \in Seq(T) : FoldBy(op, start, s) \in S
      /\ \A s \in Seq(T), x \in T : FoldBy(op, start, Append(s, x)) = op[<<FoldBy(op, start, s), x>>]
  BY <1>2, <1>5, FoldEquation
<1>7. X(<< >>) = start /\ \A s \in Seq(T) : X(s) \in S
  BY <1>1, <1>4, <1>6
<1>8. ASSUME NEW s \in Seq(T), NEW x \in T PROVE X(Append(s, x)) = IF x \in {9, 10, 13} THEN X(s) ELSE Append(X(s), x)
  <2>1. X(Append(s, x)) = op[<<X(s), x>>]
    BY <1>1, <1>4, <1>6
  <2> QED BY <1>3, <1>7, <2>1
<1> QED BY <1>7, <1>8 DEF S, T, start, X

\* The bytes are printed one after the other.
PrintStep == [p \in Text \X Byte |-> p[1] \o Printed(p[2])]

LEMMA EscapedIs ==
  ASSUME NEW s \in Seq(Byte)
  PROVE  Steps(PrintStep, Text, Byte) /\ Escaped(s) = FoldBy(PrintStep, << >>, s)
<1> DEFINE S == Text
           T == Byte
           op == PrintStep
           start == << >>
           Body(x, y) == x \o Printed(y)
           n == Len(s)
           P(g) == g = [k \in 0..n |-> IF k = 0 THEN start ELSE Body(g[k - 1], s[k])]
           g == CHOOSE h : P(h)
<1>1. n \in Nat /\ \A k \in 1..n : s[k] \in T
  OBVIOUS
<1>2. start \in S /\ \A x \in S, y \in T : Body(x, y) \in S
  <2>1. \A x, y \in Text : x \o y \in Text
    BY DEF Text
  <2> QED BY <2>1, PrintedIsText DEF Text
<1>3. op = [p \in S \X T |-> op[p]] /\ \A x \in S, y \in T : op[<<x, y>>] = Body(x, y)
  BY DEF PrintStep
<1>4. Escaped(s) = g[n]
  BY DEF Escaped, Folded
<1> HIDE DEF Body, g, op, S, T, start, n
<1>5. Steps(op, S, T)
  <2>1. ASSUME NEW p \in S \X T PROVE op[p] \in S
    <3>1. PICK x \in S, y \in T : p = <<x, y>>
      OBVIOUS
    <3> QED BY <1>2, <1>3, <3>1
  <2> QED BY <1>3, <2>1 DEF Steps
<1>6. PICK f \in [0..n -> S] : FoldSteps(f, op, start, s) /\ FoldBy(op, start, s) = f[n]
  BY <1>2, <1>5, FoldIs DEF n, T
<1>7. P(f)
  <2>1. f[0] = start
    BY <1>6 DEF FoldSteps
  <2>2. ASSUME NEW k \in 1..n PROVE f[k] = Body(f[k - 1], s[k])
    <3>1. f[k - 1] \in S /\ s[k] \in T
      BY <1>1
    <3>2. f[k] = op[<<f[k - 1], s[k]>>]
      BY <1>6 DEF FoldSteps, n
    <3> QED BY <1>3, <3>1, <3>2
  <2>3. f = [k \in 0..n |-> IF k = 0 THEN start ELSE Body(f[k - 1], s[k])]
    BY <1>1, <2>1, <2>2
  <2> QED BY <2>3
<1>8. P(g)
  BY <1>7 DEF g
<1>9. WhileIn(g, op, start, s, S)
  <2>1. g[0] = start /\ \A k \in 1..n : g[k] = Body(g[k - 1], s[k])
    BY <1>1, <1>8
  <2> QED BY <1>1, <1>3, <2>1 DEF WhileIn, n
<1>10. \A k \in 0..n : g[k] = f[k]
  BY <1>2, <1>5, <1>6, <1>9, FoldAgrees DEF n, T
<1>11. Escaped(s) = FoldBy(op, start, s)
  BY <1>1, <1>4, <1>6, <1>10
<1> QED BY <1>5, <1>11 DEF op, S, T, start

LEMMA EscapedEquation ==
  /\ Escaped(<< >>) = << >>
  /\ \A s \in Seq(Byte) : Escaped(s) \in Text
  /\ \A s \in Seq(Byte), x \in Byte : Escaped(Append(s, x)) = Escaped(s) \o Printed(x)
<1> DEFINE S == Text
           T == Byte
           op == PrintStep
           start == << >>
           X(z) == Escaped(z)
<1>1. << >> \in Seq(T) /\ \A s \in Seq(T), x \in T : Append(s, x) \in Seq(T)
  OBVIOUS
<1>2. start \in S
  BY DEF Text
<1>3. \A x \in S, y \in T : op[<<x, y>>] = x \o Printed(y)
  BY DEF PrintStep
<1>4. \A s \in Seq(T) : Steps(op, S, T) /\ X(s) = FoldBy(op, start, s)
  BY EscapedIs
<1> HIDE DEF S, T, op, start, X
<1>5. Steps(op, S, T)
  BY <1>1, <1>4
<1>6. /\ FoldBy(op, start, << >>) = start
      /\ \A s \in Seq(T) : FoldBy(op, start, s) \in S
      /\ \A s \in Seq(T), x \in T : FoldBy(op, start, Append(s, x)) = op[<<FoldBy(op, start, s), x>>]
  BY <1>2, <1>5, FoldEquation
<1>7. X(<< >>) = start /\ \A s \in Seq(T) : X(s) \in S
  BY <1>1, <1>4, <1>6
<1>8. ASSUME NEW s \in Seq(T), NEW x \in T PROVE X(Append(s, x)) = X(s) \o Printed(x)
  <2>1. X(Append(s, x)) = op[<<X(s), x>>]
    BY <1>1, <1>4, <1>6
  <2> QED BY <1>3, <1>7, <2>1
<1> QED BY <1>7, <1>8 DEF S, T, start, X

Cuts == [parts : Texts, last : Text]
NoCut == [parts |-> << >>, last |-> << >>]
CutOf(s, c) == Folded(LAMBDA st, b : Cut(c, st, b), [parts |-> << >>, last |-> << >>], s)

\* The parts of a string between separators.
CutStep(c) == [p \in Cuts \X Byte |-> Cut(c, p[1], p[2])]

LEMMA CutIs ==
  ASSUME NEW c \in Byte, NEW s \in Seq(Byte)
  PROVE  Steps(CutStep(c), Cuts, Byte) /\ CutOf(s, c) = FoldBy(CutStep(c), NoCut, s)
<1> DEFINE S == Cuts
           T == Byte
           op == CutStep(c)
           start == NoCut
           Body(x, y) == Cut(c, x, y)
           n == Len(s)
           P(g) == g = [k \in 0..n |-> IF k = 0 THEN start ELSE Body(g[k - 1], s[k])]
           g == CHOOSE h : P(h)
<1>1. n \in Nat /\ \A k \in 1..n : s[k] \in T
  OBVIOUS
<1>2. start \in S /\ \A x \in S, y \in T : Body(x, y) \in S
  <2>1. \A x \in Texts, y \in Text : Append(x, y) \in Texts
    BY DEF Texts
  <2>2. \A x \in Text, y \in Byte : Append(x, y) \in Text
    BY DEF Text
  <2>3. << >> \in Text /\ << >> \in Texts
    BY DEF Text, Texts
  <2> QED BY <2>1, <2>2, <2>3 DEF Cut, Cuts, NoCut
<1>3. op = [p \in S \X T |-> op[p]] /\ \A x \in S, y \in T : op[<<x, y>>] = Body(x, y)
  BY DEF CutStep
<1>4. CutOf(s, c) = g[n]
  BY DEF CutOf, Folded, NoCut
<1> HIDE DEF Body, g, op, S, T, start, n
<1>5. Steps(op, S, T)
  <2>1. ASSUME NEW p \in S \X T PROVE op[p] \in S
    <3>1. PICK x \in S, y \in T : p = <<x, y>>
      OBVIOUS
    <3> QED BY <1>2, <1>3, <3>1
  <2> QED BY <1>3, <2>1 DEF Steps
<1>6. PICK f \in [0..n -> S] : FoldSteps(f, op, start, s) /\ FoldBy(op, start, s) = f[n]
  BY <1>2, <1>5, FoldIs DEF n, T
<1>7. P(f)
  <2>1. f[0] = start
    BY <1>6 DEF FoldSteps
  <2>2. ASSUME NEW k \in 1..n PROVE f[k] = Body(f[k - 1], s[k])
    <3>1. f[k - 1] \in S /\ s[k] \in T
      BY <1>1
    <3>2. f[k] = op[<<f[k - 1], s[k]>>]
      BY <1>6 DEF FoldSteps, n
    <3> QED BY <1>3, <3>1, <3>2
  <2>3. f = [k \in 0..n |-> IF k = 0 THEN start ELSE Body(f[k - 1], s[k])]
    BY <1>1, <2>1, <2>2
  <2> QED BY <2>3
<1>8. P(g)
  BY <1>7 DEF g
<1>9. WhileIn(g, op, start, s, S)
  <2>1. g[0] = start /\ \A k \in 1..n : g[k] = Body(g[k - 1], s[k])
    BY <1>1, <1>8
  <2> QED BY <1>1, <1>3, <2>1 DEF WhileIn, n
<1>10. \A k \in 0..n : g[k] = f[k]
  BY <1>2, <1>5, <1>6, <1>9, FoldAgrees DEF n, T
<1>11. CutOf(s, c) = FoldBy(op, start, s)
  BY <1>1, <1>4, <1>6, <1>10
<1> QED BY <1>5, <1>11 DEF op, S, T, start

LEMMA CutEquation ==
  ASSUME NEW c \in Byte
  PROVE  /\ CutOf(<< >>, c) = NoCut
         /\ \A s \in Seq(Byte) : CutOf(s, c) \in Cuts
         /\ \A s \in Seq(Byte), x \in Byte : CutOf(Append(s, x), c) = Cut(c, CutOf(s, c), x)
<1> DEFINE S == Cuts
           T == Byte
           op == CutStep(c)
           start == NoCut
           X(z) == CutOf(z, c)
<1>1. << >> \in Seq(T) /\ \A s \in Seq(T), x \in T : Append(s, x) \in Seq(T)
  OBVIOUS
<1>2. start \in S
  BY DEF Cuts, NoCut, Texts, Text
<1>3. \A x \in S, y \in T : op[<<x, y>>] = Cut(c, x, y)
  BY DEF CutStep
<1>4. \A s \in Seq(T) : Steps(op, S, T) /\ X(s) = FoldBy(op, start, s)
  BY CutIs
<1> HIDE DEF S, T, op, start, X
<1>5. Steps(op, S, T)
  BY <1>1, <1>4
<1>6. /\ FoldBy(op, start, << >>) = start
      /\ \A s \in Seq(T) : FoldBy(op, start, s) \in S
      /\ \A s \in Seq(T), x \in T : FoldBy(op, start, Append(s, x)) = op[<<FoldBy(op, start, s), x>>]
  BY <1>2, <1>5, FoldEquation
<1>7. X(<< >>) = start /\ \A s \in Seq(T) : X(s) \in S
  BY <1>1, <1>4, <1>6
<1>8. ASSUME NEW s \in Seq(T), NEW x \in T PROVE X(Append(s, x)) = Cut(c, X(s), x)
  <2>1. X(Append(s, x)) = op[<<X(s), x>>]
    BY <1>1, <1>4, <1>6
  <2> QED BY <1>3, <1>7, <2>1
<1> QED BY <1>7, <1>8 DEF S, T, start, X

FieldsOf(parts) ==
  Folded(LAMBDA fields, part : IF part = << >> THEN fields ELSE Append(fields, part), << >>, parts)

\* The parts that are not empty.
FieldStep == [p \in Texts \X Text |-> IF p[2] = << >> THEN p[1] ELSE Append(p[1], p[2])]

LEMMA FieldsAre ==
  ASSUME NEW s \in Seq(Text)
  PROVE  Steps(FieldStep, Texts, Text) /\ FieldsOf(s) = FoldBy(FieldStep, << >>, s)
<1> DEFINE S == Texts
           T == Text
           op == FieldStep
           start == << >>
           Body(x, y) == IF y = << >> THEN x ELSE Append(x, y)
           n == Len(s)
           P(g) == g = [k \in 0..n |-> IF k = 0 THEN start ELSE Body(g[k - 1], s[k])]
           g == CHOOSE h : P(h)
<1>1. n \in Nat /\ \A k \in 1..n : s[k] \in T
  OBVIOUS
<1>2. start \in S /\ \A x \in S, y \in T : Body(x, y) \in S
  BY DEF Texts
<1>3. op = [p \in S \X T |-> op[p]] /\ \A x \in S, y \in T : op[<<x, y>>] = Body(x, y)
  BY DEF FieldStep
<1>4. FieldsOf(s) = g[n]
  BY DEF FieldsOf, Folded
<1> HIDE DEF Body, g, op, S, T, start, n
<1>5. Steps(op, S, T)
  <2>1. ASSUME NEW p \in S \X T PROVE op[p] \in S
    <3>1. PICK x \in S, y \in T : p = <<x, y>>
      OBVIOUS
    <3> QED BY <1>2, <1>3, <3>1
  <2> QED BY <1>3, <2>1 DEF Steps
<1>6. PICK f \in [0..n -> S] : FoldSteps(f, op, start, s) /\ FoldBy(op, start, s) = f[n]
  BY <1>2, <1>5, FoldIs DEF n, T
<1>7. P(f)
  <2>1. f[0] = start
    BY <1>6 DEF FoldSteps
  <2>2. ASSUME NEW k \in 1..n PROVE f[k] = Body(f[k - 1], s[k])
    <3>1. f[k - 1] \in S /\ s[k] \in T
      BY <1>1
    <3>2. f[k] = op[<<f[k - 1], s[k]>>]
      BY <1>6 DEF FoldSteps, n
    <3> QED BY <1>3, <3>1, <3>2
  <2>3. f = [k \in 0..n |-> IF k = 0 THEN start ELSE Body(f[k - 1], s[k])]
    BY <1>1, <2>1, <2>2
  <2> QED BY <2>3
<1>8. P(g)
  BY <1>7 DEF g
<1>9. WhileIn(g, op, start, s, S)
  <2>1. g[0] = start /\ \A k \in 1..n : g[k] = Body(g[k - 1], s[k])
    BY <1>1, <1>8
  <2> QED BY <1>1, <1>3, <2>1 DEF WhileIn, n
<1>10. \A k \in 0..n : g[k] = f[k]
  BY <1>2, <1>5, <1>6, <1>9, FoldAgrees DEF n, T
<1>11. FieldsOf(s) = FoldBy(op, start, s)
  BY <1>1, <1>4, <1>6, <1>10
<1> QED BY <1>5, <1>11 DEF op, S, T, start

LEMMA FieldsEquation ==
  /\ FieldsOf(<< >>) = << >>
  /\ \A s \in Seq(Text) : FieldsOf(s) \in Texts
  /\ \A s \in Seq(Text), x \in Text : FieldsOf(Append(s, x)) = IF x = << >> THEN FieldsOf(s) ELSE Append(FieldsOf(s), x)
<1> DEFINE S == Texts
           T == Text
           op == FieldStep
           start == << >>
           X(z) == FieldsOf(z)
<1>1. << >> \in Seq(T) /\ \A s \in Seq(T), x \in T : Append(s, x) \in Seq(T)
  OBVIOUS
<1>2. start \in S
  BY DEF Texts
<1>3. \A x \in S, y \in T : op[<<x, y>>] = IF y = << >> THEN x ELSE Append(x, y)
  BY DEF FieldStep
<1>4. \A s \in Seq(T) : Steps(op, S, T) /\ X(s) = FoldBy(op, start, s)
  BY FieldsAre
<1> HIDE DEF S, T, op, start, X
<1>5. Steps(op, S, T)
  BY <1>1, <1>4
<1>6. /\ FoldBy(op, start, << >>) = start
      /\ \A s \in Seq(T) : FoldBy(op, start, s) \in S
      /\ \A s \in Seq(T), x \in T : FoldBy(op, start, Append(s, x)) = op[<<FoldBy(op, start, s), x>>]
  BY <1>2, <1>5, FoldEquation
<1>7. X(<< >>) = start /\ \A s \in Seq(T) : X(s) \in S
  BY <1>1, <1>4, <1>6
<1>8. ASSUME NEW s \in Seq(T), NEW x \in T PROVE X(Append(s, x)) = IF x = << >> THEN X(s) ELSE Append(X(s), x)
  <2>1. X(Append(s, x)) = op[<<X(s), x>>]
    BY <1>1, <1>4, <1>6
  <2> QED BY <1>3, <1>7, <2>1
<1> QED BY <1>7, <1>8 DEF S, T, start, X

\* A separator before every part.
PrefixStep(c) == [p \in Text \X Text |-> (p[1] \o <<c>>) \o p[2]]

LEMMA PrefixedIs ==
  ASSUME NEW c \in Byte, NEW s \in Seq(Text)
  PROVE  Steps(PrefixStep(c), Text, Text) /\ Prefixed(s, c) = FoldBy(PrefixStep(c), << >>, s)
<1> DEFINE S == Text
           T == Text
           op == PrefixStep(c)
           start == << >>
           Body(x, y) == x \o <<c>> \o y
           n == Len(s)
           P(g) == g = [k \in 0..n |-> IF k = 0 THEN start ELSE Body(g[k - 1], s[k])]
           g == CHOOSE h : P(h)
<1>1. n \in Nat /\ \A k \in 1..n : s[k] \in T
  OBVIOUS
<1>2. start \in S /\ \A x \in S, y \in T : Body(x, y) \in S
  <2>1. \A x, y \in Text : x \o y \in Text
    BY DEF Text
  <2>2. << >> \in Text /\ <<c>> \in Text
    BY DEF Text
  <2> QED BY <2>1, <2>2
<1>3. op = [p \in S \X T |-> op[p]] /\ \A x \in S, y \in T : op[<<x, y>>] = Body(x, y)
  BY DEF PrefixStep
<1>4. Prefixed(s, c) = g[n]
  BY DEF Prefixed, Folded
<1> HIDE DEF Body, g, op, S, T, start, n
<1>5. Steps(op, S, T)
  <2>1. ASSUME NEW p \in S \X T PROVE op[p] \in S
    <3>1. PICK x \in S, y \in T : p = <<x, y>>
      OBVIOUS
    <3> QED BY <1>2, <1>3, <3>1
  <2> QED BY <1>3, <2>1 DEF Steps
<1>6. PICK f \in [0..n -> S] : FoldSteps(f, op, start, s) /\ FoldBy(op, start, s) = f[n]
  BY <1>2, <1>5, FoldIs DEF n, T
<1>7. P(f)
  <2>1. f[0] = start
    BY <1>6 DEF FoldSteps
  <2>2. ASSUME NEW k \in 1..n PROVE f[k] = Body(f[k - 1], s[k])
    <3>1. f[k - 1] \in S /\ s[k] \in T
      BY <1>1
    <3>2. f[k] = op[<<f[k - 1], s[k]>>]
      BY <1>6 DEF FoldSteps, n
    <3> QED BY <1>3, <3>1, <3>2
  <2>3. f = [k \in 0..n |-> IF k = 0 THEN start ELSE Body(f[k - 1], s[k])]
    BY <1>1, <2>1, <2>2
  <2> QED BY <2>3
<1>8. P(g)
  BY <1>7 DEF g
<1>9. WhileIn(g, op, start, s, S)
  <2>1. g[0] = start /\ \A k \in 1..n : g[k] = Body(g[k - 1], s[k])
    BY <1>1, <1>8
  <2> QED BY <1>1, <1>3, <2>1 DEF WhileIn, n
<1>10. \A k \in 0..n : g[k] = f[k]
  BY <1>2, <1>5, <1>6, <1>9, FoldAgrees DEF n, T
<1>11. Prefixed(s, c) = FoldBy(op, start, s)
  BY <1>1, <1>4, <1>6, <1>10
<1> QED BY <1>5, <1>11 DEF op, S, T, start

LEMMA PrefixedEquation ==
  ASSUME NEW c \in Byte
  PROVE  /\ Prefixed(<< >>, c) = << >>
         /\ \A s \in Seq(Text) : Prefixed(s, c) \in Text
         /\ \A s \in Seq(Text), x \in Text : Prefixed(Append(s, x), c) = (Prefixed(s, c) \o <<c>>) \o x
<1> DEFINE S == Text
           T == Text
           op == PrefixStep(c)
           start == << >>
           X(z) == Prefixed(z, c)
<1>1. << >> \in Seq(T) /\ \A s \in Seq(T), x \in T : Append(s, x) \in Seq(T)
  OBVIOUS
<1>2. start \in S
  BY DEF Text
<1>3. \A x \in S, y \in T : op[<<x, y>>] = (x \o <<c>>) \o y
  BY DEF PrefixStep
<1>4. \A s \in Seq(T) : Steps(op, S, T) /\ X(s) = FoldBy(op, start, s)
  BY PrefixedIs
<1> HIDE DEF S, T, op, start, X
<1>5. Steps(op, S, T)
  BY <1>1, <1>4
<1>6. /\ FoldBy(op, start, << >>) = start
      /\ \A s \in Seq(T) : FoldBy(op, start, s) \in S
      /\ \A s \in Seq(T), x \in T : FoldBy(op, start, Append(s, x)) = op[<<FoldBy(op, start, s), x>>]
  BY <1>2, <1>5, FoldEquation
<1>7. X(<< >>) = start /\ \A s \in Seq(T) : X(s) \in S
  BY <1>1, <1>4, <1>6
<1>8. ASSUME NEW s \in Seq(T), NEW x \in T PROVE X(Append(s, x)) = (X(s) \o <<c>>) \o x
  <2>1. X(Append(s, x)) = op[<<X(s), x>>]
    BY <1>1, <1>4, <1>6
  <2> QED BY <1>3, <1>7, <2>1
<1> QED BY <1>7, <1>8 DEF S, T, start, X

StackOf(parts) == Folded(Stacked, << >>, parts)

\* The components of a path that stay.
StackStep == [p \in Texts \X Text |-> Stacked(p[1], p[2])]

LEMMA StackIs ==
  ASSUME NEW s \in Seq(Text)
  PROVE  Steps(StackStep, Texts, Text) /\ StackOf(s) = FoldBy(StackStep, << >>, s)
<1> DEFINE S == Texts
           T == Text
           op == StackStep
           start == << >>
           Body(x, y) == Stacked(x, y)
           n == Len(s)
           P(g) == g = [k \in 0..n |-> IF k = 0 THEN start ELSE Body(g[k - 1], s[k])]
           g == CHOOSE h : P(h)
<1>1. n \in Nat /\ \A k \in 1..n : s[k] \in T
  OBVIOUS
<1>2. start \in S /\ \A x \in S, y \in T : Body(x, y) \in S
  <2>1. \A x \in Texts, y \in Text : Stacked(x, y) \in Texts
    BY DEF Stacked, Texts, Front
  <2> QED BY <2>1 DEF Texts
<1>3. op = [p \in S \X T |-> op[p]] /\ \A x \in S, y \in T : op[<<x, y>>] = Body(x, y)
  BY DEF StackStep
<1>4. StackOf(s) = g[n]
  BY DEF StackOf, Folded
<1> HIDE DEF Body, g, op, S, T, start, n
<1>5. Steps(op, S, T)
  <2>1. ASSUME NEW p \in S \X T PROVE op[p] \in S
    <3>1. PICK x \in S, y \in T : p = <<x, y>>
      OBVIOUS
    <3> QED BY <1>2, <1>3, <3>1
  <2> QED BY <1>3, <2>1 DEF Steps
<1>6. PICK f \in [0..n -> S] : FoldSteps(f, op, start, s) /\ FoldBy(op, start, s) = f[n]
  BY <1>2, <1>5, FoldIs DEF n, T
<1>7. P(f)
  <2>1. f[0] = start
    BY <1>6 DEF FoldSteps
  <2>2. ASSUME NEW k \in 1..n PROVE f[k] = Body(f[k - 1], s[k])
    <3>1. f[k - 1] \in S /\ s[k] \in T
      BY <1>1
    <3>2. f[k] = op[<<f[k - 1], s[k]>>]
      BY <1>6 DEF FoldSteps, n
    <3> QED BY <1>3, <3>1, <3>2
  <2>3. f = [k \in 0..n |-> IF k = 0 THEN start ELSE Body(f[k - 1], s[k])]
    BY <1>1, <2>1, <2>2
  <2> QED BY <2>3
<1>8. P(g)
  BY <1>7 DEF g
<1>9. WhileIn(g, op, start, s, S)
  <2>1. g[0] = start /\ \A k \in 1..n : g[k] = Body(g[k - 1], s[k])
    BY <1>1, <1>8
  <2> QED BY <1>1, <1>3, <2>1 DEF WhileIn, n
<1>10. \A k \in 0..n : g[k] = f[k]
  BY <1>2, <1>5, <1>6, <1>9, FoldAgrees DEF n, T
<1>11. StackOf(s) = FoldBy(op, start, s)
  BY <1>1, <1>4, <1>6, <1>10
<1> QED BY <1>5, <1>11 DEF op, S, T, start

LEMMA StackEquation ==
  /\ StackOf(<< >>) = << >>
  /\ \A s \in Seq(Text) : StackOf(s) \in Texts
  /\ \A s \in Seq(Text), x \in Text : StackOf(Append(s, x)) = Stacked(StackOf(s), x)
<1> DEFINE S == Texts
           T == Text
           op == StackStep
           start == << >>
           X(z) == StackOf(z)
<1>1. << >> \in Seq(T) /\ \A s \in Seq(T), x \in T : Append(s, x) \in Seq(T)
  OBVIOUS
<1>2. start \in S
  BY DEF Texts
<1>3. \A x \in S, y \in T : op[<<x, y>>] = Stacked(x, y)
  BY DEF StackStep
<1>4. \A s \in Seq(T) : Steps(op, S, T) /\ X(s) = FoldBy(op, start, s)
  BY StackIs
<1> HIDE DEF S, T, op, start, X
<1>5. Steps(op, S, T)
  BY <1>1, <1>4
<1>6. /\ FoldBy(op, start, << >>) = start
      /\ \A s \in Seq(T) : FoldBy(op, start, s) \in S
      /\ \A s \in Seq(T), x \in T : FoldBy(op, start, Append(s, x)) = op[<<FoldBy(op, start, s), x>>]
  BY <1>2, <1>5, FoldEquation
<1>7. X(<< >>) = start /\ \A s \in Seq(T) : X(s) \in S
  BY <1>1, <1>4, <1>6
<1>8. ASSUME NEW s \in Seq(T), NEW x \in T PROVE X(Append(s, x)) = Stacked(X(s), x)
  <2>1. X(Append(s, x)) = op[<<X(s), x>>]
    BY <1>1, <1>4, <1>6
  <2> QED BY <1>3, <1>7, <2>1
<1> QED BY <1>7, <1>8 DEF S, T, start, X

----
(* Splitting, joining and cleaning *)

LEMMA Concats ==
  ASSUME NEW S
  PROVE  /\ << >> \in Seq(S)
         /\ \A s \in Seq(S) : s \o << >> = s /\ << >> \o s = s
         /\ \A s, t \in Seq(S) : s \o t \in Seq(S) /\ Len(s \o t) = Len(s) + Len(t)
         /\ \A s, t, u \in Seq(S) : (s \o t) \o u = s \o (t \o u)
         /\ \A x \in S : <<x>> \in Seq(S)
         /\ \A s \in Seq(S), x \in S : Append(s, x) \in Seq(S) /\ Append(s, x) = s \o <<x>>
         /\ \A s, t \in Seq(S), x \in S : s \o Append(t, x) = Append(s \o t, x)
<1>1. ASSUME NEW s \in Seq(S), NEW x \in S PROVE Append(s, x) = s \o <<x>>
  <2>1. PICK n \in Nat : n = Len(s)
    OBVIOUS
  <2>2. /\ Append(s, x) \in Seq(S) /\ s \o <<x>> \in Seq(S)
        /\ Len(Append(s, x)) = n + 1 /\ Len(s \o <<x>>) = n + 1
    BY <2>1
  <2>3. \A i \in 1..n + 1 : Append(s, x)[i] = (s \o <<x>>)[i]
    BY <2>1
  <2> QED BY <2>2, <2>3, SeqEqual
<1>2. \A s, t, u \in Seq(S) : (s \o t) \o u = s \o (t \o u)
  BY ConcatAssociative
<1>3. \A s, t \in Seq(S), x \in S : s \o Append(t, x) = Append(s \o t, x)
  BY AppendConcat
<1>4. /\ << >> \in Seq(S)
      /\ \A s \in Seq(S) : s \o << >> = s /\ << >> \o s = s
      /\ \A s, t \in Seq(S) : s \o t \in Seq(S) /\ Len(s \o t) = Len(s) + Len(t)
      /\ \A x \in S : <<x>> \in Seq(S)
      /\ \A s \in Seq(S), x \in S : Append(s, x) \in Seq(S)
  OBVIOUS
<1> QED BY <1>1, <1>2, <1>3, <1>4

LEMMA TextConcat ==
  /\ << >> \in Text
  /\ \A s \in Text : s \o << >> = s /\ << >> \o s = s
  /\ \A s, t \in Text : s \o t \in Text /\ Len(s \o t) = Len(s) + Len(t)
  /\ \A s, t, u \in Text : (s \o t) \o u = s \o (t \o u)
  /\ \A x \in Byte : <<x>> \in Text
  /\ \A s \in Text, x \in Byte : Append(s, x) \in Text /\ Append(s, x) = s \o <<x>>
  /\ \A s, t \in Text, x \in Byte : s \o Append(t, x) = Append(s \o t, x)
BY Concats DEF Text

LEMMA TextsConcat ==
  /\ << >> \in Texts
  /\ \A s \in Texts : s \o << >> = s /\ << >> \o s = s
  /\ \A s, t \in Texts : s \o t \in Texts /\ Len(s \o t) = Len(s) + Len(t)
  /\ \A s, t, u \in Texts : (s \o t) \o u = s \o (t \o u)
  /\ \A x \in Text : <<x>> \in Texts
  /\ \A s \in Texts, x \in Text : Append(s, x) \in Texts /\ Append(s, x) = s \o <<x>>
  /\ \A s, t \in Texts, x \in Text : s \o Append(t, x) = Append(s \o t, x)
BY Concats DEF Texts

\* Inductions over a text and over a sequence of texts.
LEMMA TextInduction ==
  ASSUME NEW A, << >> \in A, \A s \in Text, x \in Byte : s \in A => Append(s, x) \in A
  PROVE  \A s \in Text : s \in A
BY AppendInduction DEF Text

LEMMA TextsInduction ==
  ASSUME NEW A, << >> \in A, \A s \in Texts, x \in Text : s \in A => Append(s, x) \in A
  PROVE  \A s \in Texts : s \in A
BY AppendInduction DEF Texts

\* What is split between two strings with a separator is split in each.
LEMMA SplitIs ==
  ASSUME NEW c \in Byte, NEW s \in Text
  PROVE  /\ CutOf(s, c) \in Cuts
         /\ Split(s, c) = Append(CutOf(s, c).parts, CutOf(s, c).last)
         /\ Split(s, c) \in Texts /\ Len(Split(s, c)) >= 1
<1>1. CutOf(s, c) \in Cuts
  BY CutEquation DEF Text
<1>2. Split(s, c) = Append(CutOf(s, c).parts, CutOf(s, c).last)
  BY DEF Split, CutOf
<1>3. CutOf(s, c).parts \in Texts /\ CutOf(s, c).last \in Text
  BY <1>1 DEF Cuts
<1> HIDE DEF Text
<1> QED BY <1>1, <1>2, <1>3 DEF Texts

LEMMA SplitConcat ==
  ASSUME NEW c \in Byte, NEW a \in Text, NEW b \in Text
  PROVE  Split((a \o <<c>>) \o b, c) = Split(a, c) \o Split(b, c)
<1> DEFINE A == {s \in Text :
                   /\ CutOf((a \o <<c>>) \o s, c).parts = Split(a, c) \o CutOf(s, c).parts
                   /\ CutOf((a \o <<c>>) \o s, c).last = CutOf(s, c).last}
           ac == a \o <<c>>
<1>1. ac \in Text /\ ac = Append(a, c) /\ << >> \in Text
  BY Concats DEF Text
<1>2. << >> \in A
  <2>1. ac \o << >> = ac
    BY <1>1, Concats DEF Text
  <2>2. CutOf(<< >>, c) = NoCut
    BY CutEquation
  <2>3. CutOf(ac, c) = Cut(c, CutOf(a, c), c)
    BY <1>1, CutEquation DEF Text
  <2>4. CutOf(ac, c).parts = Split(a, c) /\ CutOf(ac, c).last = << >>
    BY SMTT(30), <2>3, SplitIs DEF Cut
  <2>5. Split(a, c) \o << >> = Split(a, c)
    BY SplitIs DEF Texts
  <2>6. CutOf(<< >>, c).parts = << >> /\ CutOf(<< >>, c).last = << >>
    BY <2>2 DEF NoCut
  <2>7. /\ CutOf(ac \o << >>, c).parts = Split(a, c) \o CutOf(<< >>, c).parts
        /\ CutOf(ac \o << >>, c).last = CutOf(<< >>, c).last
    BY <2>1, <2>4, <2>5, <2>6
  <2> QED BY <1>1, <2>7 DEF ac
<1>3. ASSUME NEW s \in Text, NEW x \in Byte, s \in A PROVE Append(s, x) \in A
  <2> DEFINE q == ac \o s
  <2>1. q \in Text /\ ac \o Append(s, x) = Append(q, x) /\ Append(s, x) \in Text
    BY <1>1, Concats DEF Text
  <2> HIDE DEF q, ac
  <2>2. /\ CutOf(Append(q, x), c) = Cut(c, CutOf(q, c), x)
        /\ CutOf(Append(s, x), c) = Cut(c, CutOf(s, c), x)
    BY <2>1, CutEquation DEF Text
  <2>3. PICK P \in Texts, L \in Text : CutOf(s, c).parts = P /\ CutOf(s, c).last = L
    BY SplitIs DEF Cuts
  <2>4. CutOf(q, c).parts = Split(a, c) \o P /\ CutOf(q, c).last = L
    BY <1>3, <2>3 DEF q, ac
  <2>5. Split(a, c) \in Texts /\ Append(Split(a, c) \o P, L) = Split(a, c) \o Append(P, L)
    <3>1. PICK Q \in Texts : Q = Split(a, c)
      BY SplitIs
    <3>2. Append(Q \o P, L) = Q \o Append(P, L)
      BY ZenonT(60), TextsConcat
    <3> QED BY <3>1, <3>2
  <2>6. /\ CutOf(Append(q, x), c).parts = Split(a, c) \o CutOf(Append(s, x), c).parts
        /\ CutOf(Append(q, x), c).last = CutOf(Append(s, x), c).last
    <3>1. CASE x = c
      BY <2>2, <2>3, <2>4, <2>5, <3>1 DEF Cut
    <3>2. CASE x # c
      BY <2>2, <2>3, <2>4, <3>2 DEF Cut
    <3> QED BY <3>1, <3>2
  <2> QED BY <2>1, <2>6 DEF ac
<1>4. b \in A
  <2> HIDE DEF A
  <2>1. \A s \in Seq(Byte) : s \in A
    BY <1>2, <1>3, AppendInduction DEF Text
  <2> QED BY <2>1 DEF Text
<1>5. ac \o b \in Text
  BY <1>1, Concats DEF Text
<1>6. Split(ac \o b, c) = Append(CutOf(ac \o b, c).parts, CutOf(ac \o b, c).last)
  BY <1>5, SplitIs
<1>7. PICK P \in Texts, L \in Text : CutOf(b, c).parts = P /\ CutOf(b, c).last = L
  BY SplitIs DEF Cuts
<1>8. Append(Split(a, c) \o P, L) = Split(a, c) \o Append(P, L)
  <2>1. PICK Q \in Texts : Q = Split(a, c)
    BY SplitIs
  <2>2. Append(Q \o P, L) = Q \o Append(P, L)
    BY TextsConcat
  <2> QED BY <2>1, <2>2
<1>9. Split(b, c) = Append(P, L)
  BY <1>7, SplitIs
<1> QED BY <1>4, <1>6, <1>7, <1>8, <1>9

\* No place of p holds c.
Free(p, c) == \A i \in 1..Len(p) : p[i] # c

LEMMA FreeAppend ==
  ASSUME NEW s \in Text, NEW x \in Byte, NEW c
  PROVE  Free(Append(s, x), c) <=> Free(s, c) /\ x # c
<1>1. PICK n \in Nat : n = Len(s)
  BY DEF Text
<1>2. Len(Append(s, x)) = n + 1 /\ Append(s, x)[n + 1] = x /\ \A i \in 1..n : Append(s, x)[i] = s[i]
  BY <1>1 DEF Text
<1>3. \A i \in 1..n + 1 : i = n + 1 \/ i \in 1..n
  BY <1>1
<1>4. n + 1 \in 1..n + 1 /\ \A i \in 1..n : i \in 1..n + 1
  BY <1>1
<1> QED BY <1>1, <1>2, <1>3, <1>4 DEF Free

LEMMA CutFree ==
  ASSUME NEW c \in Byte, NEW s \in Text, Free(s, c)
  PROVE  CutOf(s, c) = [parts |-> << >>, last |-> s]
<1> DEFINE A == {t \in Text : Free(t, c) => CutOf(t, c) = [parts |-> << >>, last |-> t]}
<1>1. << >> \in A
  <2>1. CutOf(<< >>, c) = NoCut /\ << >> \in Text
    BY CutEquation DEF Text
  <2> QED BY <2>1 DEF NoCut
<1>2. ASSUME NEW t \in Text, NEW x \in Byte, t \in A PROVE Append(t, x) \in A
  <2>1. Append(t, x) \in Text
    BY DEF Text
  <2> SUFFICES ASSUME Free(Append(t, x), c)
               PROVE  CutOf(Append(t, x), c) = [parts |-> << >>, last |-> Append(t, x)]
    BY <2>1
  <2>2. Free(t, c) /\ x # c
    BY FreeAppend
  <2>3. CutOf(t, c) = [parts |-> << >>, last |-> t]
    BY <1>2, <2>2
  <2>4. CutOf(Append(t, x), c) = Cut(c, CutOf(t, c), x)
    BY CutEquation DEF Text
  <2> QED BY <2>2, <2>3, <2>4 DEF Cut
<1>3. s \in A
  <2> HIDE DEF A
  <2>1. \A t \in Seq(Byte) : t \in A
    BY <1>1, <1>2, AppendInduction DEF Text
  <2> QED BY <2>1 DEF Text
<1> QED BY <1>3

LEMMA SplitFree ==
  ASSUME NEW c \in Byte, NEW s \in Text, Free(s, c)
  PROVE  Split(s, c) = <<s>>
<1>1. CutOf(s, c).parts = << >> /\ CutOf(s, c).last = s
  <2>1. CutOf(s, c) = [parts |-> << >>, last |-> s]
    BY CutFree
  <2> QED BY <2>1
<1>2. Split(s, c) = Append(<< >>, s)
  BY <1>1, SplitIs
<1> QED BY <1>2

\* A set of texts that holds the pieces of each.
Closed(G) == /\ G \in SUBSET Text /\ << >> \in G
             /\ \A s, t \in Text : s \o t \in G => s \in G /\ t \in G
Pieces(G, c) == {p \in G : Free(p, c)}

LEMMA SplitPieces ==
  ASSUME NEW c \in Byte, NEW G, Closed(G), NEW s \in G
  PROVE  Split(s, c) \in Seq(Pieces(G, c))
<1> DEFINE D == Pieces(G, c)
           A == {t \in Text : t \in G => /\ CutOf(t, c).parts \in Seq(D)
                                         /\ Free(CutOf(t, c).last, c)
                                         /\ \E r \in Text : t = r \o CutOf(t, c).last}
<1>1. << >> \in A
  <2>1. CutOf(<< >>, c).parts = << >> /\ CutOf(<< >>, c).last = << >>
    BY CutEquation DEF NoCut
  <2>2. Free(<< >>, c) /\ << >> \in Seq(D)
    BY DEF Free
  <2>3. << >> \in Text /\ << >> \o << >> = << >>
    BY TextConcat
  <2> QED BY <2>1, <2>2, <2>3
<1>2. ASSUME NEW t \in Text, NEW x \in Byte, t \in A PROVE Append(t, x) \in A
  <2>1. Append(t, x) \in Text /\ Append(t, x) = t \o <<x>> /\ <<x>> \in Text
    BY TextConcat
  <2> SUFFICES ASSUME Append(t, x) \in G
               PROVE  /\ CutOf(Append(t, x), c).parts \in Seq(D)
                      /\ Free(CutOf(Append(t, x), c).last, c)
                      /\ \E r \in Text : Append(t, x) = r \o CutOf(Append(t, x), c).last
    BY <2>1
  <2>2. t \in G
    BY <2>1 DEF Closed
  <2>3. PICK P \in Seq(D), L \in Text, r \in Text :
          /\ CutOf(t, c).parts = P /\ CutOf(t, c).last = L
          /\ Free(L, c) /\ t = r \o L
    BY <1>2, <2>2, SplitIs DEF Cuts
  <2>4. L \in D
    BY <2>2, <2>3 DEF Closed, Pieces
  <2> HIDE DEF D
  <2>5. CutOf(Append(t, x), c) = Cut(c, CutOf(t, c), x)
    BY CutEquation DEF Text
  <2>6. CASE x = c
    <3>1. CutOf(Append(t, x), c).parts = Append(P, L) /\ CutOf(Append(t, x), c).last = << >>
      BY <2>3, <2>5, <2>6 DEF Cut
    <3>2. Append(P, L) \in Seq(D) /\ Free(<< >>, c)
      BY <2>4 DEF Free
    <3>3. Append(t, x) = Append(t, x) \o << >>
      BY <2>1, TextConcat
    <3> QED BY <2>1, <3>1, <3>2, <3>3
  <2>7. CASE x # c
    <3>1. CutOf(Append(t, x), c).parts = P /\ CutOf(Append(t, x), c).last = Append(L, x)
      BY <2>3, <2>5, <2>7 DEF Cut
    <3>2. Free(Append(L, x), c)
      BY <2>3, <2>7, FreeAppend
    <3>3. Append(t, x) = r \o Append(L, x)
      <4>1. r \o Append(L, x) = Append(r \o L, x)
        BY TextConcat
      <4> QED BY <2>3, <4>1
    <3> QED BY <2>3, <3>1, <3>2, <3>3
  <2> QED BY <2>6, <2>7
<1>3. s \in Text
  BY DEF Closed
<1>4. s \in A
  <2> HIDE DEF A
  <2> QED BY <1>1, <1>2, <1>3, TextInduction
<1>5. PICK P \in Seq(D), L \in Text, r \in Text :
          /\ CutOf(s, c).parts = P /\ CutOf(s, c).last = L
          /\ Free(L, c) /\ s = r \o L
  BY <1>3, <1>4, SplitIs DEF Cuts
<1>6. L \in D
  BY <1>5 DEF Closed, Pieces
<1> HIDE DEF D
<1>7. Append(P, L) \in Seq(D)
  BY <1>6
<1>8. Split(s, c) = Append(P, L)
  BY <1>3, <1>5, SplitIs
<1> QED BY <1>7, <1>8 DEF D

LEMMA PrefixedOn ==
  ASSUME NEW c \in Byte
  PROVE  /\ Prefixed(<< >>, c) = << >>
         /\ \A s \in Texts : Prefixed(s, c) \in Text
         /\ \A s \in Texts, x \in Text : Prefixed(Append(s, x), c) = (Prefixed(s, c) \o <<c>>) \o x
BY PrefixedEquation DEF Texts

LEMMA StackOn ==
  /\ StackOf(<< >>) = << >>
  /\ \A s \in Texts : StackOf(s) \in Texts
  /\ \A s \in Texts, x \in Text : StackOf(Append(s, x)) = Stacked(StackOf(s), x)
BY StackEquation DEF Texts

LEMMA SeqMonotone ==
  ASSUME NEW S, NEW T, S \subseteq T
  PROVE  Seq(S) \subseteq Seq(T)
OBVIOUS

LEMMA PiecesAreTexts ==
  ASSUME NEW G \in SUBSET Text, NEW c
  PROVE  /\ Seq(Pieces(G, c)) \subseteq Texts /\ Seq(Pieces(G, c)) \subseteq Seq(Pieces(Text, c))
         /\ Seq(G) \subseteq Texts
<1>1. Pieces(G, c) \subseteq Text /\ Pieces(G, c) \subseteq Pieces(Text, c)
  BY DEF Pieces
<1> QED BY <1>1, SeqMonotone DEF Texts

\* What is joined is split again.
LEMMA SplitPrefixed ==
  ASSUME NEW c \in Byte, NEW ps \in Seq(Pieces(Text, c))
  PROVE  Split(Prefixed(ps, c), c) = << << >> >> \o ps
<1> DEFINE D == Pieces(Text, c)
           A == {s \in Seq(D) : Split(Prefixed(s, c), c) = << << >> >> \o s}
           e == << << >> >>
<1>1. << >> \in A
  <2>1. Split(<< >>, c) = << << >> >>
    BY TextConcat, SplitFree DEF Free
  <2>2. << >> \in Seq(D) /\ << << >> >> \o << >> = << << >> >>
    BY TextConcat, TextsConcat
  <2> QED BY <2>1, <2>2, PrefixedOn
<1>2. ASSUME NEW s \in Seq(D), NEW x \in D, s \in A PROVE Append(s, x) \in A
  <2>1. s \in Texts /\ x \in Text /\ Free(x, c) /\ Append(s, x) \in Seq(D)
    BY PiecesAreTexts DEF Pieces
  <2> HIDE DEF D
  <2>2. PICK p \in Text : p = Prefixed(s, c)
    BY <2>1, PrefixedOn
  <2>3. Prefixed(Append(s, x), c) = (p \o <<c>>) \o x
    BY <2>1, <2>2, PrefixedOn
  <2>4. Split((p \o <<c>>) \o x, c) = Split(p, c) \o Split(x, c)
    BY <2>1, SplitConcat
  <2>5. Split(x, c) = <<x>> /\ Split(p, c) = e \o s
    BY <1>2, <2>1, <2>2, SplitFree
  <2> HIDE DEF A
  <2>6. (e \o s) \o <<x>> = e \o Append(s, x)
    <3>1. e \in Texts
      BY TextConcat, TextsConcat
    <3> HIDE DEF e
    <3>2. PICK q \in Texts : q = e \o s
      BY <2>1, <3>1, TextsConcat
    <3>3. Append(q, x) = q \o <<x>> /\ e \o Append(s, x) = Append(e \o s, x)
      BY ZenonT(60), <2>1, <3>1, TextsConcat
    <3> QED BY <3>2, <3>3
  <2>7. Split(Prefixed(Append(s, x), c), c) = e \o Append(s, x)
    BY <2>3, <2>4, <2>5, <2>6
  <2> QED BY <2>1, <2>7 DEF A
<1>3. ps \in A
  <2> HIDE DEF A, D
  <2>1. \A s \in Seq(D) : s \in A
    BY <1>1, <1>2, AppendInduction
  <2> QED BY <2>1 DEF D
<1> QED BY <1>3

LEMMA PrefixedIn ==
  ASSUME NEW c \in Byte, NEW G \in SUBSET Text, << >> \in G,
         \A a, b \in G : (a \o <<c>>) \o b \in G, NEW ps \in Seq(G)
  PROVE  Prefixed(ps, c) \in G
<1> DEFINE A == {s \in Seq(G) : Prefixed(s, c) \in G}
<1>1. << >> \in A
  BY PrefixedOn
<1>2. ASSUME NEW s \in Seq(G), NEW x \in G, s \in A PROVE Append(s, x) \in A
  <2>1. s \in Texts /\ x \in Text /\ Append(s, x) \in Seq(G)
    BY PiecesAreTexts
  <2>2. Prefixed(Append(s, x), c) = (Prefixed(s, c) \o <<c>>) \o x
    BY <2>1, PrefixedOn
  <2> QED BY <1>2, <2>1, <2>2
<1> HIDE DEF A
<1>3. ps \in A
  BY <1>1, <1>2, AppendInduction
<1> QED BY <1>3 DEF A

LEMMA PrefixedStarts ==
  ASSUME NEW c \in Byte, NEW ps \in Texts, ps # << >>
  PROVE  \E r \in Text : Prefixed(ps, c) = <<c>> \o r
<1> DEFINE A == {s \in Texts : s # << >> => \E r \in Text : Prefixed(s, c) = <<c>> \o r}
<1>1. << >> \in A
  BY TextsConcat
<1>2. ASSUME NEW s \in Texts, NEW x \in Text, s \in A PROVE Append(s, x) \in A
  <2>1. Prefixed(Append(s, x), c) = (Prefixed(s, c) \o <<c>>) \o x
    BY PrefixedOn
  <2>2. Append(s, x) \in Texts /\ <<c>> \in Text
    BY TextConcat, TextsConcat
  <2>3. CASE s = << >>
    <3>1. Prefixed(s, c) \o <<c>> = <<c>>
      BY <2>2, <2>3, PrefixedOn, TextConcat
    <3> QED BY <2>1, <2>2, <3>1
  <2>4. CASE s # << >>
    <3>1. PICK r \in Text : Prefixed(s, c) = <<c>> \o r
      BY <1>2, <2>4
    <3>2. PICK u \in Text : u = r \o <<c>>
      BY <2>2, TextConcat
    <3>3. (<<c>> \o r) \o <<c>> = <<c>> \o u
      <4>1. PICK q \in Text : q = <<c>>
        BY <2>2
      <4>2. (q \o r) \o q = q \o (r \o q)
        BY TextConcat
      <4> QED BY <3>2, <4>1, <4>2
    <3>4. u \o x \in Text /\ (<<c>> \o u) \o x = <<c>> \o (u \o x)
      BY ZenonT(60), <2>2, TextConcat
    <3> QED BY <2>1, <2>2, <3>1, <3>3, <3>4
  <2> QED BY <2>3, <2>4
<1> HIDE DEF A
<1>3. ps \in A
  BY <1>1, <1>2, TextsInduction
<1> QED BY <1>3 DEF A

LEMMA TailConcat ==
  ASSUME NEW S, NEW x \in S, NEW s \in Seq(S)
  PROVE  Tail(<<x>> \o s) = s
<1> DEFINE u == <<x>> \o s
           n == Len(s)
<1>1. n \in Nat /\ s = [i \in 1..n |-> s[i]]
  OBVIOUS
<1>2. u \in Seq(S) /\ Len(u) = n + 1 /\ \A i \in 1..n : u[i + 1] = s[i]
  BY <1>1
<1> HIDE DEF u, n
<1>3. Tail(u) \in Seq(S) /\ Len(Tail(u)) = n /\ \A i \in 1..n : Tail(u)[i] = s[i]
  BY <1>1, <1>2
<1>4. Tail(u) = s
  BY <1>3, SeqEqual DEF n
<1> QED BY <1>4 DEF u

LEMMA JoinSplit ==
  ASSUME NEW c \in Byte, NEW ps \in Seq(Pieces(Text, c)), ps # << >>
  PROVE  Join(ps, c) \in Text /\ Prefixed(ps, c) = <<c>> \o Join(ps, c) /\ Split(Join(ps, c), c) = ps
<1>1. ps \in Texts
  BY PiecesAreTexts
<1>2. PICK r \in Text : Prefixed(ps, c) = <<c>> \o r
  BY <1>1, PrefixedStarts
<1>3. Join(ps, c) = r
  BY <1>2, TailConcat DEF Join, Text
<1>4. Split(<<c>> \o r, c) = << << >> >> \o Split(r, c)
  <2>1. << >> \in Text /\ << >> \o <<c>> = <<c>>
    BY TextConcat
  <2>2. Split(<< >>, c) = << << >> >>
    BY <2>1, SplitFree DEF Free
  <2>3. Split((<< >> \o <<c>>) \o r, c) = Split(<< >>, c) \o Split(r, c)
    BY <2>1, SplitConcat
  <2> QED BY <2>1, <2>2, <2>3
<1>5. Split(Prefixed(ps, c), c) = << << >> >> \o ps
  BY SplitPrefixed
<1>6. Split(r, c) = Tail(<< << >> >> \o Split(r, c)) /\ ps = Tail(<< << >> >> \o ps)
  BY <1>1, SplitIs, TextConcat, TailConcat DEF Texts
<1> QED BY <1>2, <1>3, <1>4, <1>5, <1>6

----
(* Cleaning a path *)

\* What follows in a path does not tell what came before.
LEMMA StackAfter ==
  ASSUME NEW P \in Texts, NEW Q \in Texts, StackOf(P) = StackOf(Q), NEW R \in Texts
  PROVE  StackOf(P \o R) = StackOf(Q \o R)
<1> DEFINE A == {s \in Texts : StackOf(P \o s) = StackOf(Q \o s)}
<1>1. << >> \in A
  BY TextsConcat
<1>2. ASSUME NEW s \in Texts, NEW x \in Text, s \in A PROVE Append(s, x) \in A
  <2>1. Append(s, x) \in Texts /\ P \o s \in Texts /\ Q \o s \in Texts
    BY TextsConcat
  <2>2. P \o Append(s, x) = Append(P \o s, x) /\ Q \o Append(s, x) = Append(Q \o s, x)
    BY SMTT(30), TextsConcat
  <2>3. PICK p \in Texts, q \in Texts : p = P \o s /\ q = Q \o s
    BY <2>1
  <2>4. StackOf(p) = StackOf(q)
    BY <1>2, <2>3
  <2>5. StackOf(Append(p, x)) = StackOf(Append(q, x))
    BY <2>4, StackOn
  <2> QED BY <2>1, <2>2, <2>3, <2>5
<1> HIDE DEF A
<1>3. R \in A
  BY <1>1, <1>2, TextsInduction
<1> QED BY <1>3 DEF A

LEMMA StackIn ==
  ASSUME NEW G \in SUBSET Text, NEW ps \in Seq(G)
  PROVE  StackOf(ps) \in Seq(G \ Dots)
<1> DEFINE D == G \ Dots
           A == {s \in Seq(G) : StackOf(s) \in Seq(D)}
<1>1. << >> \in A
  <2>1. << >> \in Seq(G) /\ << >> \in Seq(D)
    OBVIOUS
  <2> QED BY <2>1, StackOn
<1>2. ASSUME NEW s \in Seq(G), NEW x \in G, s \in A PROVE Append(s, x) \in A
  <2>1. s \in Texts /\ x \in Text /\ Append(s, x) \in Seq(G)
    BY PiecesAreTexts
  <2>2. StackOf(Append(s, x)) = Stacked(StackOf(s), x)
    BY <2>1, StackOn
  <2>3. PICK st \in Seq(D) : st = StackOf(s)
    BY <1>2
  <2>4. x \notin Dots => x \in D
    OBVIOUS
  <2> HIDE DEF D
  <2>5. x \notin Dots => Append(st, x) \in Seq(D)
    BY <2>4
  <2>6. st # << >> => Front(st) \in Seq(D)
    <3> SUFFICES ASSUME st # << >> PROVE Front(st) \in Seq(D)
      OBVIOUS
    <3>1. Len(st) - 1 \in 0..Len(st)
      OBVIOUS
    <3>2. \A i \in 1..Len(st) - 1 : st[i] \in D
      OBVIOUS
    <3> QED BY <3>1, <3>2 DEF Front
  <2>7. Stacked(st, x) \in Seq(D)
    BY <2>5, <2>6 DEF Stacked
  <2> QED BY <2>1, <2>2, <2>3, <2>7
<1>3. ps \in A
  <2> HIDE DEF A
  <2> QED BY <1>1, <1>2, AppendInduction
<1> QED BY <1>3

LEMMA StackKeeps ==
  ASSUME NEW ps \in Seq(Text \ Dots)
  PROVE  ps \in Texts /\ StackOf(ps) = ps /\ StackOf(<< << >> >> \o ps) = ps
<1> DEFINE D == Text \ Dots
           A == {s \in Seq(D) : StackOf(s) = s}
<1>1. Seq(D) \subseteq Texts
  <2>1. D \subseteq Text
    OBVIOUS
  <2> QED BY <2>1, SeqMonotone DEF Texts
<1>2. << >> \in A
  BY StackOn
<1>3. ASSUME NEW s \in Seq(D), NEW x \in D, s \in A PROVE Append(s, x) \in A
  <2>1. s \in Texts /\ x \in Text /\ x \notin Dots /\ StackOf(s) = s
    BY <1>1, <1>3
  <2> HIDE DEF D
  <2>2. Append(s, x) \in Seq(D)
    OBVIOUS
  <2>3. StackOf(Append(s, x)) = Append(s, x)
    BY <2>1, StackOn DEF Stacked
  <2> QED BY <2>2, <2>3
<1>4. StackOf(ps) = ps
  <2>1. \A s \in Seq(D) : s \in A
    <3> HIDE DEF A, D
    <3> QED BY <1>2, <1>3, AppendInduction
  <2> QED BY <2>1
<1>5. << << >> >> \in Texts /\ StackOf(<< << >> >>) = << >>
  <2>1. << >> \in Text /\ << >> \in Texts
    BY TextConcat, TextsConcat
  <2>2. PICK e \in Text : e = << >>
    BY <2>1
  <2>3. Append(<< >>, e) = <<e>>
    OBVIOUS
  <2>4. StackOf(Append(<< >>, e)) = Stacked(<< >>, e) /\ <<e>> \in Texts
    BY <2>1, StackOn, TextsConcat
  <2>5. Stacked(<< >>, e) = << >>
    BY <2>2 DEF Stacked, Dots
  <2> QED BY <2>2, <2>3, <2>4, <2>5
<1>6. ps \in Texts
  BY <1>1
<1>7. StackOf(<< << >> >> \o ps) = ps
  <2>1. PICK e \in Texts, o \in Texts : e = << << >> >> /\ o = << >>
    BY <1>5, TextsConcat
  <2>2. StackOf(e) = StackOf(o)
    BY <1>5, <2>1, StackOn
  <2>3. StackOf(e \o ps) = StackOf(o \o ps)
    BY <1>6, <2>2, StackAfter
  <2>4. o \o ps = ps
    BY <1>6, <2>1, TextsConcat
  <2> QED BY <1>4, <2>1, <2>3, <2>4
<1> QED BY <1>4, <1>6, <1>7

\* The path with the components of a stack, cleaned from one that ended in last.
Cleaned(stack, last) ==
  IF stack = << >> THEN <<Slash>>
  ELSE Prefixed(stack, Slash) \o IF last \in Dots THEN <<Slash>> ELSE << >>

LEMMA CleanedIs ==
  ASSUME NEW path
  PROVE  CleanedPath(path) = Cleaned(StackOf(Split(path, Slash)), Last(Split(path, Slash)))
BY DEF CleanedPath, StackOf, Cleaned

LEMMA LastConcat ==
  ASSUME NEW P \in Texts, NEW Q \in Texts, Len(Q) >= 1
  PROVE  Last(P \o Q) = Last(Q)
<1>1. PICK m \in Nat, n \in Nat : m = Len(P) /\ n = Len(Q)
  BY DEF Texts
<1>2. Len(P \o Q) = m + n /\ (P \o Q)[m + n] = Q[n]
  BY <1>1 DEF Texts
<1> QED BY <1>1, <1>2 DEF Last

\* Concatenation by a name of its own, for the provers to reason about as a whole.
Glue(s, t) == s \o t

LEMMA Gluing ==
  /\ << >> \in Text
  /\ \A s, t \in Text : Glue(s, t) \in Text
  /\ \A s, t, u \in Text : Glue(s, Glue(t, u)) = Glue(Glue(s, t), u)
  /\ \A s \in Text : Glue(s, << >>) = s /\ Glue(<< >>, s) = s
  /\ \A b \in Byte : <<b>> \in Text
<1>1. \A s, t, u \in Text : Glue(s, Glue(t, u)) = Glue(Glue(s, t), u)
  <2> SUFFICES ASSUME NEW s \in Text, NEW t \in Text, NEW u \in Text
               PROVE  s \o (t \o u) = (s \o t) \o u
    BY Zenon DEF Glue
  <2> QED BY ConcatAssociative DEF Text
<1> QED BY <1>1, TextConcat DEF Glue

LEMMA GluingTexts ==
  /\ << >> \in Texts
  /\ \A s, t \in Texts : Glue(s, t) \in Texts
  /\ \A s, t, u \in Texts : Glue(s, Glue(t, u)) = Glue(Glue(s, t), u)
  /\ \A s \in Texts : Glue(s, << >>) = s /\ Glue(<< >>, s) = s
  /\ \A x \in Text : <<x>> \in Texts
  /\ \A s \in Texts, x \in Text : Append(s, x) = Glue(s, <<x>>)
<1>1. \A s, t, u \in Texts : Glue(s, Glue(t, u)) = Glue(Glue(s, t), u)
  <2> SUFFICES ASSUME NEW s \in Texts, NEW t \in Texts, NEW u \in Texts
               PROVE  s \o (t \o u) = (s \o t) \o u
    BY Zenon DEF Glue
  <2> QED BY ConcatAssociative DEF Texts
<1> QED BY <1>1, TextsConcat DEF Glue

LEMMA SplitGlued ==
  ASSUME NEW c \in Byte
  PROVE  \A a, b \in Text : Split(Glue(Glue(a, <<c>>), b), c) = Glue(Split(a, c), Split(b, c))
<1> SUFFICES ASSUME NEW a \in Text, NEW b \in Text
             PROVE  Split((a \o <<c>>) \o b, c) = Split(a, c) \o Split(b, c)
  BY Zenon DEF Glue
<1> QED BY SplitConcat

LEMMA SlashIsByte == Slash \in Byte /\ Dot \in Byte /\ Question \in Byte /\ Percent \in Byte
BY DEF Slash, Dot, Question, Percent, Byte

\* A component that does not stay makes no difference.
LEMMA CleanedSame ==
  ASSUME NEW a \in Text, NEW b \in Text, NEW I \in Texts, NEW P \in Texts,
         P = Split(a, Slash), StackOf(Glue(P, I)) = StackOf(P),
         NEW path, Split(path, Slash) = Glue(Glue(P, I), Split(b, Slash))
  PROVE  CleanedPath(path) = CleanedPath(Glue(Glue(a, <<Slash>>), b))
<1>1. PICK Q \in Texts : Q = Split(b, Slash) /\ Len(Q) >= 1
  BY SplitIs, SlashIsByte
<1>2. Split(Glue(Glue(a, <<Slash>>), b), Slash) = Glue(P, Q)
  BY <1>1, SplitGlued, SlashIsByte
<1>3. PICK R \in Texts : R = Glue(P, I)
  BY GluingTexts
<1>4. StackOf(Glue(R, Q)) = StackOf(Glue(P, Q))
  BY <1>3, StackAfter DEF Glue
<1>5. Last(Glue(R, Q)) = Last(Glue(P, Q))
  <2>1. Last(Glue(R, Q)) = Last(Q) /\ Last(Glue(P, Q)) = Last(Q)
    BY <1>1, LastConcat DEF Glue
  <2> QED BY <2>1
<1>6. CleanedPath(path) = Cleaned(StackOf(Glue(R, Q)), Last(Glue(R, Q)))
  BY <1>1, <1>3, CleanedIs
<1>7. CleanedPath(Glue(Glue(a, <<Slash>>), b)) = Cleaned(StackOf(Glue(P, Q)), Last(Glue(P, Q)))
  BY <1>2, CleanedIs
<1> QED BY <1>4, <1>5, <1>6, <1>7

LEMMA FrontAppend ==
  ASSUME NEW S, NEW s \in Seq(S), NEW x \in S
  PROVE  Append(s, x) # << >> /\ Front(Append(s, x)) = s
<1> DEFINE u == Append(s, x)
           n == Len(s)
<1>1. n \in Nat /\ u \in Seq(S) /\ Len(u) = n + 1 /\ \A i \in 1..n : u[i] = s[i]
  OBVIOUS
<1> HIDE DEF u, n
<1>2. SubSeq(u, 1, n) \in Seq(S) /\ Len(SubSeq(u, 1, n)) = n /\ \A i \in 1..n : SubSeq(u, 1, n)[i] = s[i]
  BY <1>1
<1>3. SubSeq(u, 1, n) = s
  BY <1>2, SeqEqual DEF n
<1>4. Front(u) = SubSeq(u, 1, n) /\ u # << >>
  BY <1>1 DEF Front
<1> QED BY <1>3, <1>4 DEF u

LEMMA SplitPart ==
  ASSUME NEW a \in Text, NEW x \in Text, Free(x, Slash)
  PROVE  Split(Glue(Glue(a, <<Slash>>), x), Slash) = Glue(Split(a, Slash), <<x>>)
<1>1. Split(x, Slash) = <<x>>
  BY SplitFree, SlashIsByte
<1> QED BY <1>1, SplitGlued, SlashIsByte

LEMMA PartDropped ==
  ASSUME NEW a \in Text, NEW b \in Text, NEW x \in Text, Free(x, Slash),
         x \in Dots, x # <<Dot, Dot>>, NEW s \in Text, s = <<Slash>>
  PROVE  CleanedPath(Glue(Glue(a, Glue(Glue(s, x), s)), b)) = CleanedPath(Glue(Glue(a, s), b))
<1>1. PICK P \in Texts, I \in Texts : P = Split(a, Slash) /\ I = <<x>>
  BY SplitIs, SlashIsByte, GluingTexts
<1>2. PICK y \in Text : y = Glue(Glue(a, s), x)
  BY Gluing
<1>3. Split(y, Slash) = Glue(P, I)
  BY <1>1, <1>2, SplitPart
<1>4. Split(Glue(Glue(y, s), b), Slash) = Glue(Glue(P, I), Split(b, Slash))
  BY <1>3, SplitGlued, SlashIsByte
<1>5. StackOf(Glue(P, I)) = StackOf(P)
  <2>1. Glue(P, I) = Append(P, x)
    BY <1>1, GluingTexts
  <2>2. StackOf(Append(P, x)) = Stacked(StackOf(P), x)
    BY StackOn
  <2>3. Stacked(StackOf(P), x) = StackOf(P)
    BY DEF Stacked
  <2> QED BY <2>1, <2>2, <2>3
<1>6. CleanedPath(Glue(Glue(y, s), b)) = CleanedPath(Glue(Glue(a, s), b))
  BY <1>1, <1>4, <1>5, CleanedSame
<1>7. Glue(a, Glue(Glue(s, x), s)) = Glue(y, s)
  BY <1>2, Gluing
<1> QED BY <1>6, <1>7

LEMMA PartsDropped ==
  ASSUME NEW a \in Text, NEW b \in Text, NEW x \in Text, Free(x, Slash), x \notin Dots,
         NEW d \in Text, Free(d, Slash), d \in Dots, d = <<Dot, Dot>>,
         NEW s \in Text, s = <<Slash>>
  PROVE  CleanedPath(Glue(Glue(a, Glue(Glue(Glue(Glue(s, x), s), d), s)), b))
           = CleanedPath(Glue(Glue(a, s), b))
<1>1. PICK P \in Texts, S \in Texts : P = Split(a, Slash) /\ S = StackOf(P)
  BY SplitIs, SlashIsByte, StackOn
<1>2. PICK X \in Texts, D \in Texts : X = <<x>> /\ D = <<d>>
  BY GluingTexts
<1>3. PICK y \in Text, z \in Text : y = Glue(Glue(a, s), x) /\ z = Glue(Glue(y, s), d)
  BY Gluing
<1>4. Split(y, Slash) = Glue(P, X) /\ Split(z, Slash) = Glue(Glue(P, X), D)
  <2>1. Split(y, Slash) = Glue(P, X)
    BY <1>1, <1>2, <1>3, SplitPart
  <2>2. Split(z, Slash) = Glue(Split(y, Slash), D)
    BY <1>2, <1>3, SplitPart
  <2> QED BY <2>1, <2>2
<1>5. PICK I \in Texts : I = Glue(X, D) /\ Glue(P, I) = Glue(Glue(P, X), D)
  BY GluingTexts
<1>6. Split(Glue(Glue(z, s), b), Slash) = Glue(Glue(P, I), Split(b, Slash))
  BY <1>4, <1>5, SplitGlued, SlashIsByte
<1>7. StackOf(Glue(P, I)) = StackOf(P)
  <2>1. PICK R \in Texts : R = Append(P, x) /\ R = Glue(P, X)
    BY <1>2, GluingTexts
  <2>2. Glue(P, I) = Append(R, d)
    <3>1. Append(R, d) = Glue(R, <<d>>)
      BY GluingTexts
    <3> QED BY <1>2, <1>5, <2>1, <3>1
  <2>3. StackOf(R) = Stacked(S, x) /\ StackOf(Append(R, d)) = Stacked(StackOf(R), d)
    BY <1>1, <2>1, StackOn
  <2>4. Append(S, x) # << >> /\ Front(Append(S, x)) = S
    BY FrontAppend DEF Texts
  <2>5. Stacked(S, x) = Append(S, x)
    BY DEF Stacked
  <2>6. Stacked(Append(S, x), d) = S
    BY <2>4 DEF Stacked
  <2> QED BY <1>1, <2>2, <2>3, <2>5, <2>6
<1>8. CleanedPath(Glue(Glue(z, s), b)) = CleanedPath(Glue(Glue(a, s), b))
  BY <1>1, <1>6, <1>7, CleanedSame
<1>9. Glue(a, Glue(Glue(Glue(Glue(s, x), s), d), s)) = Glue(z, s)
  <2>1. PICK u \in Text, v \in Text : u = Glue(Glue(s, x), s) /\ v = Glue(u, d)
    BY Gluing
  <2>2. Glue(a, Glue(v, s)) = Glue(Glue(a, v), s)
    BY Gluing
  <2>3. Glue(a, v) = Glue(Glue(a, u), d)
    BY <2>1, Gluing
  <2>4. Glue(a, u) = Glue(y, s)
    BY <1>3, <2>1, Gluing
  <2> QED BY <1>3, <2>1, <2>2, <2>3, <2>4
<1> QED BY <1>8, <1>9

LEMMA TupleOfTwo ==
  ASSUME NEW S, NEW w \in S, NEW x \in S
  PROVE  Glue(<<w>>, <<x>>) = <<w, x>>
<1> DEFINE l == <<w>> \o <<x>>
           r == <<w, x>>
<1>1. l \in Seq(S) /\ Len(l) = 2 /\ l[1] = w /\ l[2] = x
  OBVIOUS
<1>2. r \in Seq(S) /\ Len(r) = 2 /\ r[1] = w /\ r[2] = x
  OBVIOUS
<1> HIDE DEF l, r
<1>3. \A i \in 1..Len(l) : l[i] = r[i]
  BY <1>1, <1>2
<1>4. l = r
  BY <1>1, <1>2, <1>3, SeqEqual
<1> QED BY <1>4 DEF l, r, Glue

LEMMA TupleOfThree ==
  ASSUME NEW S, NEW w \in S, NEW x \in S, NEW y \in S
  PROVE  Glue(Glue(<<w>>, <<x>>), <<y>>) = <<w, x, y>>
<1> DEFINE l == (<<w>> \o <<x>>) \o <<y>>
           r == <<w, x, y>>
<1>1. l \in Seq(S) /\ Len(l) = 3 /\ l[1] = w /\ l[2] = x /\ l[3] = y
  OBVIOUS
<1>2. r \in Seq(S) /\ Len(r) = 3 /\ r[1] = w /\ r[2] = x /\ r[3] = y
  OBVIOUS
<1> HIDE DEF l, r
<1>3. \A i \in 1..Len(l) : l[i] = r[i]
  BY <1>1, <1>2
<1>4. l = r
  BY <1>1, <1>2, <1>3, SeqEqual
<1> QED BY <1>4, Zenon DEF l, r, Glue

LEMMA TupleOfSix ==
  ASSUME NEW S, NEW s \in S, NEW x \in S, NEW d \in S
  PROVE  Glue(Glue(Glue(Glue(<<s>>, <<x>>), <<s>>), <<d, d>>), <<s>>) = <<s, x, s, d, d, s>>
<1> DEFINE l == (((<<s>> \o <<x>>) \o <<s>>) \o <<d, d>>) \o <<s>>
           r == <<s, x, s, d, d, s>>
<1>1. l \in Seq(S) /\ Len(l) = 6 /\ l[1] = s /\ l[2] = x /\ l[3] = s /\ l[4] = d /\ l[5] = d /\ l[6] = s
  OBVIOUS
<1>2. r \in Seq(S) /\ Len(r) = 6 /\ r[1] = s /\ r[2] = x /\ r[3] = s /\ r[4] = d /\ r[5] = d /\ r[6] = s
  OBVIOUS
<1> HIDE DEF l, r
<1>3. \A i \in 1..Len(l) : l[i] = r[i]
  BY <1>1, <1>2
<1>4. l = r
  BY <1>1, <1>2, <1>3, SeqEqual
<1> QED BY <1>4, Zenon DEF l, r, Glue

\* A slash, and what may stand for it.
SlashForms == {<<Slash, Slash>>, <<Slash, Dot, Slash>>, <<Slash, 120, Slash, Dot, Dot, Slash>>}

LEMMA CleanedSlashes ==
  ASSUME NEW a \in Text, NEW b \in Text, NEW m \in SlashForms
  PROVE  CleanedPath(Glue(Glue(a, m), b)) = CleanedPath(Glue(Glue(a, <<Slash>>), b))
<1>1. Slash \in Byte /\ Dot \in Byte /\ 120 \in Byte
  BY DEF Slash, Dot, Byte
<1>2. PICK s \in Text : s = <<Slash>>
  BY <1>1, Gluing
<1>3. CASE m = <<Slash, Slash>>
  <2>1. PICK x \in Text : x = << >>
    BY Gluing
  <2>2. Free(x, Slash) /\ x \in Dots /\ x # <<Dot, Dot>>
    BY <2>1 DEF Free, Dots
  <2>3. m = Glue(Glue(s, x), s)
    <3>1. Glue(<<Slash>>, <<Slash>>) = <<Slash, Slash>>
      BY <1>1, TupleOfTwo
    <3>2. Glue(s, x) = s
      BY <2>1, Gluing
    <3> QED BY <1>2, <1>3, <3>1, <3>2
  <2> QED BY <1>2, <2>2, <2>3, PartDropped
<1>4. CASE m = <<Slash, Dot, Slash>>
  <2>1. PICK x \in Text : x = <<Dot>>
    BY <1>1, Gluing
  <2>2. Free(x, Slash) /\ x \in Dots /\ x # <<Dot, Dot>>
    BY <2>1 DEF Free, Dots, Slash, Dot
  <2>3. m = Glue(Glue(s, x), s)
    <3>1. Glue(Glue(<<Slash>>, <<Dot>>), <<Slash>>) = <<Slash, Dot, Slash>>
      BY <1>1, TupleOfThree
    <3> QED BY <1>2, <1>4, <2>1, <3>1
  <2> QED BY <1>2, <2>2, <2>3, PartDropped
<1>5. CASE m = <<Slash, 120, Slash, Dot, Dot, Slash>>
  <2>1. PICK x \in Text, d \in Text : x = <<120>> /\ d = <<Dot, Dot>>
    <3>1. <<120>> \in Text
      BY <1>1, Gluing
    <3>2. <<Dot, Dot>> \in Text
      BY <1>1 DEF Text
    <3> QED BY <3>1, <3>2
  <2>2. Free(x, Slash) /\ x \notin Dots /\ Free(d, Slash) /\ d \in Dots
    BY <2>1 DEF Free, Dots, Slash, Dot
  <2>3. m = Glue(Glue(Glue(Glue(s, x), s), d), s)
    <3>1. Glue(Glue(Glue(Glue(<<Slash>>, <<120>>), <<Slash>>), <<Dot, Dot>>), <<Slash>>)
            = <<Slash, 120, Slash, Dot, Dot, Slash>>
      BY <1>1, TupleOfSix
    <3> QED BY <1>2, <1>5, <2>1, <3>1
  <2> QED BY <1>2, <2>1, <2>2, <2>3, PartsDropped
<1> QED BY <1>3, <1>4, <1>5 DEF SlashForms

\* A set of texts that holds what is glued with c of texts in it.
GluedBy(G, c) == \A a, b \in G : Glue(Glue(a, <<c>>), b) \in G

LEMMA PrefixedWithin ==
  ASSUME NEW c \in Byte, NEW G \in SUBSET Text, << >> \in G, GluedBy(G, c), NEW ps \in Seq(G)
  PROVE  Prefixed(ps, c) \in G
<1>1. ASSUME NEW a \in G, NEW b \in G PROVE (a \o <<c>>) \o b \in G
  <2>1. Glue(Glue(a, <<c>>), b) \in G
    BY DEF GluedBy
  <2> QED BY <2>1, Zenon DEF Glue
<1> QED BY <1>1, PrefixedIn

LEMMA OneByte ==
  ASSUME NEW c \in Byte
  PROVE  <<c>> = Glue(Glue(<< >>, <<c>>), << >>) /\ <<c>> \in Text
<1>1. PICK s \in Text : s = <<c>>
  BY Gluing
<1>2. Glue(<< >>, s) = s /\ Glue(s, << >>) = s
  BY Gluing
<1> QED BY <1>1, <1>2

LEMMA SplitEnds ==
  ASSUME NEW c \in Byte
  PROVE  /\ Split(<< >>, c) = << << >> >> /\ << << >> >> \in Texts
         /\ Split(<<c>>, c) = Append(<< << >> >>, << >>)
         /\ \A a \in Text : Split(Glue(a, <<c>>), c) = Append(Split(a, c), << >>)
<1>1. Split(<< >>, c) = << << >> >> /\ << >> \in Text
  BY Gluing, SplitFree DEF Free
<1>2. << << >> >> \in Texts
  BY <1>1, GluingTexts
<1>3. ASSUME NEW a \in Text PROVE Split(Glue(a, <<c>>), c) = Append(Split(a, c), << >>)
  <2>1. PICK y \in Text : y = Glue(a, <<c>>)
    BY Gluing
  <2>2. Glue(y, << >>) = y
    BY Gluing
  <2>3. Split(Glue(y, << >>), c) = Glue(Split(a, c), Split(<< >>, c))
    BY <1>1, <2>1, SplitGlued
  <2>4. PICK P \in Texts : P = Split(a, c)
    BY SplitIs
  <2>5. Append(P, << >>) = Glue(P, << << >> >>)
    BY <1>1, GluingTexts
  <2> QED BY <1>1, <2>1, <2>2, <2>3, <2>4, <2>5
<1>4. Split(<<c>>, c) = Append(<< << >> >>, << >>)
  <2>1. Glue(<< >>, <<c>>) = <<c>>
    BY Gluing
  <2>2. Split(Glue(<< >>, <<c>>), c) = Append(Split(<< >>, c), << >>)
    BY <1>1, <1>3
  <2> QED BY <1>1, <2>1, <2>2
<1> QED BY <1>1, <1>2, <1>3, <1>4

LEMMA LastAppend ==
  ASSUME NEW P \in Texts, NEW x \in Text
  PROVE  Last(Append(P, x)) = x
<1>1. PICK n \in Nat : n = Len(P)
  BY DEF Texts
<1>2. Len(Append(P, x)) = n + 1 /\ Append(P, x)[n + 1] = x
  BY <1>1 DEF Texts
<1> QED BY <1>2 DEF Last

\* A path with the components of a stack has that stack.
LEMMA SplitCleaned ==
  ASSUME NEW st \in Seq(Pieces(Text, Slash) \ Dots), NEW last
  PROVE  /\ st \in Texts /\ Cleaned(st, last) \in Text
         /\ StackOf(Split(Cleaned(st, last), Slash)) = st
         /\ st # << >> => (Last(Split(Cleaned(st, last), Slash)) \in Dots <=> last \in Dots)
<1> DEFINE P == Cleaned(st, last)
           e == << << >> >>
<1>1. st \in Seq(Pieces(Text, Slash)) /\ st \in Seq(Text \ Dots)
  <2>1. /\ Pieces(Text, Slash) \ Dots \subseteq Pieces(Text, Slash)
        /\ Pieces(Text, Slash) \ Dots \subseteq Text \ Dots
    BY DEF Pieces
  <2> QED BY <2>1, SeqMonotone
<1>2. st \in Texts /\ StackOf(st) = st /\ StackOf(e \o st) = st
  BY <1>1, StackKeeps
<1>3. /\ Split(<<Slash>>, Slash) = Append(e, << >>) /\ e \in Texts /\ << >> \in Text
      /\ \A a \in Text : Split(Glue(a, <<Slash>>), Slash) = Append(Split(a, Slash), << >>)
  BY SplitEnds, SlashIsByte, Gluing
<1>4. \A x \in Texts : Stacked(x, << >>) = x
  BY DEF Stacked, Dots
<1>5. CASE st = << >>
  <2>1. P = <<Slash>> /\ P \in Text
    BY <1>5, SlashIsByte, OneByte DEF Cleaned
  <2>2. StackOf(e) = << >>
    <3>1. e \o st = e
      BY <1>3, <1>5, TextsConcat
    <3> QED BY <1>2, <1>5, <3>1
  <2>3. StackOf(Append(e, << >>)) = << >>
    <3> HIDE DEF e
    <3>1. StackOf(Append(e, << >>)) = Stacked(StackOf(e), << >>) /\ << >> \in Texts
      BY <1>3, StackOn, TextsConcat
    <3> QED BY <1>4, <2>2, <3>1
  <2> QED BY <1>2, <1>3, <1>5, <2>1, <2>3
<1>6. CASE st # << >>
  <2>1. PICK R \in Text : R = Prefixed(st, Slash)
    BY <1>2, PrefixedOn, SlashIsByte
  <2>2. Split(R, Slash) = e \o st
    BY <1>1, <2>1, SplitPrefixed, SlashIsByte
  <2>3. PICK E \in Texts : E = e \o st
    BY <1>2, <1>3, TextsConcat
  <2>4. Last(E) \notin Dots
    <3>1. Len(st) >= 1 /\ st[Len(st)] \in Text \ Dots
      BY <1>1, <1>6
    <3>2. Last(E) = Last(st)
      <4> HIDE DEF e
      <4> QED BY <1>2, <1>3, <2>3, <3>1, LastConcat
    <3> QED BY <3>1, <3>2 DEF Last
  <2>5. CASE last \in Dots
    <3>1. P = Glue(R, <<Slash>>) /\ P \in Text
      <4>1. Glue(R, <<Slash>>) \in Text
        BY Gluing, SlashIsByte
      <4> QED BY <1>6, <2>1, <2>5, <4>1 DEF Cleaned, Glue
    <3>2. Split(P, Slash) = Append(E, << >>)
      BY <1>3, <2>2, <2>3, <3>1
    <3>3. StackOf(Append(E, << >>)) = Stacked(StackOf(E), << >>)
      BY <1>3, StackOn
    <3>4. StackOf(Append(E, << >>)) = st
      BY <1>2, <1>4, <2>3, <3>3
    <3>5. Last(Append(E, << >>)) = << >> /\ << >> \in Dots
      BY <1>3, LastAppend DEF Dots
    <3> QED BY <1>2, <2>5, <3>1, <3>2, <3>4, <3>5
  <2>6. CASE last \notin Dots
    <3>1. P = R
      <4>1. R \o << >> = R
        BY TextConcat
      <4> QED BY <1>6, <2>1, <2>6, <4>1 DEF Cleaned
    <3> QED BY <1>2, <2>2, <2>3, <2>4, <2>6, <3>1
  <2> QED BY <2>5, <2>6
<1> QED BY <1>5, <1>6

\* A path that is clean is cleaned to itself, starts with a slash, and has the bytes
\* of the path that it was, whatever they are (cleanURLPath).
THEOREM CleanedAgain ==
  ASSUME NEW G, Closed(G), GluedBy(G, Slash), NEW path \in G
  PROVE  /\ CleanedPath(path) \in G
         /\ CleanedPath(CleanedPath(path)) = CleanedPath(path)
         /\ \E r \in Text : CleanedPath(path) = Glue(<<Slash>>, r)
<1> DEFINE D == Pieces(G, Slash)
           st == StackOf(Split(path, Slash))
           last == Last(Split(path, Slash))
<1>1. G \in SUBSET Text /\ << >> \in G /\ path \in Text
  BY DEF Closed
<1>2. Split(path, Slash) \in Seq(D)
  BY SplitPieces, SlashIsByte
<1>3. D \in SUBSET Text /\ D \ Dots \subseteq Pieces(Text, Slash) \ Dots /\ D \ Dots \subseteq G
  BY <1>1 DEF Pieces
<1>4. st \in Seq(D \ Dots)
  <2> HIDE DEF D
  <2> QED BY <1>2, <1>3, StackIn
<1>5. st \in Seq(Pieces(Text, Slash) \ Dots) /\ st \in Seq(G)
  BY <1>3, <1>4, SeqMonotone
<1>6. CleanedPath(path) = Cleaned(st, last)
  BY CleanedIs
<1> HIDE DEF st, last, D
<1>7. <<Slash>> \in G /\ <<Slash>> \in Text
  <2>1. Glue(Glue(<< >>, <<Slash>>), << >>) \in G
    BY <1>1 DEF GluedBy
  <2> QED BY <2>1, OneByte, SlashIsByte
<1>8. Prefixed(st, Slash) \in G
  BY <1>1, <1>5, PrefixedWithin, SlashIsByte
<1>9. Cleaned(st, last) \in G
  <2>1. Glue(Prefixed(st, Slash), << >>) \in G
    BY <1>1, <1>8, Gluing
  <2>2. Glue(Prefixed(st, Slash), <<Slash>>) \in G
    <3>1. PICK R \in G : R = Prefixed(st, Slash)
      BY <1>8
    <3>2. Glue(Glue(R, <<Slash>>), << >>) \in G
      BY <1>1 DEF GluedBy
    <3>3. Glue(R, <<Slash>>) \in Text
      BY <1>1, <1>7, Gluing
    <3>4. Glue(Glue(R, <<Slash>>), << >>) = Glue(R, <<Slash>>)
      BY <3>3, Gluing
    <3> QED BY <3>1, <3>2, <3>4
  <2> QED BY <1>7, <2>1, <2>2 DEF Cleaned, Glue
<1>10. CleanedPath(Cleaned(st, last)) = Cleaned(st, last)
  <2>1. CleanedPath(Cleaned(st, last)) = Cleaned(st, Last(Split(Cleaned(st, last), Slash)))
    BY <1>5, CleanedIs, SplitCleaned
  <2>2. st # << >> => (Last(Split(Cleaned(st, last), Slash)) \in Dots <=> last \in Dots)
    BY <1>5, SplitCleaned
  <2> QED BY <2>1, <2>2 DEF Cleaned
<1>11. \E r \in Text : Cleaned(st, last) = Glue(<<Slash>>, r)
  <2>1. CASE st = << >>
    <3>1. Cleaned(st, last) = <<Slash>>
      BY <2>1 DEF Cleaned
    <3> QED BY <1>7, <3>1, Gluing
  <2>2. CASE st # << >>
    <3>1. st \in Texts
      BY <1>5, SplitCleaned
    <3>2. PICK r \in Text : Prefixed(st, Slash) = Glue(<<Slash>>, r)
      BY <2>2, <3>1, PrefixedStarts, SlashIsByte DEF Glue
    <3>3. PICK w \in Text : Cleaned(st, last) = Glue(Glue(<<Slash>>, r), w)
      <4>1. << >> \in Text
        BY Gluing
      <4> QED BY <1>7, <2>2, <3>2, <4>1 DEF Cleaned, Glue
    <3>4. Glue(r, w) \in Text /\ Glue(Glue(<<Slash>>, r), w) = Glue(<<Slash>>, Glue(r, w))
      BY <1>7, Gluing
    <3> QED BY <3>3, <3>4
  <2> QED BY <2>1, <2>2
<1> QED BY <1>6, <1>9, <1>10, <1>11

----
(* Escapes are decoded in any order *)

\* s with the escape at i decoded.
Decoded(s, i) ==
  [j \in 1..Len(s) - 2 |-> IF j < i THEN s[j]
                           ELSE IF j = i THEN 16 * Unhex(s[i + 1]) + Unhex(s[i + 2]) ELSE s[j + 2]]

LEMMA UnhexRange ==
  ASSUME NEW b \in Int
  PROVE  Unhex(b) \in -1..15 /\ Unhex(Percent) = -1
BY DEF Unhex, Percent

LEMMA DecodedIs ==
  ASSUME NEW s \in Text, NEW i \in 1..Len(s), Escape(s, i)
  PROVE  /\ Decoded(s, i) \in Text /\ Len(Decoded(s, i)) = Len(s) - 2
         /\ i + 2 <= Len(s) /\ Len(s) \in Nat
         /\ \A j \in 1..Len(s) - 2 : /\ j < i => Decoded(s, i)[j] = s[j]
                                     /\ j > i => Decoded(s, i)[j] = s[j + 2]
         /\ Decoded(s, i)[i] = 16 * Unhex(s[i + 1]) + Unhex(s[i + 2])
<1> DEFINE v == 16 * Unhex(s[i + 1]) + Unhex(s[i + 2])
           n == Len(s)
<1>1. n \in Nat /\ i \in 1..n /\ i + 2 <= n /\ \A j \in 1..n : s[j] \in Byte
  BY DEF Text, Escape
<1>2. v \in Byte
  <2>1. s[i + 1] \in Byte /\ s[i + 2] \in Byte
    BY <1>1
  <2>2. s[i + 1] \in Int /\ s[i + 2] \in Int
    <3>1. \A b \in Byte : b \in Int
      BY DEF Byte
    <3> QED BY <2>1, <3>1
  <2>3. Unhex(s[i + 1]) \in -1..15 /\ Unhex(s[i + 2]) \in -1..15
    BY <2>2, UnhexRange
  <2>4. PICK x \in -1..15, y \in -1..15 : x = Unhex(s[i + 1]) /\ y = Unhex(s[i + 2])
    BY <2>3
  <2>5. x >= 0 /\ y >= 0
    BY <2>4 DEF Escape
  <2>6. x \in 0..15 /\ y \in 0..15
    BY <2>5
  <2>7. 16 * x + y \in 0..255
    BY <2>6
  <2> QED BY <2>4, <2>7 DEF Byte
<1> HIDE DEF v
<1>3. Decoded(s, i) = [j \in 1..n - 2 |-> IF j < i THEN s[j] ELSE IF j = i THEN v ELSE s[j + 2]]
  BY DEF Decoded, v
<1> HIDE DEF n
<1>4. \A j \in 1..n - 2 : (IF j < i THEN s[j] ELSE IF j = i THEN v ELSE s[j + 2]) \in Byte
  BY <1>1, <1>2
<1>5. n - 2 \in Nat /\ i \in 1..n - 2
  BY <1>1
<1>6. Decoded(s, i) \in Text
  BY <1>3, <1>4, <1>5 DEF Text
<1>7. Len(Decoded(s, i)) = n - 2
  BY <1>3, <1>5
<1> QED BY <1>1, <1>3, <1>5, <1>6, <1>7 DEF n, v

\* Two escapes do not overlap, and either is decoded first.
LEMMA EitherFirst ==
  ASSUME NEW s \in Text, NEW i \in 1..Len(s), NEW k \in 1..Len(s),
         Escape(s, i), Escape(s, k), i < k
  PROVE  /\ k - 2 \in 1..Len(Decoded(s, i)) /\ Escape(Decoded(s, i), k - 2)
         /\ i \in 1..Len(Decoded(s, k)) /\ Escape(Decoded(s, k), i)
         /\ Decoded(Decoded(s, i), k - 2) = Decoded(Decoded(s, k), i)
<1> DEFINE n == Len(s)
           a == Decoded(s, i)
           b == Decoded(s, k)
<1>1. /\ n \in Nat /\ i + 2 <= n /\ k + 2 <= n
      /\ s[i] = Percent /\ s[k] = Percent
      /\ Unhex(s[i + 1]) >= 0 /\ Unhex(s[i + 2]) >= 0
      /\ Unhex(s[k + 1]) >= 0 /\ Unhex(s[k + 2]) >= 0
  BY DEF Text, Escape
<1>2. k >= i + 3
  <2>1. Unhex(Percent) = -1
    BY UnhexRange
  <2>2. k # i + 1 /\ k # i + 2
    <3>1. s[i + 1] # Percent /\ s[i + 2] # Percent
      BY <1>1, <2>1
    <3> QED BY <1>1, <3>1
  <2> QED BY <1>1, <2>2
<1>3. /\ a \in Text /\ Len(a) = n - 2
      /\ \A j \in 1..n - 2 : (j < i => a[j] = s[j]) /\ (j > i => a[j] = s[j + 2])
      /\ a[i] = 16 * Unhex(s[i + 1]) + Unhex(s[i + 2])
  BY DecodedIs
<1>4. /\ b \in Text /\ Len(b) = n - 2
      /\ \A j \in 1..n - 2 : (j < k => b[j] = s[j]) /\ (j > k => b[j] = s[j + 2])
      /\ b[k] = 16 * Unhex(s[k + 1]) + Unhex(s[k + 2])
  BY DecodedIs
<1> HIDE DEF n, a, b
<1>5. k - 2 \in 1..Len(a) /\ a[k - 2] = s[k] /\ a[(k - 2) + 1] = s[k + 1] /\ a[(k - 2) + 2] = s[k + 2]
  <2>1. k - 2 \in 1..n - 2 /\ k - 2 > i /\ (k - 2) + 1 \in 1..n - 2 /\ (k - 2) + 2 \in 1..n - 2
    BY <1>1, <1>2 DEF n
  <2>2. (k - 2) + 2 = k /\ ((k - 2) + 1) + 2 = k + 1 /\ ((k - 2) + 2) + 2 = k + 2
    OBVIOUS
  <2>3. a[k - 2] = s[(k - 2) + 2] /\ a[(k - 2) + 1] = s[((k - 2) + 1) + 2] /\ a[(k - 2) + 2] = s[((k - 2) + 2) + 2]
    BY <1>3, <2>1
  <2> QED BY <1>3, <2>1, <2>2, <2>3
<1>6. i \in 1..Len(b) /\ b[i] = s[i] /\ b[i + 1] = s[i + 1] /\ b[i + 2] = s[i + 2]
  <2>1. i \in 1..n - 2 /\ i + 1 \in 1..n - 2 /\ i + 2 \in 1..n - 2 /\ i < k /\ i + 1 < k /\ i + 2 < k
    BY <1>1, <1>2 DEF n
  <2> QED BY <1>4, <2>1
<1>7. Escape(a, k - 2)
  BY <1>1, <1>3, <1>5 DEF Escape
<1>8. Escape(b, i)
  BY <1>1, <1>2, <1>4, <1>6 DEF Escape
<1> DEFINE c == Decoded(a, k - 2)
           d == Decoded(b, i)
<1>9. /\ c \in Text /\ Len(c) = n - 4
      /\ \A j \in 1..n - 4 : (j < k - 2 => c[j] = a[j]) /\ (j > k - 2 => c[j] = a[j + 2])
      /\ c[k - 2] = 16 * Unhex(s[k + 1]) + Unhex(s[k + 2])
  <2>1. (n - 2) - 2 = n - 4
    BY <1>1
  <2>2. PICK m \in 1..Len(a) : m = k - 2
    BY <1>5
  <2>3. Escape(a, m)
    BY <1>7, <2>2
  <2>4. /\ Decoded(a, m) \in Text /\ Len(Decoded(a, m)) = Len(a) - 2
        /\ \A j \in 1..Len(a) - 2 : /\ j < m => Decoded(a, m)[j] = a[j]
                                    /\ j > m => Decoded(a, m)[j] = a[j + 2]
        /\ Decoded(a, m)[m] = 16 * Unhex(a[m + 1]) + Unhex(a[m + 2])
    BY <1>3, <2>3, DecodedIs
  <2>5. c = Decoded(a, m)
    BY <2>2
  <2> HIDE DEF c
  <2> QED BY <1>3, <1>5, <2>1, <2>2, <2>4, <2>5
<1>10. /\ d \in Text /\ Len(d) = n - 4
       /\ \A j \in 1..n - 4 : (j < i => d[j] = b[j]) /\ (j > i => d[j] = b[j + 2])
       /\ d[i] = 16 * Unhex(s[i + 1]) + Unhex(s[i + 2])
  <2>1. (n - 2) - 2 = n - 4
    BY <1>1
  <2>2. /\ Decoded(b, i) \in Text /\ Len(Decoded(b, i)) = Len(b) - 2
        /\ \A j \in 1..Len(b) - 2 : /\ j < i => Decoded(b, i)[j] = b[j]
                                    /\ j > i => Decoded(b, i)[j] = b[j + 2]
        /\ Decoded(b, i)[i] = 16 * Unhex(b[i + 1]) + Unhex(b[i + 2])
    BY <1>4, <1>6, <1>8, DecodedIs
  <2>3. d = Decoded(b, i)
    OBVIOUS
  <2> HIDE DEF d
  <2> QED BY <1>4, <1>6, <2>1, <2>2, <2>3
<1> HIDE DEF c, d
<1>11. ASSUME NEW j \in 1..n - 4 PROVE c[j] = d[j]
  <2>1. n \in Int /\ i \in Int /\ k \in Int
    BY <1>1
  <2>2. CASE j < i
    <3>1. j \in 1..n - 2 /\ j < k - 2 /\ j < k
      BY <1>2, <2>1, <2>2
    <3>2. c[j] = a[j] /\ a[j] = s[j] /\ d[j] = b[j] /\ b[j] = s[j]
      BY <1>3, <1>4, <1>9, <1>10, <2>2, <3>1
    <3> QED BY <3>2
  <2>3. CASE j = i
    <3>1. j < k - 2
      BY <1>2, <2>1, <2>3
    <3>2. c[j] = a[j]
      BY <1>9, <3>1
    <3> QED BY <1>3, <1>10, <2>3, <3>2
  <2>4. CASE j > i /\ j < k - 2
    <3>1. j \in 1..n - 2 /\ j + 2 \in 1..n - 2 /\ j + 2 < k
      BY <2>1, <2>4
    <3>2. c[j] = a[j] /\ a[j] = s[j + 2] /\ d[j] = b[j + 2] /\ b[j + 2] = s[j + 2]
      BY <1>3, <1>4, <1>9, <1>10, <2>4, <3>1
    <3> QED BY <3>2
  <2>5. CASE j = k - 2
    <3>1. j > i /\ j + 2 = k
      BY <1>2, <2>1, <2>5
    <3>2. d[j] = b[j + 2]
      BY <1>10, <3>1
    <3> QED BY <1>4, <1>9, <2>5, <3>1, <3>2
  <2>6. CASE j > k - 2
    <3>1. j > i /\ j + 2 \in 1..n - 2 /\ j + 2 > k /\ j + 2 > i
      BY <1>2, <2>1, <2>6
    <3>2. c[j] = a[j + 2] /\ a[j + 2] = s[(j + 2) + 2] /\ d[j] = b[j + 2] /\ b[j + 2] = s[(j + 2) + 2]
      BY <1>3, <1>4, <1>9, <1>10, <2>6, <3>1
    <3> QED BY <3>2
  <2> QED BY <2>1, <2>2, <2>3, <2>4, <2>5, <2>6
<1>12. c = d
  <2>1. c \in Seq(Byte) /\ d \in Seq(Byte)
    BY <1>9, <1>10 DEF Text
  <2> QED BY <1>9, <1>10, <1>11, <2>1, SeqEqual
<1> QED BY <1>5, <1>6, <1>7, <1>8, <1>12 DEF a, b, c, d

\* The string of a pass: what it has put out, and what it has not read.
Current(s, st) ==
  [j \in 1..(Len(st.out) + Len(s)) - (st.at - 1) |->
     IF j <= Len(st.out) THEN st.out[j] ELSE s[(j - Len(st.out)) + (st.at - 1)]]

\* A step of a pass decodes an escape of this string, or leaves it as it is.
LEMMA PassDecodes ==
  ASSUME NEW s \in Seq(Int), NEW st \in Passing(s), Current(s, st) \in Text
  PROVE  LET t == PassStep(s, st)
             z == Current(s, st)
             p == Len(st.out) + 1
         IN \/ Current(s, t) = z
            \/ p \in 1..Len(z) /\ Escape(z, p) /\ Current(s, t) = Decoded(z, p)
<1> DEFINE z == Current(s, st)
           t == PassStep(s, st)
           G == \/ Current(s, t) = z
                \/ /\ Len(st.out) + 1 \in 1..Len(z) /\ Escape(z, Len(st.out) + 1)
                   /\ Current(s, t) = Decoded(z, Len(st.out) + 1)
<1> SUFFICES G
  OBVIOUS
<1>1. PICK at \in 1..Len(s) + 1, out \in Seq(Int) : st = [at |-> at, out |-> out]
  <2>1. st = [at |-> st.at, out |-> st.out]
    BY DEF Passing
  <2> QED BY <2>1 DEF Passing
<1>2. st.at = at /\ st.out = out
  BY <1>1
<1>3. PICK n \in Nat, m \in Nat : n = Len(s) /\ m = Len(out)
  OBVIOUS
<1>4. /\ at \in 1..n + 1
      /\ z = [j \in 1..(m + n) - (at - 1) |-> IF j <= m THEN out[j] ELSE s[(j - m) + (at - 1)]]
  BY <1>2, <1>3 DEF Current
<1>5. Len(z) = (m + n) - (at - 1)
  <2>1. (m + n) - (at - 1) \in Nat
    BY <1>4
  <2> QED BY <1>4, <2>1
<1> HIDE DEF z, G
<1>6. CASE at > n
  <2>1. t = st
    BY <1>1, <1>3, <1>6 DEF PassStep
  <2> QED BY <2>1 DEF z, G
<1>7. CASE at <= n /\ ~Escape(s, at)
  <2> DEFINE u == [at |-> at + 1, out |-> Append(out, s[at])]
  <2>1. t = u
    BY <1>1, <1>3, <1>7 DEF PassStep
  <2>2. u.at = at + 1 /\ u.out = Append(out, s[at])
    OBVIOUS
  <2>3. /\ Len(Append(out, s[at])) = m + 1 /\ Append(out, s[at])[m + 1] = s[at]
        /\ \A j \in 1..m : Append(out, s[at])[j] = out[j]
    <3>1. s[at] \in Int
      BY <1>3, <1>4, <1>7
    <3> QED BY <1>3, <3>1
  <2> HIDE DEF u, t
  <2>4. Current(s, u) = [j \in 1..((m + 1) + n) - at |->
                           IF j <= m + 1 THEN Append(out, s[at])[j] ELSE s[(j - (m + 1)) + at]]
    <3>1. (at + 1) - 1 = at
      BY <1>4
    <3> QED BY <1>3, <2>2, <2>3, <3>1 DEF Current
  <2>5. ((m + 1) + n) - at = (m + n) - (at - 1)
    BY <1>4
  <2>6. ASSUME NEW j \in 1..(m + n) - (at - 1)
        PROVE  (IF j <= m + 1 THEN Append(out, s[at])[j] ELSE s[(j - (m + 1)) + at])
                 = IF j <= m THEN out[j] ELSE s[(j - m) + (at - 1)]
    <3>1. CASE j <= m
      BY <1>4, <2>3, <3>1
    <3>2. CASE j = m + 1
      <4>1. (j - m) + (at - 1) = at /\ ~(j <= m)
        BY <1>4, <3>2
      <4> QED BY <2>3, <3>2, <4>1
    <3>3. CASE j > m + 1
      <4>1. (j - m) + (at - 1) = (j - (m + 1)) + at /\ ~(j <= m) /\ ~(j <= m + 1)
        BY <1>4, <3>3
      <4> QED BY <4>1
    <3> QED BY <1>3, <3>1, <3>2, <3>3
  <2>7. Current(s, u) = z
    BY <1>4, <2>4, <2>5, <2>6
  <2> QED BY <2>1, <2>7 DEF G
<1>8. CASE at <= n /\ Escape(s, at)
  <2> DEFINE x == 16 * Unhex(s[at + 1]) + Unhex(s[at + 2])
             u == [at |-> at + 3, out |-> Append(out, x)]
             p == m + 1
  <2>1. t = u
    BY <1>1, <1>3, <1>8 DEF PassStep
  <2>2. u.at = at + 3 /\ u.out = Append(out, x)
    OBVIOUS
  <2>3. at + 2 <= n /\ s[at] = Percent /\ Unhex(s[at + 1]) >= 0 /\ Unhex(s[at + 2]) >= 0
    BY <1>3, <1>8 DEF Escape
  <2>4. x \in Int
    <3>1. s[at + 1] \in Int /\ s[at + 2] \in Int
      BY <1>3, <1>4, <2>3
    <3>2. Unhex(s[at + 1]) \in Int /\ Unhex(s[at + 2]) \in Int
      BY <3>1, UnhexIsInt
    <3> QED BY <3>2
  <2>5. z[p] = s[at] /\ z[p + 1] = s[at + 1] /\ z[p + 2] = s[at + 2] /\ p \in 1..Len(z) /\ p + 2 <= Len(z)
    <3>1. /\ p \in 1..(m + n) - (at - 1) /\ p + 1 \in 1..(m + n) - (at - 1)
          /\ p + 2 \in 1..(m + n) - (at - 1)
      BY <1>4, <2>3
    <3>2. (p - m) + (at - 1) = at /\ ((p + 1) - m) + (at - 1) = at + 1 /\ ((p + 2) - m) + (at - 1) = at + 2
      BY <1>4
    <3>3. ~(p <= m) /\ ~(p + 1 <= m) /\ ~(p + 2 <= m)
      OBVIOUS
    <3> HIDE DEF p
    <3> QED BY <1>4, <1>5, <3>1, <3>2, <3>3
  <2> HIDE DEF x, u, t
  <2>6. Escape(z, p)
    BY <2>3, <2>5 DEF Escape
  <2>7. /\ Len(Append(out, x)) = m + 1 /\ Append(out, x)[m + 1] = x
        /\ \A j \in 1..m : Append(out, x)[j] = out[j]
    BY <1>3, <2>4
  <2>8. Current(s, u) = [j \in 1..((m + 1) + n) - (at + 2) |->
                           IF j <= m + 1 THEN Append(out, x)[j] ELSE s[(j - (m + 1)) + (at + 2)]]
    <3>1. (at + 3) - 1 = at + 2
      BY <1>4
    <3> QED BY <1>3, <2>2, <2>7, <3>1 DEF Current
  <2>9. Decoded(z, p) = [j \in 1..((m + n) - (at - 1)) - 2 |-> IF j < p THEN z[j] ELSE IF j = p THEN x ELSE z[j + 2]]
    BY <1>5, <2>5 DEF Decoded, x
  <2>10. ((m + 1) + n) - (at + 2) = ((m + n) - (at - 1)) - 2
    BY <1>4
  <2>11. ASSUME NEW j \in 1..((m + n) - (at - 1)) - 2
         PROVE  (IF j <= m + 1 THEN Append(out, x)[j] ELSE s[(j - (m + 1)) + (at + 2)])
                  = IF j < p THEN z[j] ELSE IF j = p THEN x ELSE z[j + 2]
    <3>1. CASE j <= m
      <4>1. j < p /\ j <= m + 1 /\ j \in 1..m /\ j \in 1..(m + n) - (at - 1)
        BY <1>4, <3>1
      <4> QED BY <1>4, <2>7, <3>1, <4>1
    <3>2. CASE j = m + 1
      BY <2>7, <3>2
    <3>3. CASE j > m + 1
      <4>1. /\ j + 2 \in 1..(m + n) - (at - 1) /\ ~(j + 2 <= m) /\ ~(j <= m + 1) /\ ~(j < p) /\ j # p
            /\ ((j + 2) - m) + (at - 1) = (j - (m + 1)) + (at + 2)
        BY <1>4, <3>3
      <4>2. z[j + 2] = s[((j + 2) - m) + (at - 1)]
        BY <1>4, <4>1
      <4> QED BY <4>1, <4>2
    <3>4. j <= m \/ j = m + 1 \/ j > m + 1
      BY <1>4
    <3> HIDE DEF p
    <3> QED BY <3>1, <3>2, <3>3, <3>4
  <2>12. Current(s, u) = Decoded(z, p)
    BY <2>8, <2>9, <2>10, <2>11
  <2> QED BY <1>2, <1>3, <2>1, <2>5, <2>6, <2>12 DEF G
<1> QED BY <1>3, <1>4, <1>6, <1>7, <1>8

LEMMA CurrentEnds ==
  ASSUME NEW s \in Text, NEW st \in Passing(s)
  PROVE  /\ st = [at |-> 1, out |-> << >>] => Current(s, st) = s
         /\ st.at = Len(s) + 1 => Current(s, st) = st.out
<1>1. PICK n \in Nat : n = Len(s)
  BY DEF Text
<1>2. s = [j \in 1..n |-> s[j]]
  BY <1>1 DEF Text
<1>3. ASSUME st = [at |-> 1, out |-> << >>] PROVE Current(s, st) = s
  <2>1. st.at = 1 /\ st.out = << >> /\ Len(<< >>) = 0
    BY <1>3
  <2>2. Current(s, st) = [j \in 1..(0 + n) - (1 - 1) |-> IF j <= 0 THEN << >>[j] ELSE s[(j - 0) + (1 - 1)]]
    BY <1>1, <2>1 DEF Current
  <2>3. (0 + n) - (1 - 1) = n /\ \A j \in 1..n : ~(j <= 0) /\ (j - 0) + (1 - 1) = j
    OBVIOUS
  <2> QED BY <1>2, <2>2, <2>3
<1>4. ASSUME st.at = Len(s) + 1 PROVE Current(s, st) = st.out
  <2>1. PICK out \in Seq(Int), m \in Nat : out = st.out /\ m = Len(out)
    BY DEF Passing
  <2>2. out = [j \in 1..m |-> out[j]]
    BY <2>1
  <2>3. (m + n) - ((n + 1) - 1) = m /\ \A j \in 1..m : j <= m
    OBVIOUS
  <2>4. Current(s, st) = [j \in 1..(m + n) - ((n + 1) - 1) |->
                            IF j <= m THEN out[j] ELSE s[(j - m) + ((n + 1) - 1)]]
    BY <1>1, <1>4, <2>1 DEF Current
  <2> QED BY <2>1, <2>2, <2>3, <2>4
<1> QED BY <1>3, <1>4

LEMMA TextIsInts == Text \subseteq Seq(Int)
<1>1. Byte \subseteq Int
  BY DEF Byte
<1> QED BY <1>1, SeqMonotone DEF Text

\* What is decoded is not told apart by which escapes went first.
LEMMA PassedSame ==
  ASSUME NEW s \in Seq(Int)
  PROVE  /\ ~HasEscape(s) => Unescaped(s) = s
         /\ HasEscape(s) => Unescaped(s) = Unescaped(Pass(s))
<1> DEFINE S == Seq(Int)
           n == Len(s)
<1>1. PICK f \in [Nat -> S] :
        /\ f[0] = s /\ \A k \in Nat : f[k + 1] = Passed(f[k])
        /\ Unescaped(s) = f[n] /\ ~HasEscape(f[n])
  BY Passes
<1>2. n \in Nat
  OBVIOUS
\* Nothing changes from a round without an escape on.
<1>3. ASSUME NEW a \in Nat, NEW g \in [Nat -> S], \A k \in Nat : g[k + 1] = Passed(g[k]), ~HasEscape(g[a])
      PROVE  \A d \in Nat : g[a + d] = g[a]
  <2> DEFINE U == {d \in Nat : g[a + d] = g[a]}
  <2>1. 0 \in U
    OBVIOUS
  <2>2. ASSUME NEW d \in Nat, d \in U PROVE d + 1 \in U
    <3>1. a + d \in Nat /\ a + (d + 1) = (a + d) + 1 /\ g[a + d] = g[a]
      BY <2>2
    <3>2. g[(a + d) + 1] = Passed(g[a + d])
      BY <1>3, <3>1
    <3>3. Passed(g[a]) = g[a]
      BY <1>3 DEF Passed
    <3> QED BY <3>1, <3>2, <3>3
  <2> HIDE DEF U
  <2>3. \A d \in Nat : d \in U
    BY <2>1, <2>2, Induction
  <2> QED BY <2>3 DEF U
<1>4. ASSUME ~HasEscape(s) PROVE Unescaped(s) = s
  <2>1. f[0 + n] = f[0]
    BY <1>1, <1>2, <1>3, <1>4
  <2> QED BY <1>1, <1>2, <2>1
<1>5. ASSUME HasEscape(s) PROVE Unescaped(s) = Unescaped(Pass(s))
  <2> DEFINE t == Pass(s)
             m == Len(t)
  <2>1. t \in S /\ m \in Nat /\ m < n
    BY <1>5, PassShortens
  <2>2. PICK g \in [Nat -> S] :
        /\ g[0] = t /\ \A k \in Nat : g[k + 1] = Passed(g[k])
        /\ Unescaped(t) = g[m] /\ ~HasEscape(g[m])
    BY <2>1, Passes
  <2>3. \A d \in Nat : g[d] = f[d + 1]
    <3> DEFINE U == {d \in Nat : g[d] = f[d + 1]}
    <3>1. 0 \in U
      <4>1. f[0 + 1] = Passed(f[0])
        BY <1>1
      <4>2. Passed(s) = t
        BY <1>5 DEF Passed
      <4> HIDE DEF t
      <4> QED BY <1>1, <2>2, <4>1, <4>2
    <3>2. ASSUME NEW d \in Nat, d \in U PROVE d + 1 \in U
      <4>1. g[d + 1] = Passed(g[d]) /\ f[(d + 1) + 1] = Passed(f[d + 1]) /\ g[d] = f[d + 1]
        BY <1>1, <2>2, <3>2
      <4> QED BY <4>1
    <3> HIDE DEF U
    <3>3. \A d \in Nat : d \in U
      BY <3>1, <3>2, Induction
    <3> QED BY <3>3 DEF U
  <2> HIDE DEF m, t, n
  <2>4. n - 1 \in Nat /\ n - (m + 1) \in Nat /\ m + (n - (m + 1)) = n - 1 /\ (n - 1) + 1 = n
    BY <1>2, <2>1
  <2>5. g[m + (n - (m + 1))] = g[m]
    BY <1>3, <2>1, <2>2, <2>4
  <2>6. g[n - 1] = f[(n - 1) + 1]
    BY <2>3, <2>4
  <2> QED BY <1>1, <2>2, <2>4, <2>5, <2>6 DEF t
<1> QED BY <1>4, <1>5

LEMMA HasEscapeIs ==
  ASSUME NEW s \in Seq(Int)
  PROVE  HasEscape(s) <=> \E i \in 1..Len(s) : Escape(s, i)
BY DEF HasEscape

\* The order in which escapes are decoded, and where a pass ends, make no difference:
\* after any one of them is decoded, the rest of unescapeRepeated gives the same.
THEOREM DecodedSame ==
  \A s \in Text : \A i \in 1..Len(s) : Escape(s, i) => Unescaped(Decoded(s, i)) = Unescaped(s)
<1> DEFINE Same(s) == \A i \in 1..Len(s) : Escape(s, i) => Unescaped(Decoded(s, i)) = Unescaped(s)
           A == {s \in Text : Same(s)}
<1> HIDE DEF Same
<1>1. ASSUME NEW s \in Text, \A t \in Text : Len(t) < Len(s) => Same(t) PROVE Same(s)
  <2> SUFFICES ASSUME NEW i \in 1..Len(s), Escape(s, i)
               PROVE  Unescaped(Decoded(s, i)) = Unescaped(s)
    BY DEF Same
  <2>1. s \in Seq(Int) /\ Len(s) \in Nat
    BY TextIsInts DEF Text
  <2>2. HasEscape(s)
    BY <2>1, HasEscapeIs
  <2> DEFINE t == Decoded(s, i)
             n == Len(s)
  <2>3. t \in Text /\ Len(t) = n - 2 /\ n \in Nat
    BY DecodedIs
  <2>4. PICK f \in [Nat -> Passing(s)] :
           /\ f[0] = [at |-> 1, out |-> << >>]
           /\ \A k \in Nat : f[k + 1] = PassStep(s, f[k])
           /\ Pass(s) = f[n].out /\ f[n].at = n + 1
    BY <2>1, PassEnds
  <2> HIDE DEF t, n
  \* The string of the pass is still s, or unescapes to what t does.
  <2> DEFINE Fine(z) == z \in Text /\ (z = s \/ (Len(z) < n /\ Unescaped(z) = Unescaped(t)))
             U == {k \in Nat : Fine(Current(s, f[k]))}
  <2>5. 0 \in U
    <3>1. f[0] \in Passing(s)
      OBVIOUS
    <3>2. Current(s, f[0]) = s
      BY <2>4, <3>1, CurrentEnds
    <3>3. Fine(Current(s, f[0]))
      <4>1. Fine(s)
        OBVIOUS
      <4> HIDE DEF Fine
      <4> QED BY <3>2, <4>1
    <3> HIDE DEF Fine
    <3> QED BY <3>3
  <2>6. ASSUME NEW k \in Nat, k \in U PROVE k + 1 \in U
    <3> DEFINE z == Current(s, f[k])
               y == Current(s, f[k + 1])
    <3>1. Fine(z)
      BY <2>6
    <3>2. f[k] \in Passing(s) /\ f[k + 1] = PassStep(s, f[k])
      BY <2>4
    <3>3. y = z \/ \E p \in 1..Len(z) : Escape(z, p) /\ y = Decoded(z, p)
      BY <2>1, <3>1, <3>2, PassDecodes
    <3> HIDE DEF z, y
    <3>4. CASE y = z
      BY <3>1, <3>4 DEF y
    <3>5. CASE \E p \in 1..Len(z) : Escape(z, p) /\ y = Decoded(z, p)
      <4>1. PICK p \in 1..Len(z) : Escape(z, p) /\ y = Decoded(z, p)
        BY <3>5
      <4>2. y \in Text /\ Len(y) = Len(z) - 2 /\ Len(z) \in Nat
        BY <3>1, <4>1, DecodedIs
      <4>3. CASE z # s
        <5>1. Len(z) < n /\ Unescaped(z) = Unescaped(t)
          BY <3>1, <4>3
        <5>2. Same(z)
          BY <1>1, <3>1, <5>1 DEF n
        <5>3. Unescaped(y) = Unescaped(z)
          BY <4>1, <5>2 DEF Same
        <5>4. Len(y) < n
          BY <2>3, <4>2, <5>1
        <5> QED BY <4>2, <5>1, <5>3, <5>4 DEF y
      <4>4. CASE z = s
        <5>1. p \in 1..Len(s) /\ Escape(s, p) /\ y = Decoded(s, p) /\ Len(y) = n - 2
          BY <4>1, <4>2, <4>4 DEF n
        <5>2. Len(y) < n /\ Len(t) < n
          BY <2>3, <5>1
        <5>3. Same(y) /\ Same(t)
          BY <1>1, <2>3, <4>2, <5>2 DEF n
        <5>4. \/ y = t
              \/ \E q \in 1..Len(y), r \in 1..Len(t) :
                   Escape(y, q) /\ Escape(t, r) /\ Decoded(y, q) = Decoded(t, r)
          <6>1. CASE p = i
            BY <5>1, <6>1 DEF t
          <6>2. CASE p < i
            <7>1. /\ i - 2 \in 1..Len(y) /\ Escape(y, i - 2)
                  /\ p \in 1..Len(t) /\ Escape(t, p)
                  /\ Decoded(y, i - 2) = Decoded(t, p)
              BY <5>1, <6>2, EitherFirst DEF t
            <7> QED BY <7>1
          <6>3. CASE i < p
            <7>1. /\ p - 2 \in 1..Len(t) /\ Escape(t, p - 2)
                  /\ i \in 1..Len(y) /\ Escape(y, i)
                  /\ Decoded(t, p - 2) = Decoded(y, i)
              BY <5>1, <6>3, EitherFirst DEF t
            <7> QED BY <7>1
          <6> QED BY <5>1, <6>1, <6>2, <6>3
        <5>5. Unescaped(y) = Unescaped(t)
          BY <5>3, <5>4 DEF Same
        <5> QED BY <4>2, <5>2, <5>5 DEF y
      <4> QED BY <4>3, <4>4
    <3> QED BY <3>3, <3>4, <3>5
  <2>7. n \in U
    <3> HIDE DEF U
    <3> QED BY <2>3, <2>5, <2>6, Induction
  <2>8. Current(s, f[n]) = Pass(s)
    BY <2>3, <2>4, CurrentEnds DEF n
  <2>9. Len(Pass(s)) < Len(s) /\ Unescaped(s) = Unescaped(Pass(s))
    BY <2>1, <2>2, PassShortens, PassedSame
  <2>10. Pass(s) # s
    BY <2>1, <2>9
  <2> QED BY <2>7, <2>8, <2>9, <2>10 DEF t
<1>2. \A s \in Seq(Byte) : s \in A
  <2>1. ASSUME NEW s \in Seq(Byte), \A t \in Seq(Byte) : Len(t) < Len(s) => t \in A PROVE s \in A
    <3>1. \A t \in Text : Len(t) < Len(s) => Same(t)
      BY <2>1 DEF Text
    <3> QED BY <1>1, <3>1 DEF Text
  <2> HIDE DEF A
  <2> QED BY <2>1, LengthInduction
<1> QED BY <1>2 DEF Text, Same

LEMMA GlueAt ==
  ASSUME NEW a \in Text, NEW b \in Text
  PROVE  /\ Glue(a, b) \in Text /\ Len(a) \in Nat /\ Len(b) \in Nat
         /\ Len(Glue(a, b)) = Len(a) + Len(b)
         /\ \A i \in 1..Len(a) : Glue(a, b)[i] = a[i]
         /\ \A i \in 1..Len(b) : Glue(a, b)[Len(a) + i] = b[i]
<1>1. PICK m \in Nat, n \in Nat : m = Len(a) /\ n = Len(b)
  BY DEF Text
<1>2. a \o b \in Text /\ Len(a \o b) = m + n
  BY <1>1 DEF Text
<1>3. \A i \in 1..m : (a \o b)[i] = a[i]
  BY <1>1 DEF Text
<1>4. \A i \in 1..n : (a \o b)[m + i] = b[i]
  BY <1>1 DEF Text
<1> QED BY <1>1, <1>2, <1>3, <1>4 DEF Glue

LEMMA TextAt ==
  /\ \A s \in Text : Len(s) \in Nat
  /\ \A s \in Text : \A i \in 1..Len(s) : s[i] \in Byte
  /\ \A b \in Byte : b \in Int /\ b \in 0..255
  /\ \A b \in Byte : Len(<<b>>) = 1 /\ <<b>>[1] = b
<1>1. \A s \in Text : Len(s) \in Nat
  BY DEF Text
<1>2. \A s \in Text : \A i \in 1..Len(s) : s[i] \in Byte
  BY DEF Text
<1>3. \A b \in Byte : b \in Int /\ b \in 0..255
  BY DEF Byte
<1>4. \A b \in Byte : Len(<<b>>) = 1 /\ <<b>>[1] = b
  OBVIOUS
<1> QED BY <1>1, <1>2, <1>3, <1>4

LEMMA TextEqual ==
  ASSUME NEW s \in Text, NEW t \in Text, Len(s) = Len(t), \A i \in 1..Len(s) : s[i] = t[i]
  PROVE  s = t
BY SeqEqual DEF Text

LEMMA UnescapedText ==
  ASSUME NEW s \in Text
  PROVE  Unescaped(s) \in Text /\ ~HasEscape(Unescaped(s)) /\ (~HasEscape(s) => Unescaped(s) = s)
<1> DEFINE A == {t \in Text : Unescaped(t) \in Text}
<1>1. \A t \in Text : t \in Seq(Int)
  BY TextIsInts
<1>2. ASSUME NEW t \in Seq(Byte), \A u \in Seq(Byte) : Len(u) < Len(t) => u \in A PROVE t \in A
  <2>1. t \in Text
    BY <1>2 DEF Text
  <2>2. CASE ~HasEscape(t)
    BY <1>1, <2>1, <2>2, PassedSame
  <2>3. CASE HasEscape(t)
    <3>1. PICK i \in 1..Len(t) : Escape(t, i)
      BY <1>1, <2>1, <2>3, HasEscapeIs
    <3>2. Decoded(t, i) \in Text /\ Len(Decoded(t, i)) = Len(t) - 2 /\ Len(t) \in Nat
      BY <2>1, <3>1, DecodedIs
    <3>3. Decoded(t, i) \in A
      <4>1. Len(Decoded(t, i)) < Len(t)
        BY <3>2
      <4>2. Decoded(t, i) \in Seq(Byte)
        BY <3>2 DEF Text
      <4> HIDE DEF A
      <4> QED BY <1>2, <4>1, <4>2
    <3>4. Unescaped(Decoded(t, i)) = Unescaped(t)
      BY <2>1, <3>1, DecodedSame
    <3> QED BY <2>1, <3>3, <3>4
  <2> QED BY <2>2, <2>3
<1>3. s \in A
  <2> HIDE DEF A
  <2>1. \A t \in Seq(Byte) : t \in A
    BY <1>2, LengthInduction
  <2> QED BY <2>1 DEF Text
<1> QED BY <1>1, <1>3, NoEscapeLeft, PassedSame

\* The texts without an escape.
PlainTexts == {s \in Text : ~HasEscape(s)}

LEMMA EscapeInside ==
  ASSUME NEW a \in Text, NEW w \in Text, NEW i \in 1..Len(w), Escape(w, i)
  PROVE  /\ Len(a) + i \in 1..Len(Glue(a, w)) /\ Escape(Glue(a, w), Len(a) + i)
         /\ Decoded(Glue(a, w), Len(a) + i) = Glue(a, Decoded(w, i))
<1> DEFINE z == Glue(a, w)
           d == Decoded(w, i)
<1>1. /\ z \in Text /\ Len(a) \in Nat /\ Len(w) \in Nat /\ Len(z) = Len(a) + Len(w)
      /\ \A j \in 1..Len(a) : z[j] = a[j]
      /\ \A j \in 1..Len(w) : z[Len(a) + j] = w[j]
  BY GlueAt
<1> HIDE DEF z
<1>2. PICK m \in Nat, n \in Nat : m = Len(a) /\ n = Len(w)
  BY <1>1
<1>3. i \in 1..n /\ i + 2 <= n /\ w[i] = Percent /\ Unhex(w[i + 1]) >= 0 /\ Unhex(w[i + 2]) >= 0
  BY <1>2 DEF Escape
<1>4. z[m + i] = w[i] /\ z[(m + i) + 1] = w[i + 1] /\ z[(m + i) + 2] = w[i + 2]
  <2>1. i + 1 \in 1..n /\ i + 2 \in 1..n /\ (m + i) + 1 = m + (i + 1) /\ (m + i) + 2 = m + (i + 2)
    BY <1>3
  <2> QED BY <1>1, <1>2, <1>3, <2>1
<1>5. m + i \in 1..Len(z) /\ Escape(z, m + i)
  BY <1>1, <1>2, <1>3, <1>4 DEF Escape
<1>6. /\ d \in Text /\ Len(d) = n - 2
      /\ \A j \in 1..n - 2 : (j < i => d[j] = w[j]) /\ (j > i => d[j] = w[j + 2])
      /\ d[i] = 16 * Unhex(w[i + 1]) + Unhex(w[i + 2])
  BY <1>2, DecodedIs
<1>7. PICK p \in 1..Len(z) : p = m + i
  BY <1>5
<1> DEFINE l == Decoded(z, p)
           r == Glue(a, d)
<1>8. /\ l \in Text /\ Len(l) = (m + n) - 2
      /\ \A j \in 1..(m + n) - 2 : (j < p => l[j] = z[j]) /\ (j > p => l[j] = z[j + 2])
      /\ l[p] = 16 * Unhex(w[i + 1]) + Unhex(w[i + 2])
  <2>1. Escape(z, p) /\ Len(z) = m + n
    BY <1>1, <1>2, <1>5, <1>7
  <2>2. /\ l \in Text /\ Len(l) = Len(z) - 2
        /\ \A j \in 1..Len(z) - 2 : (j < p => l[j] = z[j]) /\ (j > p => l[j] = z[j + 2])
        /\ l[p] = 16 * Unhex(z[p + 1]) + Unhex(z[p + 2])
    BY <1>1, <2>1, DecodedIs
  <2> HIDE DEF l
  <2> QED BY <1>4, <1>7, <2>1, <2>2
<1> HIDE DEF d, l
<1>9. /\ r \in Text /\ Len(r) = m + (n - 2)
      /\ \A j \in 1..m : r[j] = a[j]
      /\ \A j \in 1..n - 2 : r[m + j] = d[j]
  <2>1. /\ r \in Text /\ Len(r) = Len(a) + Len(d)
        /\ \A j \in 1..Len(a) : r[j] = a[j]
        /\ \A j \in 1..Len(d) : r[Len(a) + j] = d[j]
    BY <1>6, GlueAt
  <2> HIDE DEF r
  <2> QED BY <1>2, <1>6, <2>1
<1> HIDE DEF r
<1>10. ASSUME NEW j \in 1..(m + n) - 2 PROVE l[j] = r[j]
  <2>1. CASE j <= m
    <3>1. j < p /\ j \in 1..m
      BY <1>3, <1>7, <2>1
    <3> QED BY <1>1, <1>2, <1>8, <1>9, <3>1
  <2>2. CASE j > m
    <3>1. PICK k \in 1..n - 2 : j = m + k
      <4>1. j - m \in 1..n - 2 /\ j = m + (j - m)
        BY <2>2
      <4> QED BY <4>1
    <3>2. r[j] = d[k]
      BY <1>9, <3>1
    <3>3. CASE k < i
      <4>1. j < p /\ k \in 1..n
        BY <1>3, <1>7, <3>1, <3>3
      <4>2. l[j] = z[j] /\ z[j] = w[k] /\ d[k] = w[k]
        BY <1>1, <1>2, <1>6, <1>8, <3>1, <3>3, <4>1
      <4> QED BY <3>2, <4>2
    <3>4. CASE k = i
      BY <1>6, <1>7, <1>8, <3>1, <3>2, <3>4
    <3>5. CASE k > i
      <4>1. j > p /\ k + 2 \in 1..n /\ j + 2 = m + (k + 2)
        BY <1>3, <1>7, <3>1, <3>5
      <4>2. l[j] = z[j + 2] /\ z[m + (k + 2)] = w[k + 2] /\ d[k] = w[k + 2]
        BY <1>1, <1>2, <1>6, <1>8, <3>5, <4>1
      <4> QED BY <3>2, <4>1, <4>2
    <3> QED BY <1>3, <3>3, <3>4, <3>5
  <2> QED BY <1>2, <2>1, <2>2
<1>11. l = r
  <2>1. (m + n) - 2 = m + (n - 2)
    OBVIOUS
  <2> QED BY <1>8, <1>9, <1>10, <2>1, TextEqual
<1> QED BY <1>1, <1>2, <1>5, <1>7, <1>11 DEF z, l, r, d

LEMMA EscapeBefore ==
  ASSUME NEW a \in Text, NEW w \in Text, NEW i \in 1..Len(a), Escape(a, i)
  PROVE  i \in 1..Len(Glue(a, w)) /\ Escape(Glue(a, w), i)
<1> DEFINE z == Glue(a, w)
<1>1. /\ Len(a) \in Nat /\ Len(w) \in Nat /\ Len(z) = Len(a) + Len(w)
      /\ \A j \in 1..Len(a) : z[j] = a[j]
  BY GlueAt
<1> HIDE DEF z
<1>2. i + 2 <= Len(a) /\ a[i] = Percent /\ Unhex(a[i + 1]) >= 0 /\ Unhex(a[i + 2]) >= 0
  BY DEF Escape
<1>3. z[i] = a[i] /\ z[i + 1] = a[i + 1] /\ z[i + 2] = a[i + 2]
  <2>1. i \in 1..Len(a) /\ i + 1 \in 1..Len(a) /\ i + 2 \in 1..Len(a)
    BY <1>1, <1>2
  <2> QED BY <1>1, <2>1
<1>4. i \in 1..Len(z) /\ i + 2 <= Len(z)
  BY <1>1, <1>2
<1> QED BY <1>2, <1>3, <1>4 DEF Escape, z

LEMMA PlainClosed == Closed(PlainTexts)
<1>1. << >> \in PlainTexts
  <2>1. << >> \in Text /\ ~HasEscape(<< >>)
    BY Gluing DEF HasEscape
  <2> QED BY <2>1 DEF PlainTexts
<1>2. ASSUME NEW s \in Text, NEW t \in Text, Glue(s, t) \in PlainTexts
      PROVE  s \in PlainTexts /\ t \in PlainTexts
  <2>1. s \in Seq(Int) /\ t \in Seq(Int) /\ Glue(s, t) \in Seq(Int) /\ ~HasEscape(Glue(s, t))
    BY <1>2, TextIsInts DEF PlainTexts
  <2>2. ~HasEscape(s)
    BY <2>1, HasEscapeIs, EscapeBefore
  <2>3. ~HasEscape(t)
    BY <2>1, HasEscapeIs, EscapeInside
  <2> QED BY <2>2, <2>3 DEF PlainTexts
<1> QED BY <1>1, <1>2 DEF Closed, PlainTexts, Glue

\* No escape comes from a byte that is neither a percent sign nor a digit.
LEMMA PlainGlued ==
  ASSUME NEW c \in Byte, c # Percent, Unhex(c) < 0
  PROVE  GluedBy(PlainTexts, c)
<1> SUFFICES ASSUME NEW a \in PlainTexts, NEW b \in PlainTexts
             PROVE  Glue(Glue(a, <<c>>), b) \in PlainTexts
  BY DEF GluedBy
<1> DEFINE ac == Glue(a, <<c>>)
           z == Glue(ac, b)
<1>1. a \in Text /\ b \in Text /\ <<c>> \in Text /\ a \in Seq(Int) /\ b \in Seq(Int)
  BY Gluing, TextIsInts DEF PlainTexts
<1>2. (\A i \in 1..Len(a) : ~Escape(a, i)) /\ \A i \in 1..Len(b) : ~Escape(b, i)
  BY <1>1, HasEscapeIs DEF PlainTexts
<1>3. PICK m \in Nat, n \in Nat : m = Len(a) /\ n = Len(b)
  BY <1>1, TextAt
<1>4. ac \in Text /\ Len(ac) = m + 1 /\ (\A i \in 1..m : ac[i] = a[i]) /\ ac[m + 1] = c
  <2>1. /\ ac \in Text /\ Len(ac) = m + Len(<<c>>)
        /\ \A i \in 1..m : ac[i] = a[i]
        /\ \A i \in 1..Len(<<c>>) : ac[m + i] = <<c>>[i]
    BY <1>1, <1>3, GlueAt
  <2>2. Len(<<c>>) = 1 /\ <<c>>[1] = c
    BY TextAt
  <2> HIDE DEF ac
  <2> QED BY <2>1, <2>2
<1> HIDE DEF ac
<1>5. /\ z \in Text /\ Len(z) = (m + 1) + n
      /\ \A i \in 1..m + 1 : z[i] = ac[i]
      /\ \A i \in 1..n : z[(m + 1) + i] = b[i]
  <2>1. /\ z \in Text /\ Len(z) = Len(ac) + Len(b)
        /\ \A i \in 1..Len(ac) : z[i] = ac[i]
        /\ \A i \in 1..Len(b) : z[Len(ac) + i] = b[i]
    BY <1>1, <1>4, GlueAt
  <2> HIDE DEF z
  <2> QED BY <1>3, <1>4, <2>1
<1> HIDE DEF z
<1>6. ASSUME NEW i \in 1..Len(z), Escape(z, i) PROVE FALSE
  <2>1. i + 2 <= (m + 1) + n /\ z[i] = Percent /\ Unhex(z[i + 1]) >= 0 /\ Unhex(z[i + 2]) >= 0
    BY <1>5, <1>6 DEF Escape
  <2>2. z[m + 1] = c
    BY <1>4, <1>5
  <2>3. i # m + 1 /\ i + 1 # m + 1 /\ i + 2 # m + 1
    <3>1. z[m + 1] # Percent /\ ~(Unhex(z[m + 1]) >= 0)
      <4>1. PICK x \in Int : x = Unhex(c)
        <5>1. c \in Int
          BY TextAt
        <5> QED BY <5>1, UnhexIsInt
      <4> QED BY <2>2, <4>1
    <3> QED BY <2>1, <3>1
  <2>4. CASE i + 2 <= m
    <3>1. i \in 1..m /\ i + 1 \in 1..m /\ i + 2 \in 1..m
      BY <2>4
    <3>2. z[i] = a[i] /\ z[i + 1] = a[i + 1] /\ z[i + 2] = a[i + 2]
      BY <1>4, <1>5, <3>1
    <3>3. Escape(a, i)
      BY <1>3, <2>1, <2>4, <3>2 DEF Escape
    <3> QED BY <1>2, <1>3, <3>1, <3>3
  <2>5. CASE i > m + 1
    <3>1. PICK k \in 1..n : i = (m + 1) + k
      <4>1. i - (m + 1) \in 1..n /\ i = (m + 1) + (i - (m + 1))
        BY <2>1, <2>5
      <4> QED BY <4>1
    <3>2. k + 2 <= n /\ k + 1 \in 1..n /\ k + 2 \in 1..n /\ i + 1 = (m + 1) + (k + 1) /\ i + 2 = (m + 1) + (k + 2)
      BY <2>1, <3>1
    <3>3. z[i] = b[k] /\ z[i + 1] = b[k + 1] /\ z[i + 2] = b[k + 2]
      BY <1>5, <3>1, <3>2
    <3>4. Escape(b, k)
      BY <1>3, <2>1, <3>2, <3>3 DEF Escape
    <3> QED BY <1>2, <1>3, <3>4
  <2> QED BY <1>3, <2>3, <2>4, <2>5
<1>7. ~HasEscape(z)
  <2>1. z \in Seq(Int)
    BY <1>5, TextIsInts
  <2> QED BY <1>6, <2>1, HasEscapeIs
<1>8. z \in PlainTexts
  BY <1>5, <1>7 DEF PlainTexts
<1> QED BY <1>8 DEF z, ac

\* Escapes are decoded in what follows as they are on their own.
LEMMA UnescapedAfter ==
  ASSUME NEW p \in Text, Free(p, Percent), NEW q \in Text
  PROVE  Unescaped(Glue(p, q)) = Glue(p, Unescaped(q))
<1> DEFINE A == {t \in Text : Unescaped(Glue(p, t)) = Glue(p, Unescaped(t))}
<1>1. \A t \in Text : t \in Seq(Int) /\ Len(t) \in Nat
  BY TextIsInts, TextAt
<1>2. ASSUME NEW t \in Seq(Byte), \A u \in Seq(Byte) : Len(u) < Len(t) => u \in A PROVE t \in A
  <2>1. t \in Text
    BY <1>2 DEF Text
  <2>2. CASE ~HasEscape(t)
    <3> DEFINE z == Glue(p, t)
    <3>1. /\ z \in Text /\ Len(p) \in Nat /\ Len(t) \in Nat /\ Len(z) = Len(p) + Len(t)
          /\ \A i \in 1..Len(p) : z[i] = p[i]
          /\ \A i \in 1..Len(t) : z[Len(p) + i] = t[i]
      BY <2>1, GlueAt
    <3> HIDE DEF z
    <3>2. PICK m \in Nat, n \in Nat : m = Len(p) /\ n = Len(t)
      BY <3>1
    <3>3. ASSUME NEW i \in 1..Len(z), Escape(z, i) PROVE FALSE
      <4>1. i + 2 <= m + n /\ z[i] = Percent /\ Unhex(z[i + 1]) >= 0 /\ Unhex(z[i + 2]) >= 0
        BY <3>1, <3>2, <3>3 DEF Escape
      <4>2. CASE i <= m
        <5>1. i \in 1..Len(p) /\ p[i] = Percent
          BY <3>1, <3>2, <4>1, <4>2
        <5> QED BY <5>1 DEF Free
      <4>3. CASE i > m
        <5>1. PICK k \in 1..n : i = m + k
          <6>1. i - m \in 1..n /\ i = m + (i - m)
            BY <4>1, <4>3
          <6> QED BY <6>1
        <5>2. k + 2 <= n /\ k + 1 \in 1..n /\ k + 2 \in 1..n /\ i + 1 = m + (k + 1) /\ i + 2 = m + (k + 2)
          BY <4>1, <5>1
        <5>3. z[i] = t[k] /\ z[i + 1] = t[k + 1] /\ z[i + 2] = t[k + 2]
          BY <3>1, <3>2, <5>1, <5>2
        <5>4. Escape(t, k) /\ k \in 1..Len(t)
          BY <3>2, <4>1, <5>2, <5>3 DEF Escape
        <5> QED BY <1>1, <2>1, <2>2, <5>4, HasEscapeIs
      <4> QED BY <3>2, <4>2, <4>3
    <3>4. ~HasEscape(z)
      BY <1>1, <3>1, <3>3, HasEscapeIs
    <3>5. Unescaped(z) = z /\ Unescaped(t) = t
      BY <2>1, <2>2, <3>1, <3>4, UnescapedText
    <3> QED BY <2>1, <3>5 DEF z
  <2>3. CASE HasEscape(t)
    <3>1. PICK i \in 1..Len(t) : Escape(t, i)
      BY <1>1, <2>1, <2>3, HasEscapeIs
    <3>2. PICK d \in Text : d = Decoded(t, i) /\ Len(d) < Len(t)
      <4>1. Decoded(t, i) \in Text /\ Len(Decoded(t, i)) = Len(t) - 2 /\ Len(t) \in Nat
        BY <2>1, <3>1, DecodedIs
      <4>2. Len(Decoded(t, i)) < Len(t)
        BY <4>1
      <4> QED BY <4>1, <4>2
    <3>3. Unescaped(Glue(p, d)) = Glue(p, Unescaped(d))
      <4>1. d \in Seq(Byte)
        BY DEF Text
      <4>2. d \in A
        <5> HIDE DEF A
        <5> QED BY <1>2, <3>2, <4>1
      <4> QED BY <4>2
    <3>4. Unescaped(d) = Unescaped(t)
      BY <2>1, <3>1, <3>2, DecodedSame
    <3>5. /\ Len(p) + i \in 1..Len(Glue(p, t)) /\ Escape(Glue(p, t), Len(p) + i)
          /\ Decoded(Glue(p, t), Len(p) + i) = Glue(p, d)
      BY <2>1, <3>1, <3>2, EscapeInside
    <3>6. Unescaped(Glue(p, d)) = Unescaped(Glue(p, t))
      <4>1. Glue(p, t) \in Text
        BY <2>1, Gluing
      <4> QED BY <3>5, <4>1, DecodedSame
    <3> QED BY <2>1, <3>3, <3>4, <3>6
  <2> QED BY <2>2, <2>3
<1>3. q \in A
  <2> HIDE DEF A
  <2>1. \A t \in Seq(Byte) : t \in A
    BY <1>2, LengthInduction
  <2> QED BY <2>1 DEF Text
<1> QED BY <1>3

LEMMA EncodedIs ==
  ASSUME NEW b \in Byte
  PROVE  /\ Encoded(b) \in Text /\ Len(Encoded(b)) = 3 /\ Escape(Encoded(b), 1)
         /\ Decoded(Encoded(b), 1) = <<b>>
<1>1. PICK x \in 0..15, y \in 0..15 : x = b \div 16 /\ y = (b % 16) /\ b = 16 * x + y
  <2>1. b \in 0..255
    BY TextAt
  <2>2. b \div 16 \in 0..15 /\ (b % 16) \in 0..15 /\ b = 16 * (b \div 16) + (b % 16)
    BY <2>1
  <2> QED BY <2>2
<1>2. \A v \in 0..15 : Unhex(HexDigit(v)) = v
  BY DEF Unhex, HexDigit
<1>3. PICK e \in Text : e = Encoded(b)
  BY PrintedIsText
<1>4. Len(e) = 3 /\ e[1] = Percent /\ e[2] = HexDigit(x) /\ e[3] = HexDigit(y)
  BY <1>1, <1>3 DEF Encoded
<1>5. Unhex(e[1 + 1]) = x /\ Unhex(e[1 + 2]) = y
  BY <1>2, <1>4
<1>6. Escape(e, 1) /\ 1 \in 1..Len(e)
  BY <1>4, <1>5 DEF Escape
<1>7. /\ Decoded(e, 1) \in Text /\ Len(Decoded(e, 1)) = Len(e) - 2
      /\ Decoded(e, 1)[1] = 16 * Unhex(e[1 + 1]) + Unhex(e[1 + 2])
  BY <1>6, DecodedIs
<1>8. Decoded(e, 1)[1] = b /\ Len(Decoded(e, 1)) = 1
  BY <1>1, <1>4, <1>5, <1>7
<1>9. Decoded(e, 1) = <<b>>
  <2>1. PICK u \in Text : u = <<b>> /\ Len(u) = 1 /\ u[1] = b
    BY Gluing, TextAt
  <2>2. Decoded(e, 1) = u
    <3>1. \A j \in 1..1 : j = 1
      OBVIOUS
    <3> QED BY <1>7, <1>8, <2>1, <3>1, TextEqual
  <2> QED BY <2>1, <2>2
<1> QED BY <1>3, <1>4, <1>6, <1>9

\* Wherever a byte is written as an escape, it is the byte that is decoded.
LEMMA EncodedSame ==
  ASSUME NEW a \in Text, NEW b \in Byte, NEW w \in Text
  PROVE  Unescaped(Glue(Glue(a, Encoded(b)), w)) = Unescaped(Glue(Glue(a, <<b>>), w))
<1>1. PICK e \in Text : e = Encoded(b) /\ 1 \in 1..Len(e) /\ Escape(e, 1) /\ Decoded(e, 1) = <<b>>
  BY EncodedIs
<1>2. /\ 1 \in 1..Len(Glue(e, w)) /\ Escape(Glue(e, w), 1) /\ Glue(e, w) \in Text
  BY <1>1, EscapeBefore, Gluing
<1>3. Decoded(Glue(e, w), 1) = Glue(<<b>>, w)
  <2> DEFINE l == Decoded(Glue(e, w), 1)
             r == Glue(<<b>>, w)
  <2>1. /\ Len(w) \in Nat /\ Len(e) = 3 /\ Len(Glue(e, w)) = Len(e) + Len(w)
        /\ \A i \in 1..Len(e) : Glue(e, w)[i] = e[i]
        /\ \A i \in 1..Len(w) : Glue(e, w)[Len(e) + i] = w[i]
    BY <1>1, EncodedIs, GlueAt
  <2>2. PICK n \in Nat : n = Len(w) /\ Len(Glue(e, w)) = 3 + n
    BY <2>1
  <2>3. /\ l \in Text /\ Len(l) = Len(Glue(e, w)) - 2
        /\ \A j \in 1..Len(Glue(e, w)) - 2 : j > 1 => l[j] = Glue(e, w)[j + 2]
        /\ l[1] = 16 * Unhex(Glue(e, w)[1 + 1]) + Unhex(Glue(e, w)[1 + 2])
    BY <1>2, DecodedIs
  <2>4. l[1] = b
    <3>1. Decoded(e, 1)[1] = 16 * Unhex(e[1 + 1]) + Unhex(e[1 + 2])
      BY <1>1, DecodedIs
    <3>2. Glue(e, w)[1 + 1] = e[1 + 1] /\ Glue(e, w)[1 + 2] = e[1 + 2]
      BY <2>1
    <3>3. Decoded(e, 1)[1] = b
      BY <1>1, TextAt
    <3> HIDE DEF l
    <3> QED BY <2>3, <3>1, <3>2, <3>3
  <2>5. /\ r \in Text /\ Len(r) = 1 + n /\ r[1] = b
        /\ \A i \in 1..n : r[1 + i] = w[i]
    <3>1. <<b>> \in Text /\ Len(<<b>>) = 1 /\ <<b>>[1] = b
      BY Gluing, TextAt
    <3>2. PICK u \in Text : u = <<b>> /\ Len(u) = 1 /\ u[1] = b
      BY <3>1
    <3>3. /\ Glue(u, w) \in Text /\ Len(Glue(u, w)) = Len(u) + Len(w)
          /\ \A i \in 1..Len(u) : Glue(u, w)[i] = u[i]
          /\ \A i \in 1..Len(w) : Glue(u, w)[Len(u) + i] = w[i]
      BY GlueAt
    <3>4. Glue(u, w)[1] = b
      BY <3>2, <3>3
    <3> QED BY <2>2, <3>2, <3>3, <3>4
  <2> HIDE DEF l, r
  <2>6. Len(l) = Len(r)
    BY <2>2, <2>3, <2>5
  <2>7. \A j \in 1..Len(l) : l[j] = r[j]
    <3> SUFFICES ASSUME NEW j \in 1..1 + n, j # 1 PROVE l[j] = r[j]
      BY <2>4, <2>5, <2>6
    <3>1. PICK k \in 1..n : j = 1 + k
      <4>1. j - 1 \in 1..n /\ j = 1 + (j - 1)
        OBVIOUS
      <4> QED BY <4>1
    <3>2. j \in 1..Len(Glue(e, w)) - 2 /\ j > 1 /\ j + 2 = 3 + k
      BY <2>2, <3>1
    <3>3. l[j] = Glue(e, w)[3 + k] /\ Glue(e, w)[3 + k] = w[k]
      BY <2>1, <2>2, <2>3, <3>2
    <3> QED BY <2>5, <3>1, <3>3
  <2>8. l = r
    BY <2>3, <2>5, <2>6, <2>7, TextEqual
  <2> QED BY <2>8 DEF l, r
<1>4. PICK z \in Text : z = Glue(a, Glue(e, w))
  BY <1>2, Gluing
<1>5. /\ Len(a) + 1 \in 1..Len(z) /\ Escape(z, Len(a) + 1)
      /\ Decoded(z, Len(a) + 1) = Glue(a, Glue(<<b>>, w))
  BY <1>2, <1>3, <1>4, EscapeInside
<1>6. Unescaped(Glue(a, Glue(<<b>>, w))) = Unescaped(z)
  BY <1>5, DecodedSame
<1>7. z = Glue(Glue(a, e), w)
  BY <1>4, Gluing
<1>8. Glue(a, Glue(<<b>>, w)) = Glue(Glue(a, <<b>>), w)
  BY Gluing
<1> QED BY <1>1, <1>6, <1>7, <1>8

\* What escapeCanonical prints inside any text is decoded to what it was there, with
\* what the bytes around it make of it.
THEOREM EscapedSame ==
  ASSUME NEW s \in Text
  PROVE  \A a, w \in Text : Unescaped(Glue(Glue(a, Escaped(s)), w)) = Unescaped(Glue(Glue(a, s), w))
<1> DEFINE A == {t \in Text : \A a, w \in Text :
                   Unescaped(Glue(Glue(a, Escaped(t)), w)) = Unescaped(Glue(Glue(a, t), w))}
<1>1. << >> \in A
  BY Gluing, EscapedEquation
<1>2. ASSUME NEW t \in Text, NEW x \in Byte, t \in A PROVE Append(t, x) \in A
  <2>1. PICK E \in Text, p \in Text, X \in Text : E = Escaped(t) /\ p = Printed(x) /\ X = <<x>>
    BY EscapedEquation, PrintedIsText, Gluing DEF Text
  <2>2. Escaped(Append(t, x)) = Glue(E, p)
    BY <2>1, EscapedEquation DEF Text, Glue
  <2>3. Append(t, x) \in Text /\ Append(t, x) = Glue(t, X)
    BY <2>1, TextConcat DEF Glue
  <2>4. ASSUME NEW a \in Text, NEW w \in Text
        PROVE  Unescaped(Glue(Glue(a, Glue(E, p)), w)) = Unescaped(Glue(Glue(a, Glue(t, X)), w))
    <3>1. Glue(Glue(a, Glue(E, p)), w) = Glue(Glue(a, E), Glue(p, w))
      BY Gluing
    <3>2. Unescaped(Glue(Glue(a, E), Glue(p, w))) = Unescaped(Glue(Glue(a, t), Glue(p, w)))
      BY <1>2, <2>1, Gluing
    <3>3. PICK y \in Text : y = Glue(a, t)
      BY Gluing
    <3>4. Glue(y, Glue(p, w)) = Glue(Glue(y, p), w)
      BY Gluing
    <3>5. Unescaped(Glue(Glue(y, p), w)) = Unescaped(Glue(Glue(y, X), w))
      <4>1. p = X \/ p = Encoded(x)
        BY <2>1 DEF Printed
      <4> QED BY <2>1, <4>1, EncodedSame
    <3>6. Glue(Glue(y, X), w) = Glue(Glue(a, Glue(t, X)), w)
      BY <3>3, Gluing
    <3> QED BY <3>1, <3>2, <3>3, <3>4, <3>5, <3>6
  <2> HIDE DEF A
  <2> QED BY <2>2, <2>3, <2>4 DEF A
<1>3. s \in A
  <2> HIDE DEF A
  <2> QED BY <1>1, <1>2, TextInduction
<1> QED BY <1>3

----
(* A URL is taken apart at bytes: at the first of a kind, or the last. *)

LEMMA PartsOf ==
  ASSUME NEW s \in Text, NEW m \in 1..Len(s) + 1, NEW n \in 0..Len(s)
  PROVE  /\ SubSeq(s, m, n) \in Text
         /\ Len(SubSeq(s, m, n)) = IF m <= n THEN n - m + 1 ELSE 0
         /\ \A i \in 1..Len(SubSeq(s, m, n)) : SubSeq(s, m, n)[i] = s[m + i - 1]
<1>1. PICK k \in Nat : k = Len(s)
  BY TextAt
<1>2. s \in Seq(Byte)
  BY DEF Text
<1>3. \A i \in m..n : s[i] \in Byte
  BY <1>1, TextAt
<1>4. /\ SubSeq(s, m, n) \in Seq(Byte)
      /\ Len(SubSeq(s, m, n)) = IF m <= n THEN n - m + 1 ELSE 0
      /\ \A i \in 1..n - m + 1 : SubSeq(s, m, n)[i] = s[m + i - 1]
  BY <1>1, <1>2, <1>3, SubSeqProperties
<1> QED BY <1>4 DEF Text

LEMMA PartIs ==
  ASSUME NEW s \in Text, NEW m \in 1..Len(s) + 1, NEW n \in m - 1..Len(s)
  PROVE  /\ SubSeq(s, m, n) \in Text /\ Len(SubSeq(s, m, n)) = n - (m - 1)
         /\ \A i \in 1..n - (m - 1) : SubSeq(s, m, n)[i] = s[(m - 1) + i]
<1>1. PICK k \in Nat : k = Len(s)
  BY TextAt
<1>2. m \in 1..k + 1 /\ n \in 0..k /\ n \in m - 1..k
  BY <1>1
<1>3. n \in 0..Len(s)
  BY <1>1, <1>2
<1>4. /\ SubSeq(s, m, n) \in Text
      /\ Len(SubSeq(s, m, n)) = IF m <= n THEN n - m + 1 ELSE 0
      /\ \A i \in 1..Len(SubSeq(s, m, n)) : SubSeq(s, m, n)[i] = s[m + i - 1]
  BY <1>3, PartsOf
<1>5. PICK t \in Text : t = SubSeq(s, m, n)
  BY <1>4
<1>6. Len(t) = n - (m - 1)
  BY <1>2, <1>4, <1>5
<1>7. \A i \in 1..n - (m - 1) : t[i] = s[(m - 1) + i]
  <2> SUFFICES ASSUME NEW i \in 1..n - (m - 1) PROVE t[i] = s[(m - 1) + i]
    OBVIOUS
  <2>1. m + i - 1 = (m - 1) + i /\ i \in 1..Len(t)
    BY <1>2, <1>6
  <2>2. t[i] = s[m + i - 1]
    BY <1>4, <1>5, <2>1
  <2> QED BY <2>1, <2>2
<1> QED BY <1>5, <1>6, <1>7

\* The parts before and after a place of a byte, and the whole they make.
LEMMA GluedParts ==
  ASSUME NEW a \in Text, NEW t \in Text
  PROVE  /\ Before(Glue(a, t), Len(a) + 1) = a
         /\ SubSeq(Glue(a, t), Len(a) + 1, Len(Glue(a, t))) = t
<1>1. PICK z \in Text : z = Glue(a, t)
  BY Gluing
<1>2. PICK m \in Nat, n \in Nat : m = Len(a) /\ n = Len(t) /\ Len(z) = m + n
  BY <1>1, GlueAt
<1>3. /\ \A i \in 1..m : z[i] = a[i]
      /\ \A i \in 1..n : z[m + i] = t[i]
  BY ZenonT(60), <1>1, <1>2, GlueAt
<1>4. PICK x \in Text : x = SubSeq(z, 1, m) /\ Len(x) = m /\ \A i \in 1..m : x[i] = z[i]
  <2>1. 1 \in 1..Len(z) + 1 /\ m \in 1 - 1..Len(z) /\ m - (1 - 1) = m /\ \A i \in 1..m : (1 - 1) + i = i
    BY <1>2
  <2>2. /\ SubSeq(z, 1, m) \in Text /\ Len(SubSeq(z, 1, m)) = m - (1 - 1)
        /\ \A i \in 1..m - (1 - 1) : SubSeq(z, 1, m)[i] = z[(1 - 1) + i]
    BY <2>1, PartIs
  <2> QED BY <2>1, <2>2
<1>5. PICK y \in Text : y = SubSeq(z, m + 1, m + n) /\ Len(y) = n /\ \A i \in 1..n : y[i] = z[m + i]
  <2>1. /\ m + 1 \in 1..Len(z) + 1 /\ m + n \in (m + 1) - 1..Len(z) /\ (m + n) - ((m + 1) - 1) = n
        /\ (m + 1) - 1 = m
    BY <1>2
  <2>2. /\ SubSeq(z, m + 1, m + n) \in Text /\ Len(SubSeq(z, m + 1, m + n)) = (m + n) - ((m + 1) - 1)
        /\ \A i \in 1..(m + n) - ((m + 1) - 1) : SubSeq(z, m + 1, m + n)[i] = z[((m + 1) - 1) + i]
    BY <2>1, PartIs
  <2> QED BY <2>1, <2>2
<1>6. x = a
  <2>1. \A i \in 1..m : x[i] = a[i]
    BY <1>3, <1>4
  <2> QED BY <1>2, <1>4, <2>1, TextEqual
<1>7. y = t
  <2>1. \A i \in 1..n : y[i] = t[i]
    BY <1>3, <1>5
  <2> QED BY <1>2, <1>5, <2>1, TextEqual
<1>8. (m + 1) - 1 = m
  OBVIOUS
<1> QED BY <1>1, <1>2, <1>4, <1>5, <1>6, <1>7, <1>8 DEF Before

LEMMA GluedAround ==
  ASSUME NEW c \in Byte, NEW a \in Text, NEW b \in Text
  PROVE  /\ Before(Glue(Glue(a, <<c>>), b), Len(a) + 1) = a
         /\ After(Glue(Glue(a, <<c>>), b), Len(a) + 1) = b
<1>1. PICK u \in Text : u = <<c>> /\ Len(u) = 1
  BY Gluing, TextAt
<1>2. PICK au \in Text : au = Glue(a, u) /\ Len(au) = Len(a) + 1
  <2>1. Glue(a, u) \in Text /\ Len(Glue(a, u)) = Len(a) + Len(u)
    BY GlueAt
  <2> QED BY <1>1, <2>1
<1>3. Glue(Glue(a, u), b) = Glue(a, Glue(u, b)) /\ Glue(u, b) \in Text
  BY <1>1, Gluing
<1>4. Before(Glue(a, Glue(u, b)), Len(a) + 1) = a
  BY <1>3, GluedParts
<1>5. SubSeq(Glue(au, b), Len(au) + 1, Len(Glue(au, b))) = b
  BY GluedParts
<1> QED BY <1>1, <1>2, <1>3, <1>4, <1>5 DEF After

LEMMA PartsGlued ==
  ASSUME NEW s \in Text, NEW k \in 1..Len(s) + 1
  PROVE  /\ Before(s, k) \in Text /\ Len(Before(s, k)) = k - 1
         /\ SubSeq(s, k, Len(s)) \in Text
         /\ s = Glue(Before(s, k), SubSeq(s, k, Len(s)))
         /\ \A i \in 1..k - 1 : Before(s, k)[i] = s[i]
<1>1. PICK n \in Nat : n = Len(s)
  BY TextAt
<1>2. PICK x \in Text : /\ x = SubSeq(s, 1, k - 1) /\ Len(x) = k - 1
                        /\ \A i \in 1..k - 1 : x[i] = s[i]
  <2>1. /\ 1 \in 1..Len(s) + 1 /\ k - 1 \in 1 - 1..Len(s) /\ (k - 1) - (1 - 1) = k - 1
        /\ \A i \in 1..k - 1 : (1 - 1) + i = i
    BY <1>1
  <2>2. /\ SubSeq(s, 1, k - 1) \in Text /\ Len(SubSeq(s, 1, k - 1)) = (k - 1) - (1 - 1)
        /\ \A i \in 1..(k - 1) - (1 - 1) : SubSeq(s, 1, k - 1)[i] = s[(1 - 1) + i]
    BY <2>1, PartIs
  <2> QED BY <2>1, <2>2
<1>3. PICK y \in Text : /\ y = SubSeq(s, k, n) /\ Len(y) = n - (k - 1)
                        /\ \A i \in 1..n - (k - 1) : y[i] = s[(k - 1) + i]
  <2>1. k \in 1..Len(s) + 1 /\ n \in k - 1..Len(s)
    BY <1>1
  <2>2. /\ SubSeq(s, k, n) \in Text /\ Len(SubSeq(s, k, n)) = n - (k - 1)
        /\ \A i \in 1..n - (k - 1) : SubSeq(s, k, n)[i] = s[(k - 1) + i]
    BY <2>1, PartIs
  <2> QED BY <2>2
<1>4. PICK z \in Text : z = Glue(x, y) /\ Len(z) = n
  <2>1. /\ Glue(x, y) \in Text /\ Len(Glue(x, y)) = Len(x) + Len(y)
    BY GlueAt
  <2>2. Len(x) + Len(y) = n
    BY <1>1, <1>2, <1>3
  <2> QED BY <2>1, <2>2
<1>5. /\ \A i \in 1..k - 1 : z[i] = x[i]
      /\ \A i \in 1..n - (k - 1) : z[(k - 1) + i] = y[i]
  <2>1. /\ \A i \in 1..Len(x) : Glue(x, y)[i] = x[i]
        /\ \A i \in 1..Len(y) : Glue(x, y)[Len(x) + i] = y[i]
    BY GlueAt
  <2> QED BY <1>2, <1>3, <1>4, <2>1
<1>6. \A j \in 1..n : z[j] = s[j]
  <2> SUFFICES ASSUME NEW j \in 1..n PROVE z[j] = s[j]
    OBVIOUS
  <2>1. CASE j <= k - 1
    <3>1. j \in 1..k - 1
      BY <2>1
    <3> QED BY <1>2, <1>5, <3>1
  <2>2. CASE j > k - 1
    <3>1. PICK i \in 1..n - (k - 1) : j = (k - 1) + i
      <4>1. j - (k - 1) \in 1..n - (k - 1) /\ j = (k - 1) + (j - (k - 1))
        BY <2>2
      <4> QED BY <4>1
    <3> QED BY <1>3, <1>5, <3>1
  <2> QED BY <2>1, <2>2
<1>7. z = s
  BY <1>1, <1>4, <1>6, TextEqual
<1> QED BY <1>1, <1>2, <1>3, <1>4, <1>7 DEF Before

LEMMA AroundGlued ==
  ASSUME NEW s \in Text, NEW k \in 1..Len(s)
  PROVE  /\ Before(s, k) \in Text /\ After(s, k) \in Text /\ s[k] \in Byte
         /\ s = Glue(Glue(Before(s, k), <<s[k]>>), After(s, k))
         /\ Len(Before(s, k)) = k - 1 /\ \A i \in 1..k - 1 : Before(s, k)[i] = s[i]
         /\ Len(After(s, k)) = Len(s) - k /\ \A i \in 1..Len(s) - k : After(s, k)[i] = s[k + i]
<1>1. PICK n \in Nat : n = Len(s)
  BY TextAt
<1>2. /\ Before(s, k) \in Text /\ Len(Before(s, k)) = k - 1
      /\ \A i \in 1..k - 1 : Before(s, k)[i] = s[i]
      /\ SubSeq(s, k, n) \in Text /\ s = Glue(Before(s, k), SubSeq(s, k, n))
  <2>1. k \in 1..Len(s) + 1
    BY <1>1
  <2> QED BY <1>1, <2>1, PartsGlued
<1>3. PICK y \in Text : /\ y = After(s, k) /\ Len(y) = n - k
                        /\ \A i \in 1..n - k : y[i] = s[k + i]
  <2>1. k + 1 \in 1..Len(s) + 1 /\ n \in (k + 1) - 1..Len(s) /\ (k + 1) - 1 = k
    BY <1>1
  <2>2. /\ SubSeq(s, k + 1, n) \in Text /\ Len(SubSeq(s, k + 1, n)) = n - ((k + 1) - 1)
        /\ \A i \in 1..n - ((k + 1) - 1) : SubSeq(s, k + 1, n)[i] = s[((k + 1) - 1) + i]
    BY <2>1, PartIs
  <2> QED BY ZenonT(60), <1>1, <2>1, <2>2 DEF After
<1>4. PICK t \in Text : /\ t = SubSeq(s, k, n) /\ Len(t) = n - (k - 1)
                        /\ \A i \in 1..n - (k - 1) : t[i] = s[(k - 1) + i]
  <2>1. k \in 1..Len(s) + 1 /\ n \in k - 1..Len(s)
    BY <1>1
  <2>2. /\ SubSeq(s, k, n) \in Text /\ Len(SubSeq(s, k, n)) = n - (k - 1)
        /\ \A i \in 1..n - (k - 1) : SubSeq(s, k, n)[i] = s[(k - 1) + i]
    BY <2>1, PartIs
  <2> QED BY <2>2
<1>5. PICK b \in Byte, u \in Text : b = s[k] /\ u = <<b>> /\ Len(u) = 1 /\ u[1] = b
  <2>1. PICK b \in Byte : b = s[k]
    BY TextAt
  <2>2. <<b>> \in Text /\ Len(<<b>>) = 1 /\ <<b>>[1] = b
    BY Gluing, TextAt
  <2> QED BY <2>1, <2>2
<1>6. t = Glue(u, y)
  <2>1. PICK z \in Text : /\ z = Glue(u, y) /\ Len(z) = Len(u) + Len(y)
                          /\ \A i \in 1..Len(u) : z[i] = u[i]
                          /\ \A i \in 1..Len(y) : z[Len(u) + i] = y[i]
    BY GlueAt
  <2>2. Len(t) = Len(z)
    BY <1>3, <1>4, <1>5, <2>1
  <2>3. \A j \in 1..n - (k - 1) : t[j] = z[j]
    <3> SUFFICES ASSUME NEW j \in 1..n - (k - 1) PROVE t[j] = z[j]
      OBVIOUS
    <3>1. CASE j = 1
      <4>1. (k - 1) + 1 = k /\ 1 \in 1..n - (k - 1) /\ 1 \in 1..Len(u)
        BY <1>1, <1>5
      <4> QED BY <1>4, <1>5, <2>1, <3>1, <4>1
    <3>2. CASE j # 1
      <4>1. PICK i \in 1..n - k : j = 1 + i
        <5>1. j - 1 \in 1..n - k /\ j = 1 + (j - 1)
          BY <3>2
        <5> QED BY <5>1
      <4>2. (k - 1) + j = k + i /\ i \in 1..Len(y)
        BY <1>3, <4>1
      <4>3. z[Len(u) + i] = y[i] /\ Len(u) + i = j
        BY <1>5, <2>1, <4>1, <4>2
      <4>4. t[j] = s[k + i] /\ y[i] = s[k + i]
        BY <1>3, <1>4, <4>1, <4>2
      <4> QED BY <4>3, <4>4
    <3> QED BY <3>1, <3>2
  <2> QED BY <1>4, <2>1, <2>2, <2>3, TextEqual
<1>7. Glue(Before(s, k), Glue(u, y)) = Glue(Glue(Before(s, k), u), y)
  BY <1>2, Gluing
<1> QED BY <1>1, <1>2, <1>3, <1>4, <1>5, <1>6, <1>7

LEMMA FirstIs ==
  ASSUME NEW s \in Text, NEW c, NEW k \in 1..Len(s) + 1,
         \A i \in 1..k - 1 : s[i] # c, k <= Len(s) => s[k] = c
  PROVE  First(s, c) = k
<1>1. PICK n \in Nat : n = Len(s)
  BY TextAt
<1>2. CASE k = n + 1
  <2>1. ~Contains(s, c)
    BY <1>1, <1>2 DEF Contains
  <2> QED BY <1>1, <1>2, <2>1 DEF First
<1>3. CASE k # n + 1
  <2> DEFINE I == {i \in 1..Len(s) : s[i] = c}
  <2>1. k \in I /\ \A i \in I : k <= i
    BY <1>1, <1>3
  <2>2. Min(I) = k
    <3>1. I \in SUBSET Nat
      BY <1>1
    <3> HIDE DEF I
    <3>2. \A x \in I : (\A y \in I : x <= y) => x = k
      BY <2>1, <3>1
    <3>3. Min(I) \in I /\ \A y \in I : Min(I) <= y
      BY <2>1, Zenon DEF Min
    <3> QED BY <3>2, <3>3
  <2>3. Contains(s, c)
    BY <2>1 DEF Contains
  <2>4. SelectInSeq(s, LAMBDA b : b = c) = IF I # {} THEN Min(I) ELSE 0
    BY Zenon DEF SelectInSeq
  <2> HIDE DEF I
  <2> QED BY <2>1, <2>2, <2>3, <2>4 DEF First
<1> QED BY <1>2, <1>3

LEMMA FinalIs ==
  ASSUME NEW s \in Text, NEW c, NEW k \in 0..Len(s),
         \A i \in k + 1..Len(s) : s[i] # c, k > 0 => s[k] = c
  PROVE  Final(s, c) = k
<1>1. PICK n \in Nat : n = Len(s)
  BY TextAt
<1> DEFINE I == {i \in 1..Len(s) : s[i] = c}
<1>2. SelectLastInSeq(s, LAMBDA b : b = c) = IF I # {} THEN Max(I) ELSE 0
  BY Zenon DEF SelectLastInSeq
<1>3. I \in SUBSET Nat
  BY <1>1
<1>4. CASE k = 0
  <2>1. I = {}
    BY <1>1, <1>4
  <2> HIDE DEF I
  <2> QED BY <1>2, <1>4, <2>1 DEF Final
<1>5. CASE k # 0
  <2>1. k \in I /\ \A i \in I : k >= i
    BY <1>1, <1>5
  <2> HIDE DEF I
  <2>2. \A x \in I : (\A y \in I : x >= y) => x = k
    BY <1>3, <2>1
  <2>3. Max(I) \in I /\ \A y \in I : Max(I) >= y
    BY <2>1, Zenon DEF Max
  <2>4. Max(I) = k
    BY <2>2, <2>3
  <2> QED BY <1>2, <2>1, <2>4 DEF Final
<1> QED BY <1>4, <1>5

LEMMA FirstHas ==
  ASSUME NEW s \in Text, NEW c
  PROVE  /\ First(s, c) \in 1..Len(s) + 1 /\ \A i \in 1..First(s, c) - 1 : s[i] # c
         /\ First(s, c) <= Len(s) => s[First(s, c)] = c
<1>1. PICK n \in Nat : n = Len(s)
  BY TextAt
<1> DEFINE I == {i \in 1..n + 1 : i = n + 1 \/ s[i] = c}
<1>2. PICK k \in I : \A i \in I : k <= i
  <2>1. I \in SUBSET Nat /\ n + 1 \in I
    OBVIOUS
  <2>2. I # {}
    BY <2>1
  <2> HIDE DEF I
  <2> QED BY <2>1, <2>2, Least
<1>3. k \in 1..Len(s) + 1 /\ (\A i \in 1..k - 1 : s[i] # c) /\ (k <= Len(s) => s[k] = c)
  <2>1. \A i \in 1..k - 1 : s[i] # c
    <3> SUFFICES ASSUME NEW i \in 1..k - 1, s[i] = c PROVE FALSE
      OBVIOUS
    <3>1. i \in I
      OBVIOUS
    <3> QED BY <1>2, <3>1
  <2> QED BY <1>1, <2>1
<1>4. First(s, c) = k
  BY <1>3, FirstIs
<1> QED BY <1>3, <1>4

LEMMA FinalHas ==
  ASSUME NEW s \in Text, NEW c
  PROVE  /\ Final(s, c) \in 0..Len(s) /\ \A i \in Final(s, c) + 1..Len(s) : s[i] # c
         /\ Final(s, c) > 0 => s[Final(s, c)] = c
<1>1. PICK n \in Nat : n = Len(s)
  BY TextAt
<1> DEFINE I == {i \in 0..n : i = n \/ s[n - i] = c}
<1>2. PICK m \in I : \A i \in I : m <= i
  <2>1. I \in SUBSET Nat /\ n \in I
    OBVIOUS
  <2>2. I # {}
    BY <2>1
  <2> HIDE DEF I
  <2> QED BY <2>1, <2>2, Least
<1>3. PICK k \in 0..n : k = n - m
  BY <1>2
<1>4. k \in 0..Len(s) /\ (\A i \in k + 1..Len(s) : s[i] # c) /\ (k > 0 => s[k] = c)
  <2>1. \A i \in k + 1..n : s[i] # c
    <3> SUFFICES ASSUME NEW i \in k + 1..n, s[i] = c PROVE FALSE
      OBVIOUS
    <3>1. n - (n - i) = i /\ n - i \in 0..n /\ ~(m <= n - i)
      BY <1>3
    <3>2. n - i \in I
      BY <3>1
    <3> QED BY <1>2, <3>1, <3>2
  <2> QED BY <1>1, <1>2, <1>3, <2>1
<1>5. Final(s, c) = k
  BY <1>4, FinalIs
<1> QED BY <1>4, <1>5

\* Text that begins with one of some bytes, or is empty; and text without them.
Starts(t, C) == t = << >> \/ t[1] \in C
NoneOf(s, C) == \A c \in C : Free(s, c)

LEMMA FreeGlued ==
  ASSUME NEW c
  PROVE  /\ Free(<< >>, c)
         /\ \A a, b \in Text : Free(Glue(a, b), c) <=> Free(a, c) /\ Free(b, c)
         /\ \A b \in Byte : Free(<<b>>, c) <=> b # c
<1>1. Free(<< >>, c)
  BY DEF Free
<1>2. ASSUME NEW a \in Text, NEW b \in Text
      PROVE  Free(Glue(a, b), c) <=> Free(a, c) /\ Free(b, c)
  <2>1. PICK z \in Text, m \in Nat, n \in Nat :
          /\ z = Glue(a, b) /\ m = Len(a) /\ n = Len(b) /\ Len(z) = m + n
          /\ \A i \in 1..m : z[i] = a[i]
          /\ \A i \in 1..n : z[m + i] = b[i]
    <3>1. /\ Glue(a, b) \in Text /\ Len(a) \in Nat /\ Len(b) \in Nat
          /\ Len(Glue(a, b)) = Len(a) + Len(b)
          /\ \A i \in 1..Len(a) : Glue(a, b)[i] = a[i]
          /\ \A i \in 1..Len(b) : Glue(a, b)[Len(a) + i] = b[i]
      BY GlueAt
    <3> QED BY <3>1
  <2>2. ASSUME \A i \in 1..m + n : z[i] # c
        PROVE  (\A i \in 1..m : a[i] # c) /\ (\A i \in 1..n : b[i] # c)
    <3>1. \A i \in 1..m : i \in 1..m + n
      OBVIOUS
    <3>2. \A i \in 1..n : m + i \in 1..m + n
      OBVIOUS
    <3> QED BY <2>1, <2>2, <3>1, <3>2
  <2>3. ASSUME \A i \in 1..m : a[i] # c, \A i \in 1..n : b[i] # c, NEW j \in 1..m + n
        PROVE  z[j] # c
    <3>1. CASE j <= m
      BY <2>1, <2>3, <3>1
    <3>2. CASE j > m
      <4>1. j - m \in 1..n /\ j = m + (j - m)
        BY <3>2
      <4> QED BY ZenonT(60), <2>1, <2>3, <4>1
    <3> QED BY <3>1, <3>2
  <2> QED BY <2>1, <2>2, <2>3 DEF Free
<1>3. ASSUME NEW b \in Byte PROVE Free(<<b>>, c) <=> b # c
  <2>1. PICK u \in Text : u = <<b>> /\ Len(u) = 1 /\ u[1] = b
    BY Gluing, TextAt
  <2>2. (\A i \in 1..1 : u[i] # c) <=> b # c
    BY <2>1
  <2> QED BY <2>1, <2>2 DEF Free
<1> QED BY <1>1, <1>2, <1>3

\* A byte is first found where what comes before is free of it.
LEMMA FirstFound ==
  ASSUME NEW c \in Byte, NEW a \in Text, Free(a, c)
  PROVE  /\ First(a, c) = Len(a) + 1
         /\ \A t \in Text : Starts(t, {c}) => First(Glue(a, t), c) = Len(a) + 1
         /\ \A b \in Text : First(Glue(Glue(a, <<c>>), b), c) = Len(a) + 1
<1>1. PICK m \in Nat : m = Len(a)
  BY TextAt
<1>2. First(a, c) = m + 1
  <2>1. m + 1 \in 1..Len(a) + 1 /\ (\A i \in 1..(m + 1) - 1 : a[i] # c) /\ ~(m + 1 <= Len(a))
    BY <1>1 DEF Free
  <2> QED BY <2>1, FirstIs
<1>3. ASSUME NEW t \in Text, Starts(t, {c}) PROVE First(Glue(a, t), c) = m + 1
  <2>1. CASE t = << >>
    <3>1. Glue(a, t) = a
      BY <2>1, Gluing
    <3> QED BY <1>2, <3>1
  <2>2. CASE t # << >>
    <3>1. PICK n \in Nat : n = Len(t) /\ n > 0 /\ t[1] = c
      <4>1. Len(t) \in Nat /\ Len(t) # 0
        BY <2>2 DEF Text
      <4> QED BY <1>3, <2>2, <4>1 DEF Starts
    <3>2. /\ Glue(a, t) \in Text /\ Len(Glue(a, t)) = m + n
          /\ \A i \in 1..m : Glue(a, t)[i] = a[i]
          /\ \A i \in 1..n : Glue(a, t)[m + i] = t[i]
      BY <1>1, <3>1, GlueAt
    <3>3. PICK z \in Text : z = Glue(a, t)
      BY <3>2
    <3>4. m + 1 \in 1..Len(z) + 1 /\ (\A i \in 1..(m + 1) - 1 : z[i] # c) /\ z[m + 1] = c
      <4>1. \A i \in 1..(m + 1) - 1 : i \in 1..m
        OBVIOUS
      <4> QED BY <1>1, <3>1, <3>2, <3>3, <4>1 DEF Free
    <3>5. First(z, c) = m + 1
      BY <3>4, FirstIs
    <3> QED BY <3>3, <3>5
  <2> QED BY <2>1, <2>2
<1>4. ASSUME NEW b \in Text PROVE First(Glue(Glue(a, <<c>>), b), c) = m + 1
  <2>1. PICK u \in Text : u = <<c>> /\ Len(u) = 1 /\ u[1] = c
    BY Gluing, TextAt
  <2>2. PICK t \in Text : t = Glue(u, b)
    BY Gluing
  <2>3. Glue(Glue(a, u), b) = Glue(a, t)
    BY <2>2, Gluing
  <2>4. t[1] = c
    <3>1. \A i \in 1..Len(u) : Glue(u, b)[i] = u[i]
      BY GlueAt
    <3> QED BY <2>1, <2>2, <3>1
  <2>5. First(Glue(a, t), c) = m + 1
    BY <1>3, <2>4 DEF Starts
  <2> QED BY <2>1, <2>3, <2>5
<1> QED BY <1>1, <1>2, <1>3, <1>4

\* Text is divided at the first place of a byte, if there is one.
LEMMA FirstDivides ==
  ASSUME NEW s \in Text, NEW c \in Byte
  PROVE  /\ First(s, c) \in 1..Len(s) + 1
         /\ Before(s, First(s, c)) \in Text /\ Free(Before(s, First(s, c)), c)
         /\ First(s, c) > Len(s) => Before(s, First(s, c)) = s
         /\ First(s, c) <= Len(s) =>
              /\ After(s, First(s, c)) \in Text
              /\ s = Glue(Glue(Before(s, First(s, c)), <<c>>), After(s, First(s, c)))
<1>1. PICK k \in 1..Len(s) + 1 : /\ k = First(s, c) /\ \A i \in 1..k - 1 : s[i] # c
                                 /\ k <= Len(s) => s[k] = c
  BY FirstHas
<1>2. PICK n \in Nat : n = Len(s)
  BY TextAt
<1>3. PICK x \in Text : x = Before(s, k) /\ Len(x) = k - 1 /\ \A i \in 1..k - 1 : x[i] = s[i]
  BY PartsGlued
<1>4. Free(x, c)
  BY <1>1, <1>3 DEF Free
<1>5. ASSUME k > Len(s) PROVE x = s
  <2>1. Len(x) = Len(s) /\ \A i \in 1..Len(x) : x[i] = s[i]
    BY <1>2, <1>3, <1>5
  <2> QED BY <2>1, TextEqual
<1>6. ASSUME k <= Len(s) PROVE After(s, k) \in Text /\ s = Glue(Glue(x, <<c>>), After(s, k))
  <2>1. k \in 1..Len(s)
    BY <1>2, <1>6
  <2>2. s[k] = c
    BY <1>1, <1>6
  <2> QED BY <1>3, <2>1, <2>2, AroundGlued
<1> QED BY <1>1, <1>3, <1>4, <1>5, <1>6

\* Nothing is found in text that is free of a byte, or after it.
LEMMA FinalFound ==
  ASSUME NEW s \in Text, NEW c, Free(s, c)
  PROVE  Final(s, c) = 0 /\ After(s, Final(s, c)) = s
<1>1. PICK n \in Nat : n = Len(s)
  BY TextAt
<1>2. 0 \in 0..Len(s) /\ \A i \in 0 + 1..Len(s) : s[i] # c
  BY <1>1 DEF Free
<1>3. Final(s, c) = 0
  BY <1>2, FinalIs
<1>4. SubSeq(s, 1, Len(s)) = s
  BY SubSeqFull DEF Text
<1>5. 0 + 1 = 1
  OBVIOUS
<1> QED BY <1>3, <1>4, <1>5 DEF After

\* What follows the last place of a byte is free of it.
LEMMA FinalDivides ==
  ASSUME NEW s \in Text, NEW c \in Byte
  PROVE  /\ After(s, Final(s, c)) \in Text /\ Free(After(s, Final(s, c)), c)
         /\ Final(s, c) \in 0..Len(s)
         /\ \E a \in Text : s = Glue(a, After(s, Final(s, c)))
         /\ Final(s, c) > 0 => /\ Before(s, Final(s, c)) \in Text
                               /\ \E t \in Text : s = Glue(Before(s, Final(s, c)), t)
<1>1. PICK k \in 0..Len(s) : k = Final(s, c) /\ \A i \in k + 1..Len(s) : s[i] # c
  BY FinalHas
<1>2. PICK n \in Nat : n = Len(s)
  BY TextAt
<1>3. CASE k = 0
  <2>1. Free(s, c)
    <3>1. \A i \in 1..Len(s) : i \in k + 1..Len(s)
      BY <1>3
    <3> QED BY <1>1, <3>1 DEF Free
  <2>2. After(s, k) = s
    BY <1>1, <2>1, FinalFound
  <2>3. s = Glue(<< >>, s) /\ << >> \in Text
    BY Gluing
  <2> QED BY <1>1, <1>3, <2>1, <2>2, <2>3
<1>4. CASE k # 0
  <2>1. k \in 1..Len(s)
    BY <1>2, <1>4
  <2>2. /\ Before(s, k) \in Text /\ After(s, k) \in Text /\ s[k] \in Byte
        /\ s = Glue(Glue(Before(s, k), <<s[k]>>), After(s, k))
        /\ Len(After(s, k)) = Len(s) - k /\ \A i \in 1..Len(s) - k : After(s, k)[i] = s[k + i]
    BY <2>1, AroundGlued
  <2>3. PICK x \in Text, y \in Text, u \in Text : x = Before(s, k) /\ y = After(s, k) /\ u = <<s[k]>>
    BY <2>2, Gluing
  <2>4. Free(y, c)
    <3>1. \A i \in 1..n - k : k + i \in k + 1..n
      OBVIOUS
    <3> QED BY <1>1, <1>2, <2>2, <2>3, <3>1 DEF Free
  <2>5. s = Glue(Glue(x, u), y) /\ s = Glue(x, Glue(u, y)) /\ Glue(x, u) \in Text /\ Glue(u, y) \in Text
    <3>1. s = Glue(Glue(x, u), y)
      BY <2>2, <2>3
    <3> QED BY <3>1, Gluing
  <2> QED BY <1>1, <2>3, <2>4, <2>5
<1> QED BY <1>3, <1>4

LEMMA NoneGlued ==
  ASSUME NEW C
  PROVE  /\ NoneOf(<< >>, C)
         /\ \A a, b \in Text : NoneOf(Glue(a, b), C) <=> NoneOf(a, C) /\ NoneOf(b, C)
         /\ \A b \in Byte : NoneOf(<<b>>, C) <=> b \notin C
<1>1. NoneOf(<< >>, C)
  BY FreeGlued DEF NoneOf
<1>2. ASSUME NEW a \in Text, NEW b \in Text
      PROVE  NoneOf(Glue(a, b), C) <=> NoneOf(a, C) /\ NoneOf(b, C)
  BY FreeGlued DEF NoneOf
<1>3. ASSUME NEW b \in Byte PROVE NoneOf(<<b>>, C) <=> b \notin C
  BY FreeGlued DEF NoneOf
<1> QED BY <1>1, <1>2, <1>3

LEMMA StartsGlued ==
  ASSUME NEW C, NEW a \in Text, NEW b \in Text, Starts(a, C), Starts(b, C)
  PROVE  Starts(Glue(a, b), C)
<1>1. CASE a = << >>
  <2>1. Glue(a, b) = b
    BY <1>1, Gluing
  <2> QED BY <2>1
<1>2. CASE a # << >>
  <2>1. Len(a) \in Nat /\ Len(a) # 0
    BY <1>2 DEF Text
  <2>2. Glue(a, b)[1] = a[1]
    BY <2>1, GlueAt
  <2> QED BY <1>2, <2>2 DEF Starts
<1> QED BY <1>1, <1>2

LEMMA StartsWith ==
  ASSUME NEW c \in Byte
  PROVE  /\ \A t \in Text : Glue(<<c>>, t)[1] = c /\ Glue(<<c>>, t) # << >>
         /\ Starts(<<c>>, {c})
<1>1. PICK u \in Text : u = <<c>> /\ Len(u) = 1 /\ u[1] = c
  BY Gluing, TextAt
<1>2. ASSUME NEW t \in Text PROVE Glue(u, t)[1] = c /\ Glue(u, t) # << >>
  <2>1. PICK z \in Text : z = Glue(u, t) /\ Len(z) >= 1 /\ z[1] = c
    <3>1. /\ Glue(u, t) \in Text /\ Len(Glue(u, t)) = Len(u) + Len(t) /\ Len(t) \in Nat
          /\ \A i \in 1..Len(u) : Glue(u, t)[i] = u[i]
      BY GlueAt
    <3> QED BY <1>1, <3>1
  <2>2. z # << >>
    BY <2>1 DEF Text
  <2> QED BY <2>1, <2>2
<1>3. Starts(u, {c})
  BY <1>1 DEF Starts
<1> QED BY <1>1, <1>2, <1>3

Blanks == {9, 10, 13}
Bare(s) == NoneOf(s, Blanks \cup {Hash})

LEMMA StrippedGlued ==
  /\ Stripped(<< >>) = << >> /\ Stripped(<<9>>) = << >>
  /\ \A a, b \in Text : Stripped(Glue(a, b)) = Glue(Stripped(a), Stripped(b)) /\ Stripped(a) \in Text
  /\ \A s \in Text : NoneOf(s, Blanks) => Stripped(s) = s
<1>1. /\ Stripped(<< >>) = << >>
      /\ \A s \in Text : Stripped(s) \in Text
      /\ \A s \in Text, x \in Byte : Stripped(Append(s, x)) =
           IF x \in {9, 10, 13} THEN Stripped(s) ELSE Append(Stripped(s), x)
  BY StrippedEquation DEF Text
<1>2. Stripped(<<9>>) = << >>
  <2>1. 9 \in Byte /\ << >> \in Text /\ Append(<< >>, 9) = <<9>>
    BY Gluing DEF Byte
  <2> QED BY <1>1, <2>1
<1>3. ASSUME NEW a \in Text, NEW b \in Text
      PROVE  Stripped(Glue(a, b)) = Glue(Stripped(a), Stripped(b))
  <2> DEFINE A == {t \in Text : Stripped(Glue(a, t)) = Glue(Stripped(a), Stripped(t))}
  <2>1. << >> \in A
    BY <1>1, Gluing
  <2>2. ASSUME NEW t \in Text, NEW x \in Byte, t \in A PROVE Append(t, x) \in A
    <3>1. Glue(a, Append(t, x)) = Append(Glue(a, t), x) /\ Append(t, x) \in Text /\ Glue(a, t) \in Text
      BY ZenonT(60), TextConcat, Gluing DEF Glue
    <3>2. Glue(Stripped(a), Append(Stripped(t), x)) = Append(Glue(Stripped(a), Stripped(t)), x)
      BY SMTT(30), <1>1, TextConcat DEF Glue
    <3>3. Stripped(Glue(a, t)) = Glue(Stripped(a), Stripped(t))
      BY <2>2
    <3>4. CASE x \in {9, 10, 13}
      <4>1. Stripped(Append(Glue(a, t), x)) = Stripped(Glue(a, t)) /\ Stripped(Append(t, x)) = Stripped(t)
        BY <1>1, <3>1, <3>4
      <4> QED BY <3>1, <3>3, <4>1
    <3>5. CASE x \notin {9, 10, 13}
      <4>1. /\ Stripped(Append(Glue(a, t), x)) = Append(Stripped(Glue(a, t)), x)
            /\ Stripped(Append(t, x)) = Append(Stripped(t), x)
        BY <1>1, <3>1, <3>5
      <4> QED BY <3>1, <3>2, <3>3, <4>1
    <3> QED BY <3>4, <3>5
  <2>3. b \in A
    <3> HIDE DEF A
    <3> QED BY <2>1, <2>2, TextInduction
  <2> QED BY <2>3
<1>4. ASSUME NEW s \in Text, NoneOf(s, Blanks) PROVE Stripped(s) = s
  <2> DEFINE A == {t \in Text : NoneOf(t, Blanks) => Stripped(t) = t}
  <2>1. << >> \in A
    BY <1>1, Gluing
  <2>2. ASSUME NEW t \in Text, NEW x \in Byte, t \in A PROVE Append(t, x) \in A
    <3>1. Append(t, x) \in Text
      BY TextConcat
    <3>2. NoneOf(Append(t, x), Blanks) => NoneOf(t, Blanks) /\ x \notin Blanks
      BY FreeAppend DEF NoneOf
    <3> QED BY <1>1, <2>2, <3>1, <3>2 DEF Blanks
  <2>3. s \in A
    <3> HIDE DEF A
    <3> QED BY <2>1, <2>2, TextInduction
  <2> QED BY <1>4, <2>3
<1> QED BY <1>1, <1>2, <1>3, <1>4

LEMMA WithoutNone ==
  ASSUME NEW s \in Text, Free(s, Hash)
  PROVE  WithoutFragment(s) = s
<1>1. Hash \in Byte
  BY DEF Hash, Byte
<1>2. First(s, Hash) = Len(s) + 1 /\ Len(s) \in Nat
  BY <1>1, FirstFound, TextAt
<1>3. Before(s, First(s, Hash)) = s
  <2>1. First(s, Hash) > Len(s)
    BY <1>2
  <2> QED BY <1>1, <2>1, FirstDivides
<1> QED BY <1>3 DEF WithoutFragment

\* A URL with neither blanks nor a fragment is unescaped and taken apart.
LEMMA BareCanonical ==
  ASSUME NEW s \in Text, Bare(s)
  PROVE  Canonicalize(s) = TakenApart(Unescaped(s))
<1>1. NoneOf(s, Blanks) /\ Free(s, Hash)
  BY DEF Bare, NoneOf
<1>2. Stripped(s) = s
  BY <1>1, StrippedGlued
<1>3. WithoutFragment(s) = s
  BY <1>1, WithoutNone
<1> QED BY <1>2, <1>3 DEF Canonicalize

LEMMA EncodedBytes ==
  ASSUME NEW b \in Byte
  PROVE  Bare(Encoded(b)) /\ NoneOf(Encoded(b), {Question, Slash})
<1>1. b \div 16 \in 0..15 /\ (b % 16) \in 0..15
  <2>1. b \in 0..255
    BY TextAt
  <2> QED BY <2>1
<1>2. PICK e \in Text : /\ e = Encoded(b) /\ Len(e) = 3 /\ e[1] = Percent
                        /\ e[2] = HexDigit(b \div 16) /\ e[3] = HexDigit(b % 16)
  <2>1. Encoded(b) \in Text
    BY PrintedIsText
  <2> QED BY <2>1 DEF Encoded
<1>3. \A v \in 0..15 : HexDigit(v) \in 48..57 \cup 65..70
  BY DEF HexDigit
<1>4. \A i \in 1..3 : e[i] = Percent \/ e[i] \in 48..57 \cup 65..70
  BY <1>1, <1>2, <1>3
<1>5. ASSUME NEW c \in Blanks \cup {Hash, Question, Slash} PROVE Free(e, c)
  <2>1. c # Percent /\ c \notin 48..57 \cup 65..70
    BY DEF Blanks, Hash, Question, Slash, Percent
  <2> QED BY <1>2, <1>4, <2>1 DEF Free
<1> QED BY <1>2, <1>5 DEF Bare, NoneOf

\* What the authority, the path and the query of a URL make of it.
Whole(authority, path, hasQuery, query) ==
  LET colon == Final(authority, Colon)
      host == CanonicalHost(IF colon = 0 THEN authority ELSE Before(authority, colon))
  IN IF host = << >> \/ (colon > 0 /\ ~PortFits(After(authority, colon))) THEN Refused
     ELSE [host |-> Escaped(host),
           path |-> Escaped(CleanedPath(IF path = << >> THEN <<Slash>> ELSE path)),
           hasQuery |-> hasQuery, query |-> Escaped(query)]

Queried(hasQuery, query) == IF hasQuery THEN Glue(<<Question>>, query) ELSE << >>
HostPart(s) == NoneOf(s, {Slash, Question})
PathPart(s) == Free(s, Question) /\ Starts(s, {Slash})
Spelled(authority, path, hasQuery, query) == Glue(Glue(authority, path), Queried(hasQuery, query))

LEMMA QueriedIs ==
  ASSUME NEW hasQuery \in BOOLEAN, NEW query \in Text
  PROVE  Queried(hasQuery, query) \in Text /\ Starts(Queried(hasQuery, query), {Question})
<1>1. CASE hasQuery
  <2>1. /\ <<Question>> \in Text /\ Glue(<<Question>>, query) \in Text
        /\ Glue(<<Question>>, query)[1] = Question
    BY SlashIsByte, Gluing, StartsWith
  <2> QED BY <1>1, <2>1 DEF Queried, Starts
<1>2. CASE ~hasQuery
  BY <1>2, Gluing DEF Queried, Starts
<1> QED BY <1>1, <1>2

LEMMA DividedIs ==
  ASSUME NEW authority, NEW path \in Text, Free(path, Question), NEW hasQuery \in BOOLEAN,
         NEW query \in Text, ~hasQuery => query = << >>
  PROVE  Divided(authority, Glue(path, Queried(hasQuery, query)))
           = Whole(authority, path, hasQuery, query)
<1> DEFINE tail == Glue(path, Queried(hasQuery, query))
           q == First(tail, Question)
<1>1. Before(tail, q) = path /\ (q <= Len(tail)) = hasQuery /\ After(tail, q) = query
  <2>1. CASE hasQuery
    <3>1. PICK u \in Text : u = <<Question>> /\ Len(u) = 1
      BY SlashIsByte, Gluing, TextAt
    <3>2. tail = Glue(Glue(path, u), query)
      <4>1. tail = Glue(path, Glue(u, query))
        BY <2>1, <3>1 DEF Queried
      <4> QED BY <4>1, Gluing
    <3>3. q = Len(path) + 1
      <4>1. First(Glue(Glue(path, <<Question>>), query), Question) = Len(path) + 1
        BY SlashIsByte, FirstFound
      <4>2. q = First(tail, Question)
        OBVIOUS
      <4> HIDE DEF tail, q
      <4> QED BY <3>1, <3>2, <4>1, <4>2
    <3>4. Before(tail, q) = path /\ After(tail, q) = query
      <4>1. /\ Before(Glue(Glue(path, <<Question>>), query), Len(path) + 1) = path
            /\ After(Glue(Glue(path, <<Question>>), query), Len(path) + 1) = query
        BY SlashIsByte, GluedAround
      <4> HIDE DEF tail, q
      <4> QED BY <3>1, <3>2, <3>3, <4>1
    <3>5. Len(tail) = (Len(path) + 1) + Len(query) /\ Len(path) \in Nat /\ Len(query) \in Nat
      <4>1. Len(Glue(Glue(path, u), query)) = Len(Glue(path, u)) + Len(query)
        BY Gluing, GlueAt
      <4>2. Len(Glue(path, u)) = Len(path) + Len(u)
        BY GlueAt
      <4> HIDE DEF tail
      <4> QED BY <3>1, <3>2, <4>1, <4>2, TextAt
    <3>6. q <= Len(tail)
      <4> HIDE DEF tail, q
      <4> QED BY <3>3, <3>5
    <3> HIDE DEF tail, q
    <3> QED BY <2>1, <3>4, <3>6
  <2>2. CASE ~hasQuery
    <3>1. tail = path
      BY <2>2, Gluing DEF Queried
    <3>2. q = Len(path) + 1 /\ Len(path) \in Nat
      BY ZenonT(60), <3>1, SlashIsByte, FirstFound, TextAt
    <3>3. First(path, Question) > Len(path) /\ q = First(path, Question)
      <4> HIDE DEF q
      <4>1. q = First(path, Question)
        BY <3>1 DEF q
      <4> QED BY <3>2, <4>1
    <3>4. Before(path, q) = path
      BY <3>3, SlashIsByte, FirstDivides
    <3>5. After(path, q) = << >>
      <4>1. q + 1 \in Int /\ Len(path) \in Int /\ Len(path) < q + 1
        <5> HIDE DEF tail, q
        <5> QED BY <3>2
      <4> QED BY <4>1, SubSeqEmpty DEF After
    <3>6. ~(q <= Len(tail))
      <4> HIDE DEF tail, q
      <4> QED BY <3>1, <3>2
    <3> HIDE DEF tail, q
    <3> QED BY <2>2, <3>1, <3>4, <3>5, <3>6
  <2> QED BY <2>1, <2>2
<1>2. Divided(authority, tail) = Assembled(authority, Final(authority, Colon), tail, q)
  BY DEF Divided
<1> HIDE DEF tail, q
<1>3. Assembled(authority, Final(authority, Colon), tail, q) = Whole(authority, path, hasQuery, query)
  BY <1>1 DEF Assembled, Whole
<1> QED BY <1>2, <1>3 DEF tail

\* The authority ends at the first slash or question mark.
LEMMA TakenApartAt ==
  ASSUME NEW authority \in Text, Free(authority, Slash), Free(authority, Question),
         NEW t \in Text, Starts(t, {Slash, Question})
  PROVE  TakenApart(Glue(authority, t)) = Divided(WithoutUser(authority), t)
<1> DEFINE s == Glue(authority, t)
<1>1. PICK m \in Nat, n \in Nat :
        /\ m = Len(authority) /\ n = Len(t) /\ s \in Text /\ Len(s) = m + n
        /\ \A i \in 1..m : s[i] = authority[i]
        /\ \A i \in 1..n : s[m + i] = t[i]
  BY GlueAt
<1>2. ASSUME NEW c \in {Slash, Question} PROVE First(s, c) \in m + 1..m + n + 1
  <2>1. PICK k \in Nat : k = First(s, c) /\ k \in 1..(m + n) + 1 /\ (k <= m + n => s[k] = c)
    <3>1. First(s, c) \in 1..Len(s) + 1 /\ (First(s, c) <= Len(s) => s[First(s, c)] = c)
      BY <1>1, FirstHas
    <3> HIDE DEF s
    <3> QED BY <1>1, <3>1
  <2>2. \A i \in 1..m : s[i] # c
    BY <1>1 DEF Free
  <2>3. ~(k <= m)
    <3> HIDE DEF s
    <3> QED BY <2>1, <2>2
  <2> HIDE DEF s
  <2> QED BY <2>1, <2>3
<1>3. \E c \in {Slash, Question} : First(s, c) = m + 1
  <2>1. CASE t = << >>
    <3>1. s = authority
      BY <2>1, Gluing
    <3> QED BY ZenonT(60), <1>1, <3>1, SlashIsByte, FirstFound
  <2>2. CASE t # << >>
    <3>1. PICK c \in {Slash, Question} : t[1] = c
      BY <2>2 DEF Starts
    <3>2. Starts(t, {c}) /\ c \in Byte /\ Free(authority, c)
      BY <3>1, SlashIsByte DEF Starts
    <3> QED BY <1>1, <3>2, FirstFound
  <2> QED BY <2>1, <2>2
<1>4. Min({First(s, Slash), First(s, Question)}) = m + 1
  <2> DEFINE E == {First(s, Slash), First(s, Question)}
  <2>1. E \subseteq m + 1..m + n + 1 /\ m + 1 \in E
    BY <1>2, <1>3
  <2> HIDE DEF E
  <2>2. \A x \in E : (\A y \in E : x <= y) => x = m + 1
    BY <2>1
  <2>3. \A y \in E : m + 1 <= y
    BY <2>1
  <2>4. Min(E) \in E /\ \A y \in E : Min(E) <= y
    BY <2>1, <2>3, Zenon DEF Min
  <2> QED BY <2>2, <2>4 DEF E
<1>5. Before(s, m + 1) = authority /\ SubSeq(s, m + 1, Len(s)) = t
  BY <1>1, GluedParts
<1> HIDE DEF s
<1>6. TakenApart(s) = Divided(WithoutUser(authority), t)
  BY <1>4, <1>5 DEF TakenApart
<1> QED BY <1>6 DEF s

LEMMA SpelledApart ==
  ASSUME NEW authority \in Text, HostPart(authority), NEW path \in Text, PathPart(path),
         NEW hasQuery \in BOOLEAN, NEW query \in Text, ~hasQuery => query = << >>
  PROVE  /\ Spelled(authority, path, hasQuery, query) \in Text
         /\ TakenApart(Spelled(authority, path, hasQuery, query))
              = Whole(WithoutUser(authority), path, hasQuery, query)
<1>1. PICK k \in Text : k = Queried(hasQuery, query) /\ Starts(k, {Question})
  BY QueriedIs
<1>2. PICK t \in Text : t = Glue(path, k)
  BY Gluing
<1>3. Spelled(authority, path, hasQuery, query) = Glue(authority, t)
  BY <1>1, <1>2, Gluing DEF Spelled
<1>4. Starts(t, {Slash, Question})
  <2>1. Starts(path, {Slash, Question}) /\ Starts(k, {Slash, Question})
    BY <1>1 DEF Starts, PathPart
  <2> QED BY <1>2, <2>1, StartsGlued
<1>5. Free(authority, Slash) /\ Free(authority, Question)
  BY DEF NoneOf, HostPart
<1>6. TakenApart(Glue(authority, t)) = Divided(WithoutUser(authority), t)
  BY <1>4, <1>5, TakenApartAt
<1>7. Divided(WithoutUser(authority), t) = Whole(WithoutUser(authority), path, hasQuery, query)
  BY <1>1, <1>2, DividedIs DEF PathPart
<1> QED BY <1>3, <1>6, <1>7, Gluing

\* Every text is spelled in this way.
LEMMA EverySpelled ==
  ASSUME NEW s \in Text
  PROVE  \E authority, path, query \in Text, hasQuery \in BOOLEAN :
           /\ HostPart(authority) /\ PathPart(path)
           /\ ~hasQuery => query = << >>
           /\ s = Spelled(authority, path, hasQuery, query)
<1>1. PICK head \in Text, query \in Text, hasQuery \in BOOLEAN :
        /\ Free(head, Question) /\ (~hasQuery => query = << >>)
        /\ s = Glue(head, Queried(hasQuery, query))
  <2>1. Question \in Byte
    BY SlashIsByte
  <2>2. PICK k \in 1..Len(s) + 1 : k = First(s, Question)
    BY <2>1, FirstDivides
  <2>3. CASE k > Len(s)
    <3>1. Free(s, Question)
      BY <2>1, <2>2, <2>3, FirstDivides
    <3>2. s = Glue(s, Queried(FALSE, << >>)) /\ << >> \in Text
      BY Gluing DEF Queried
    <3> QED BY <3>1, <3>2
  <2>4. CASE k <= Len(s)
    <3>1. PICK x \in Text, y \in Text : x = Before(s, k) /\ y = After(s, k)
      BY <2>1, <2>2, <2>4, FirstDivides
    <3>2. Free(x, Question) /\ s = Glue(Glue(x, <<Question>>), y)
      BY <2>1, <2>2, <2>4, <3>1, FirstDivides
    <3>3. s = Glue(x, Queried(TRUE, y))
      BY <2>1, <3>2, Gluing DEF Queried
    <3> QED BY <3>2, <3>3
  <2>5. Len(s) \in Nat
    BY TextAt
  <2> QED BY <2>3, <2>4, <2>5
<1>2. PICK authority \in Text, path \in Text :
        Free(authority, Slash) /\ Starts(path, {Slash}) /\ head = Glue(authority, path)
  <2>1. Slash \in Byte
    BY SlashIsByte
  <2>2. PICK k \in 1..Len(head) + 1 : k = First(head, Slash)
    BY <2>1, FirstDivides
  <2>3. CASE k > Len(head)
    <3>1. Free(head, Slash)
      BY <2>1, <2>2, <2>3, FirstDivides
    <3>2. PICK e \in Text : e = << >> /\ head = Glue(head, e) /\ Starts(e, {Slash})
      BY Gluing DEF Starts
    <3> QED BY <3>1, <3>2
  <2>4. CASE k <= Len(head)
    <3>1. PICK x \in Text, y \in Text : x = Before(head, k) /\ y = After(head, k)
      BY <2>1, <2>2, <2>4, FirstDivides
    <3>2. Free(x, Slash) /\ head = Glue(Glue(x, <<Slash>>), y)
      BY <2>1, <2>2, <2>4, <3>1, FirstDivides
    <3>3. PICK u \in Text : u = <<Slash>>
      BY <2>1, Gluing
    <3>4. PICK p \in Text : p = Glue(u, y)
      BY Gluing
    <3>5. head = Glue(x, p)
      <4>1. head = Glue(Glue(x, u), y)
        BY <3>2, <3>3
      <4> QED BY <3>4, <4>1, Gluing
    <3>6. Starts(p, {Slash})
      BY <2>1, <3>3, <3>4, StartsWith DEF Starts
    <3> QED BY <3>2, <3>5, <3>6
  <2>5. k > Len(head) \/ k <= Len(head)
    <3>1. Len(head) \in Nat
      BY TextAt
    <3> QED BY <3>1
  <2> QED BY <2>3, <2>4, <2>5, Zenon
<1>3. Free(authority, Question) /\ Free(path, Question)
  BY <1>1, <1>2, FreeGlued
<1>4. HostPart(authority) /\ PathPart(path)
  BY <1>2, <1>3 DEF NoneOf, HostPart, PathPart
<1>5. s = Spelled(authority, path, hasQuery, query)
  BY <1>1, <1>2 DEF Spelled
<1> QED BY <1>1, <1>2, <1>3, <1>4, <1>5

LEMMA SlashFormIs ==
  ASSUME NEW m \in SlashForms
  PROVE  m \in Text /\ m # << >> /\ Starts(m, {Slash}) /\ Bare(m) /\ NoneOf(m, {Question, Percent})
<1> DEFINE C == (Blanks \cup {Hash}) \cup {Question, Percent}
<1>1. /\ Slash \in Byte /\ Dot \in Byte /\ 120 \in Byte
      /\ Slash \notin C /\ Dot \notin C /\ 120 \notin C
  BY DEF Slash, Dot, Byte, Blanks, Hash, Question, Percent
<1> HIDE DEF C
<1>2. PICK u \in Text, d \in Text, x \in Text :
        u = <<Slash>> /\ d = <<Dot>> /\ x = <<120>> /\ NoneOf(u, C) /\ NoneOf(d, C) /\ NoneOf(x, C)
  <2>1. PICK u \in Text : u = <<Slash>> /\ NoneOf(u, C)
    BY <1>1, Gluing, NoneGlued
  <2>2. PICK d \in Text : d = <<Dot>> /\ NoneOf(d, C)
    BY <1>1, Gluing, NoneGlued
  <2>3. PICK x \in Text : x = <<120>> /\ NoneOf(x, C)
    <3>1. PICK k \in Byte : k = 120 /\ k \notin C
      BY <1>1
    <3>2. \A b \in Byte : b \notin C => <<b>> \in Text /\ NoneOf(<<b>>, C)
      BY Gluing, NoneGlued
    <3>3. <<120>> \in Text /\ NoneOf(<<120>>, C)
      BY <1>1, <3>2, Zenon
    <3> QED BY <3>3
  <2> QED BY <2>1, <2>2, <2>3
<1>9. NoneOf(u, C) /\ NoneOf(d, C) /\ NoneOf(x, C)
  BY <1>2
<1>3. m \in Text /\ NoneOf(m, C)
  <2>1. CASE m = <<Slash, Slash>>
    <3>1. m = Glue(u, u)
      BY <1>1, <1>2, <2>1, TupleOfTwo
    <3> QED BY <1>2, <3>1, Gluing, NoneGlued
  <2>2. CASE m = <<Slash, Dot, Slash>>
    <3>1. m = Glue(Glue(u, d), u)
      BY <1>1, <1>2, <2>2, TupleOfThree
    <3>2. PICK v \in Text : v = Glue(u, d)
      BY Gluing
    <3>3. NoneOf(v, C)
      BY <1>2, <3>2, NoneGlued
    <3> QED BY <1>2, <3>1, <3>2, <3>3, Gluing, NoneGlued
  <2>3. CASE m = <<Slash, 120, Slash, Dot, Dot, Slash>>
    <3>1. m = Glue(Glue(Glue(Glue(u, x), u), <<Dot, Dot>>), u)
      BY <1>1, <1>2, <2>3, TupleOfSix
    <3>2. PICK dd \in Text : dd = <<Dot, Dot>> /\ NoneOf(dd, C)
      <4>1. <<Dot, Dot>> = Glue(d, d)
        BY <1>1, <1>2, TupleOfTwo
      <4> QED BY <1>2, <4>1, Gluing, NoneGlued
    <3>3. PICK v \in Text : v = Glue(u, x) /\ NoneOf(v, C)
      <4>1. Glue(u, x) \in Text /\ NoneOf(Glue(u, x), C)
        BY <1>9, Gluing, NoneGlued
      <4> QED BY <4>1
    <3>4. PICK w \in Text : w = Glue(v, u) /\ NoneOf(w, C)
      <4>1. Glue(v, u) \in Text /\ NoneOf(Glue(v, u), C)
        BY <1>9, <3>3, Gluing, NoneGlued
      <4> QED BY <4>1
    <3>5. PICK y \in Text : y = Glue(w, dd) /\ NoneOf(y, C)
      <4>1. Glue(w, dd) \in Text /\ NoneOf(Glue(w, dd), C)
        BY <3>2, <3>4, Gluing, NoneGlued
      <4> QED BY <4>1
    <3>6. m = Glue(y, u)
      BY <3>1, <3>2, <3>3, <3>4, <3>5
    <3> QED BY <1>2, <3>5, <3>6, Gluing, NoneGlued
  <2> QED BY <2>1, <2>2, <2>3 DEF SlashForms
<1>4. m # << >> /\ m[1] = Slash
  BY DEF SlashForms
<1> QED BY <1>3, <1>4 DEF C, Bare, NoneOf, Starts

\* A longer spelling of a slash of the path, after which no byte is a question mark
\* or a percent sign, makes no difference.
LEMMA SlashesSame ==
  ASSUME NEW a \in Text, NoneOf(a, {Question, Percent}), NEW w \in Text, NEW m \in SlashForms
  PROVE  TakenApart(Unescaped(Glue(Glue(a, m), w)))
           = TakenApart(Unescaped(Glue(Glue(a, <<Slash>>), w)))
<1>1. PICK v \in Text : v = Unescaped(w)
  BY UnescapedText
<1>2. PICK u \in Text : u = <<Slash>> /\ Starts(u, {Slash}) /\ u # << >> /\ NoneOf(u, {Question, Percent})
  <2>1. Slash \in Byte /\ Slash \notin {Question, Percent} /\ <<Slash>> # << >>
    BY SlashIsByte DEF Slash, Question, Percent
  <2>2. <<Slash>> \in Text /\ Starts(<<Slash>>, {Slash}) /\ NoneOf(<<Slash>>, {Question, Percent})
    BY <2>1, Gluing, StartsWith, NoneGlued
  <2> QED BY <2>1, <2>2
<1>3. PICK authority \in Text, start \in Text :
        /\ HostPart(authority) /\ PathPart(start)
        /\ a = Glue(authority, start)
  <2>1. PICK authority \in Text, path \in Text, query \in Text, hasQuery \in BOOLEAN :
           /\ HostPart(authority) /\ PathPart(path)
           /\ ~hasQuery => query = << >>
           /\ a = Spelled(authority, path, hasQuery, query)
    BY EverySpelled, Zenon
  <2>2. PICK k \in Text : k = Queried(hasQuery, query)
    BY QueriedIs
  <2>3. a = Glue(Glue(authority, path), k) /\ Glue(authority, path) \in Text
    BY <2>1, <2>2, Gluing DEF Spelled
  <2>4. Free(a, Question)
    BY DEF NoneOf
  <2>5. Free(k, Question)
    BY <2>3, <2>4, FreeGlued
  <2>6. k = << >>
    <3>1. CASE hasQuery
      <4>1. k = Glue(<<Question>>, query) /\ <<Question>> \in Text /\ ~Free(<<Question>>, Question)
        BY <2>2, <3>1, SlashIsByte, Gluing, FreeGlued DEF Queried
      <4> QED BY <2>5, <4>1, FreeGlued
    <3> QED BY <2>2, <3>1 DEF Queried
  <2>7. a = Glue(authority, path)
    BY <2>3, <2>6, Gluing
  <2> QED BY <2>1, <2>7
<1>4. PICK path \in Text, query \in Text, hasQuery \in BOOLEAN :
        /\ Free(path, Question) /\ (~hasQuery => query = << >>)
        /\ v = Glue(path, Queried(hasQuery, query))
  <2>1. PICK authority1 \in Text, path1 \in Text, query \in Text, hasQuery \in BOOLEAN :
           /\ HostPart(authority1) /\ PathPart(path1)
           /\ ~hasQuery => query = << >>
           /\ v = Spelled(authority1, path1, hasQuery, query)
    BY EverySpelled, Zenon
  <2>2. PICK path \in Text : path = Glue(authority1, path1)
    BY Gluing
  <2>3. Free(path, Question)
    <3>1. Free(authority1, Question)
      BY <2>1 DEF NoneOf, HostPart
    <3> QED BY <2>1, <2>2, <3>1, FreeGlued DEF PathPart
  <2>4. v = Glue(path, Queried(hasQuery, query))
    BY <2>1, <2>2 DEF Spelled
  <2> QED BY <2>1, <2>3, <2>4
<1>5. PICK k \in Text : k = Queried(hasQuery, query)
  BY QueriedIs
<1>6. ASSUME NEW s \in Text, s # << >>, Starts(s, {Slash}), NoneOf(s, {Question, Percent})
      PROVE  TakenApart(Unescaped(Glue(Glue(a, s), w)))
               = Whole(WithoutUser(authority), Glue(Glue(start, s), path), hasQuery, query)
             /\ Glue(Glue(start, s), path) # << >>
  <2>1. Unescaped(Glue(Glue(a, s), w)) = Glue(Glue(a, s), v)
    <3>1. PICK p \in Text : p = Glue(a, s)
      BY Gluing
    <3>2. Free(a, Percent) /\ Free(s, Percent)
      BY <1>6 DEF NoneOf
    <3>3. Free(p, Percent)
      BY <3>1, <3>2, FreeGlued
    <3>4. Unescaped(Glue(p, w)) = Glue(p, Unescaped(w))
      BY <3>3, UnescapedAfter
    <3> QED BY <1>1, <3>1, <3>4
  <2>2. PICK ss \in Text : ss = Glue(start, s)
    BY Gluing
  <2>3. PICK q \in Text : q = Glue(ss, path)
    BY Gluing
  <2>4. Glue(Glue(a, s), v) = Spelled(authority, q, hasQuery, query)
    <3>1. Glue(a, s) = Glue(authority, ss)
      BY <1>3, <2>2, Gluing
    <3>2. Glue(authority, ss) \in Text /\ v = Glue(path, k)
      BY <1>4, <1>5, Gluing
    <3>3. Glue(Glue(authority, ss), Glue(path, k)) = Glue(Glue(Glue(authority, ss), path), k)
      BY <3>2, Gluing
    <3>4. Glue(Glue(authority, ss), path) = Glue(authority, q)
      BY <2>3, Gluing
    <3> QED BY <1>5, <3>1, <3>2, <3>3, <3>4 DEF Spelled
  <2>5. Free(q, Question)
    <3>1. Free(s, Question)
      BY <1>6 DEF NoneOf
    <3>2. Free(ss, Question)
      BY <1>3, <2>2, <3>1, FreeGlued DEF PathPart
    <3> QED BY <1>4, <2>3, <3>2, FreeGlued
  <2>6. Starts(ss, {Slash}) /\ Starts(q, {Slash}) /\ q # << >>
    <3>1. Starts(ss, {Slash})
      BY <1>3, <1>6, <2>2, StartsGlued DEF PathPart
    <3>2. Len(s) \in Nat /\ Len(s) > 0
      BY <1>6 DEF Text
    <3>3. Len(ss) = Len(start) + Len(s) /\ Len(start) \in Nat
      BY <2>2, GlueAt
    <3>4. PICK n \in Nat : n = Len(ss) /\ n > 0
      BY <3>2, <3>3
    <3>5. /\ Len(q) = n + Len(path) /\ Len(path) \in Nat
          /\ \A i \in 1..n : q[i] = ss[i]
      <4>1. /\ Len(Glue(ss, path)) = Len(ss) + Len(path) /\ Len(path) \in Nat
            /\ \A i \in 1..Len(ss) : Glue(ss, path)[i] = ss[i]
        BY GlueAt
      <4> QED BY <2>3, <3>4, <4>1
    <3>6. q # << >> /\ ss # << >>
      <4>1. Len(q) > 0
        BY <3>4, <3>5
      <4> QED BY <3>4, <4>1 DEF Text
    <3>7. q[1] = ss[1]
      BY <3>4, <3>5
    <3> QED BY <3>1, <3>6, <3>7 DEF Starts
  <2>7. TakenApart(Spelled(authority, q, hasQuery, query)) = Whole(WithoutUser(authority), q, hasQuery, query)
    <3>1. HostPart(authority) /\ (~hasQuery => query = << >>)
      BY <1>3, <1>4
    <3>2. PathPart(q)
      BY <2>5, <2>6 DEF PathPart
    <3> QED BY <3>1, <3>2, SpelledApart
  <2> QED BY <2>1, <2>2, <2>3, <2>4, <2>6, <2>7
<1>7. m \in Text /\ m # << >> /\ Starts(m, {Slash}) /\ NoneOf(m, {Question, Percent})
  BY SlashFormIs
<1>8. CleanedPath(Glue(Glue(start, m), path)) = CleanedPath(Glue(Glue(start, u), path))
  BY <1>2, CleanedSlashes
<1>9. Whole(WithoutUser(authority), Glue(Glue(start, m), path), hasQuery, query)
        = Whole(WithoutUser(authority), Glue(Glue(start, u), path), hasQuery, query)
  BY <1>2, <1>6, <1>7, <1>8 DEF Whole
<1> QED BY <1>2, <1>6, <1>7, <1>9

LEMMA ReplacedIs ==
  ASSUME NEW raw \in Text, NEW i \in DOMAIN raw
  PROVE  /\ i \in 1..Len(raw) /\ raw[i] \in Byte
         /\ \E a, w \in Text :
              /\ raw = Glue(Glue(a, <<raw[i]>>), w)
              /\ \A s \in Text : Replaced(raw, i, s) = Glue(Glue(a, s), w)
              /\ \A C : (\A j \in 1..i - 1 : raw[j] \notin C) => NoneOf(a, C)
<1>1. i \in 1..Len(raw) /\ raw[i] \in Byte
  <2>1. raw \in Seq(Byte)
    BY DEF Text
  <2>2. DOMAIN raw = 1..Len(raw)
    BY <2>1
  <2> QED BY <2>2, TextAt
<1>2. PICK a \in Text, w \in Text : a = Before(raw, i) /\ w = After(raw, i)
  BY <1>1, AroundGlued
<1>3. /\ raw = Glue(Glue(a, <<raw[i]>>), w) /\ Len(a) = i - 1 /\ \A j \in 1..i - 1 : a[j] = raw[j]
  BY <1>1, <1>2, AroundGlued
<1>4. ASSUME NEW s \in Text PROVE Replaced(raw, i, s) = Glue(Glue(a, s), w)
  BY <1>2, Zenon DEF Replaced, Glue
<1>5. ASSUME NEW C, \A j \in 1..i - 1 : raw[j] \notin C PROVE NoneOf(a, C)
  BY <1>3, <1>5 DEF NoneOf, Free
<1> QED BY <1>1, <1>3, <1>4, <1>5

\* The canonical form does not depend on how a URL is spelled, however long it is:
\* with a byte as an escape, be it part of one, with a tab anywhere, or with more
\* components that are cleaned away in its path (Canonicalize, unescapeRepeated,
\* cleanURLPath).
THEOREM SpellingsAgree ==
  ASSUME NEW raw \in Text, Bare(raw)
  PROVE  \A r \in Respellings(raw) : Canonicalize(r) = Canonicalize(raw)
<1>1. Canonicalize(raw) = TakenApart(Unescaped(raw))
  BY BareCanonical
<1>2. ASSUME NEW i \in DOMAIN raw PROVE Canonicalize(Replaced(raw, i, Encoded(raw[i]))) = Canonicalize(raw)
  <2>1. PICK a \in Text, w \in Text, b \in Byte :
          /\ b = raw[i] /\ raw = Glue(Glue(a, <<b>>), w)
          /\ \A s \in Text : Replaced(raw, i, s) = Glue(Glue(a, s), w)
    BY ZenonT(60), <1>2, ReplacedIs
  <2>2. PICK e \in Text, u \in Text : e = Encoded(b) /\ u = <<b>> /\ Bare(e)
    BY PrintedIsText, Gluing, EncodedBytes
  <2>3. Bare(Glue(Glue(a, e), w)) /\ Glue(Glue(a, e), w) \in Text
    <3>1. Glue(a, u) \in Text /\ Glue(a, e) \in Text /\ raw = Glue(Glue(a, u), w)
      BY <2>1, <2>2, Gluing
    <3>2. Bare(a) /\ Bare(w)
      BY <3>1, NoneGlued DEF Bare
    <3>3. Bare(Glue(a, e))
      BY <2>2, <3>2, NoneGlued DEF Bare
    <3> QED BY <3>1, <3>2, <3>3, NoneGlued, Gluing DEF Bare
  <2>4. Canonicalize(Glue(Glue(a, e), w)) = TakenApart(Unescaped(Glue(Glue(a, e), w)))
    BY <2>3, BareCanonical
  <2>5. Unescaped(Glue(Glue(a, e), w)) = Unescaped(raw)
    <3>1. Unescaped(Glue(Glue(a, Encoded(b)), w)) = Unescaped(Glue(Glue(a, <<b>>), w))
      BY EncodedSame
    <3> QED BY <2>1, <2>2, <3>1
  <2>6. Replaced(raw, i, Encoded(raw[i])) = Glue(Glue(a, e), w)
    BY <2>1, <2>2
  <2> QED BY <1>1, <2>4, <2>5, <2>6
<1>3. ASSUME NEW i \in DOMAIN raw PROVE Canonicalize(Replaced(raw, i, <<9, raw[i]>>)) = Canonicalize(raw)
  <2>1. PICK a \in Text, w \in Text, b \in Byte :
          /\ b = raw[i] /\ raw = Glue(Glue(a, <<b>>), w)
          /\ \A s \in Text : Replaced(raw, i, s) = Glue(Glue(a, s), w)
    BY ZenonT(60), <1>3, ReplacedIs
  <2>2. PICK u \in Text, t \in Text, p \in Text : u = <<b>> /\ t = <<9>> /\ p = <<9, b>> /\ p = Glue(t, u)
    <3>1. 9 \in Byte
      BY DEF Byte
    <3>2. PICK u \in Text : u = <<b>>
      BY Gluing
    <3>3. PICK t \in Text : t = <<9>>
      BY <3>1, Gluing
    <3>4. PICK p \in Text : p = Glue(t, u)
      BY Gluing
    <3>5. Glue(<<9>>, <<b>>) = <<9, b>>
      BY <3>1, TupleOfTwo
    <3>6. p = <<9, b>>
      BY <3>2, <3>3, <3>4, <3>5
    <3> QED BY <3>2, <3>3, <3>4, <3>6
  <2>3. Stripped(Glue(Glue(a, p), w)) = Stripped(raw)
    <3>1. Stripped(p) = Stripped(u)
      <4>1. Stripped(p) = Glue(Stripped(t), Stripped(u)) /\ Stripped(t) = << >> /\ Stripped(u) \in Text
        BY <2>2, StrippedGlued
      <4> QED BY <4>1, Gluing
    <3>2. Stripped(Glue(a, p)) = Stripped(Glue(a, u))
      BY <3>1, StrippedGlued
    <3>3. Glue(a, p) \in Text /\ Glue(a, u) \in Text
      BY Gluing
    <3>4. Stripped(Glue(Glue(a, p), w)) = Stripped(Glue(Glue(a, u), w))
      BY <3>2, <3>3, StrippedGlued
    <3> QED BY <2>1, <2>2, <3>4
  <2>4. Replaced(raw, i, <<9, raw[i]>>) = Glue(Glue(a, p), w)
    BY <2>1, <2>2
  <2> QED BY <2>3, <2>4 DEF Canonicalize
<1>4. ASSUME NEW i \in DOMAIN raw, raw[i] = Slash, \A j \in 1..i - 1 : raw[j] \notin {Question, Percent},
             NEW m \in SlashForms
      PROVE  Canonicalize(Replaced(raw, i, m)) = Canonicalize(raw)
  <2>1. PICK a \in Text, w \in Text :
          /\ raw = Glue(Glue(a, <<Slash>>), w)
          /\ \A s \in Text : Replaced(raw, i, s) = Glue(Glue(a, s), w)
          /\ NoneOf(a, {Question, Percent})
    BY <1>4, ReplacedIs
  <2>2. PICK u \in Text : u = <<Slash>>
    BY SlashIsByte, Gluing
  <2>3. m \in Text /\ Bare(m)
    BY <1>4, SlashFormIs
  <2>4. Bare(Glue(Glue(a, m), w)) /\ Glue(Glue(a, m), w) \in Text
    <3>1. Glue(a, u) \in Text /\ Glue(a, m) \in Text /\ raw = Glue(Glue(a, u), w)
      BY <2>1, <2>2, <2>3, Gluing
    <3>2. Bare(a) /\ Bare(w)
      BY <3>1, NoneGlued DEF Bare
    <3>3. Bare(Glue(a, m))
      BY <2>3, <3>2, NoneGlued DEF Bare
    <3> QED BY <3>1, <3>2, <3>3, NoneGlued, Gluing DEF Bare
  <2>5. Canonicalize(Glue(Glue(a, m), w)) = TakenApart(Unescaped(Glue(Glue(a, m), w)))
    BY <2>4, BareCanonical
  <2>6. TakenApart(Unescaped(Glue(Glue(a, m), w))) = TakenApart(Unescaped(raw))
    BY ZenonT(60), <1>4, <2>1, SlashesSame
  <2>7. Replaced(raw, i, m) = Glue(Glue(a, m), w)
    BY <2>1, <2>3
  <2> QED BY <1>1, <2>5, <2>6, <2>7
<1> SUFFICES ASSUME NEW r \in Respellings(raw) PROVE Canonicalize(r) = Canonicalize(raw)
  OBVIOUS
<1>5. \/ \E i \in DOMAIN raw : r = Replaced(raw, i, Encoded(raw[i]))
      \/ \E i \in DOMAIN raw : r = Replaced(raw, i, <<9, raw[i]>>)
      \/ \E i \in DOMAIN raw, m \in SlashForms :
           /\ raw[i] = Slash /\ \A j \in 1..i - 1 : raw[j] \notin {Question, Percent}
           /\ r = Replaced(raw, i, m)
  <2> DEFINE I == {i \in DOMAIN raw : raw[i] = Slash /\ \A j \in 1..i - 1 : raw[j] \notin {Question, Percent}}
  <2>1. r \in {Replaced(raw, i, Encoded(raw[i])) : i \in DOMAIN raw} \cup
              {Replaced(raw, i, <<9, raw[i]>>) : i \in DOMAIN raw} \cup
              {Replaced(raw, i, s) : i \in I, s \in SlashForms}
    <3>1. r \in Respellings(raw)
      OBVIOUS
    <3> QED BY <3>1 DEF Respellings, SlashForms
  <2>2. CASE r \in {Replaced(raw, i, Encoded(raw[i])) : i \in DOMAIN raw}
    BY <2>2
  <2>3. CASE r \in {Replaced(raw, i, <<9, raw[i]>>) : i \in DOMAIN raw}
    BY <2>3
  <2>4. CASE r \in {Replaced(raw, i, s) : i \in I, s \in SlashForms}
    <3>1. PICK i \in I, s \in SlashForms : r = Replaced(raw, i, s)
      <4> HIDE DEF I
      <4> QED BY <2>4
    <3>2. i \in DOMAIN raw /\ raw[i] = Slash /\ \A j \in 1..i - 1 : raw[j] \notin {Question, Percent}
      OBVIOUS
    <3> HIDE DEF I
    <3> QED BY <3>1, <3>2
  <2> HIDE DEF I
  <2> QED BY <2>1, <2>2, <2>3, <2>4
<1>6. CASE \E i \in DOMAIN raw : r = Replaced(raw, i, Encoded(raw[i]))
  BY <1>2, <1>6
<1>7. CASE \E i \in DOMAIN raw : r = Replaced(raw, i, <<9, raw[i]>>)
  BY <1>3, <1>7
<1>8. CASE \E i \in DOMAIN raw, m \in SlashForms :
             /\ raw[i] = Slash /\ \A j \in 1..i - 1 : raw[j] \notin {Question, Percent}
             /\ r = Replaced(raw, i, m)
  <2>1. PICK i \in DOMAIN raw, m \in SlashForms :
          /\ raw[i] = Slash /\ \A j \in 1..i - 1 : raw[j] \notin {Question, Percent}
          /\ r = Replaced(raw, i, m)
    BY <1>8
  <2> QED BY <1>4, <2>1
<1> QED BY <1>5, <1>6, <1>7, <1>8

----
(* A host in its canonical form. *)

\* Printable text has neither blanks nor a fragment.
LEMMA EscapedBare ==
  \A s \in Text : Bare(Escaped(s)) /\ Escaped(s) \in Text
<1> DEFINE A == {t \in Text : Bare(Escaped(t)) /\ Escaped(t) \in Text}
<1>1. << >> \in A
  BY EscapedEquation, NoneGlued, Gluing DEF Bare
<1>2. ASSUME NEW t \in Text, NEW x \in Byte, t \in A PROVE Append(t, x) \in A
  <2>1. PICK e \in Text, p \in Text : e = Escaped(t) /\ p = Printed(x)
    BY <1>2, PrintedIsText
  <2>2. Escaped(Append(t, x)) = Glue(e, p) /\ Append(t, x) \in Text
    BY <2>1, EscapedEquation, TextConcat DEF Text, Glue
  <2>3. Bare(p)
    <3>1. CASE p = Encoded(x)
      BY <3>1, EncodedBytes
    <3>2. CASE p # Encoded(x)
      <4>1. p = <<x>> /\ ~(x <= 32) /\ x # Hash
        BY <2>1, <3>2 DEF Printed
      <4>2. x \notin Blanks \cup {Hash}
        BY <4>1 DEF Blanks
      <4> QED BY <4>1, <4>2, NoneGlued DEF Bare
    <3> QED BY <3>1, <3>2
  <2>4. Bare(Glue(e, p)) /\ Glue(e, p) \in Text
    BY <1>2, <2>1, <2>3, NoneGlued, Gluing DEF Bare
  <2> QED BY <2>2, <2>4
<1> HIDE DEF A
<1>3. \A s \in Text : s \in A
  BY <1>1, <1>2, TextInduction
<1> QED BY <1>3 DEF A

\* Text without escapes and without some bytes.
PlainWithout(C) == {s \in PlainTexts : NoneOf(s, C)}

LEMMA WithoutClosed ==
  ASSUME NEW C
  PROVE  /\ Closed(PlainWithout(C))
         /\ \A c \in Byte : (c \notin C /\ c # Percent /\ Unhex(c) < 0) => GluedBy(PlainWithout(C), c)
<1>1. Closed(PlainWithout(C))
  <2>1. << >> \in PlainWithout(C)
    BY PlainClosed, NoneGlued DEF Closed, PlainWithout
  <2>2. ASSUME NEW s \in Text, NEW t \in Text, Glue(s, t) \in PlainWithout(C)
        PROVE  s \in PlainWithout(C) /\ t \in PlainWithout(C)
    <3>1. s \in PlainTexts /\ t \in PlainTexts
      BY <2>2, PlainClosed DEF Closed, PlainWithout, Glue
    <3>2. NoneOf(s, C) /\ NoneOf(t, C)
      BY <2>2, NoneGlued DEF PlainWithout
    <3> QED BY <3>1, <3>2 DEF PlainWithout
  <2> QED BY <2>1, <2>2 DEF Closed, PlainWithout, PlainTexts, Glue
<1>2. ASSUME NEW c \in Byte, c \notin C, c # Percent, Unhex(c) < 0,
             NEW a \in PlainWithout(C), NEW b \in PlainWithout(C)
      PROVE  Glue(Glue(a, <<c>>), b) \in PlainWithout(C)
  <2>1. a \in PlainTexts /\ b \in PlainTexts /\ a \in Text /\ b \in Text /\ NoneOf(a, C) /\ NoneOf(b, C)
    BY DEF PlainWithout, PlainTexts
  <2>2. Glue(Glue(a, <<c>>), b) \in PlainTexts
    BY <1>2, <2>1, PlainGlued DEF GluedBy
  <2>3. PICK u \in Text : u = <<c>> /\ NoneOf(u, C)
    BY <1>2, Gluing, NoneGlued
  <2>4. PICK v \in Text : v = Glue(a, u)
    BY <2>1, Gluing
  <2>5. NoneOf(v, C)
    BY <2>1, <2>3, <2>4, NoneGlued
  <2>6. NoneOf(Glue(v, b), C)
    BY <2>1, <2>5, NoneGlued
  <2> QED BY <2>2, <2>3, <2>4, <2>6 DEF PlainWithout
<1> QED BY <1>1, <1>2 DEF GluedBy

Labels(G) == {p \in Pieces(G, Dot) : p # << >>}

LEMMA LabelsAre ==
  ASSUME NEW G \in SUBSET Text
  PROVE  /\ Seq(Labels(G)) \subseteq Seq(Pieces(Text, Dot))
         /\ Seq(Labels(G)) \subseteq Seq(Labels(Text))
         /\ Seq(Labels(G)) \subseteq Texts /\ Seq(Labels(G)) \subseteq Seq(G)
<1>1. /\ Labels(G) \subseteq Pieces(Text, Dot) /\ Labels(G) \subseteq Labels(Text)
      /\ Labels(G) \subseteq Text /\ Labels(G) \subseteq G
  BY DEF Labels, Pieces
<1> QED BY <1>1, SeqMonotone DEF Texts

LEMMA FieldsIn ==
  ASSUME NEW G \in SUBSET Text, NEW ps \in Seq(Pieces(G, Dot))
  PROVE  FieldsOf(ps) \in Seq(Labels(G))
<1> DEFINE D == Pieces(G, Dot)
           A == {s \in Seq(D) : FieldsOf(s) \in Seq(Labels(G))}
<1>1. << >> \in A
  <2>1. << >> \in Seq(D) /\ << >> \in Seq(Labels(G))
    OBVIOUS
  <2> QED BY <2>1, FieldsEquation
<1>2. ASSUME NEW s \in Seq(D), NEW x \in D, s \in A PROVE Append(s, x) \in A
  <2>1. s \in Seq(Text) /\ x \in Text /\ Append(s, x) \in Seq(D)
    BY PiecesAreTexts DEF Pieces, Texts
  <2>2. FieldsOf(Append(s, x)) = IF x = << >> THEN FieldsOf(s) ELSE Append(FieldsOf(s), x)
    BY <2>1, FieldsEquation
  <2>3. PICK f \in Seq(Labels(G)) : f = FieldsOf(s)
    BY <1>2
  <2>4. x # << >> => Append(f, x) \in Seq(Labels(G))
    <3>1. x # << >> => x \in Labels(G)
      BY DEF Labels
    <3> QED BY <3>1
  <2> QED BY <2>1, <2>2, <2>3, <2>4
<1>3. ps \in A
  <2> HIDE DEF A
  <2>1. \A s \in Seq(D) : s \in A
    <3> HIDE DEF D
    <3> QED BY <1>1, <1>2, AppendInduction
  <2> QED BY <2>1
<1> QED BY <1>3

LEMMA FieldsKeep ==
  ASSUME NEW ps \in Seq(Labels(Text))
  PROVE  FieldsOf(ps) = ps
<1> DEFINE D == Labels(Text)
           A == {s \in Seq(D) : FieldsOf(s) = s}
<1>1. << >> \in A
  BY FieldsEquation
<1>2. ASSUME NEW s \in Seq(D), NEW x \in D, s \in A PROVE Append(s, x) \in A
  <2>1. s \in Seq(Text) /\ x \in Text /\ x # << >> /\ Append(s, x) \in Seq(D)
    BY LabelsAre DEF Labels, Pieces, Texts
  <2>2. FieldsOf(Append(s, x)) = Append(FieldsOf(s), x)
    BY <2>1, FieldsEquation
  <2> QED BY <1>2, <2>1, <2>2
<1>3. ps \in A
  <2> HIDE DEF A
  <2>1. \A s \in Seq(D) : s \in A
    <3> HIDE DEF D
    <3> QED BY <1>1, <1>2, AppendInduction
  <2> QED BY <2>1
<1> QED BY <1>3

Lowered(s) == [i \in DOMAIN s |-> Lower(s[i])]

LEMMA LowerIs ==
  /\ \A b \in Byte : Lower(b) \in Byte /\ Lower(Lower(b)) = Lower(b) /\ Unhex(Lower(b)) = Unhex(b)
  /\ \A b \in Byte, c \in Byte : (c \notin 65..122 /\ Lower(b) = c) => b = c
  /\ \A b \in Byte : b \notin 65..90 => Lower(b) = b
<1>1. \A b \in Byte : Lower(b) \in Byte
  BY DEF Lower, Byte
<1>2. \A b \in Byte : Lower(Lower(b)) = Lower(b)
  BY DEF Lower, Byte
<1>3. \A b \in Byte : Unhex(Lower(b)) = Unhex(b)
  BY DEF Lower, Unhex, Byte
<1>4. \A b \in Byte, c \in Byte : (c \notin 65..122 /\ Lower(b) = c) => b = c
  BY DEF Lower, Byte
<1>5. \A b \in Byte : b \notin 65..90 => Lower(b) = b
  BY DEF Lower, Byte
<1> QED BY <1>1, <1>2, <1>3, <1>4, <1>5, Zenon

LEMMA LoweredIs ==
  ASSUME NEW s \in Text
  PROVE  /\ Lowered(s) \in Text /\ Len(Lowered(s)) = Len(s)
         /\ \A i \in 1..Len(s) : Lowered(s)[i] = Lower(s[i])
<1>1. s \in Seq(Byte) /\ \A b \in Byte : Lower(b) \in Byte
  BY LowerIs DEF Text
<1>2. DOMAIN s = 1..Len(s) /\ Len(s) \in Nat
  BY <1>1
<1>3. \A i \in 1..Len(s) : Lower(s[i]) \in Byte
  BY <1>1
<1>4. Lowered(s) = [i \in 1..Len(s) |-> Lower(s[i])]
  BY <1>2 DEF Lowered
<1>5. Lowered(s) \in Seq(Byte) /\ Len(Lowered(s)) = Len(s)
  BY <1>2, <1>3, <1>4
<1> QED BY <1>4, <1>5 DEF Text

LEMMA LoweredGlued ==
  /\ Lowered(<< >>) = << >> /\ Lowered(<<Dot>>) = <<Dot>>
  /\ \A a, b \in Text : Lowered(Glue(a, b)) = Glue(Lowered(a), Lowered(b))
  /\ \A s \in Text : Lowered(Lowered(s)) = Lowered(s)
<1>1. Lowered(<< >>) = << >>
  BY DEF Lowered
<1>2. Lowered(<<Dot>>) = <<Dot>>
  <2>1. PICK u \in Text : u = <<Dot>> /\ Len(u) = 1 /\ u[1] = Dot
    BY SlashIsByte, Gluing, TextAt
  <2>2. Lower(Dot) = Dot
    BY SlashIsByte, LowerIs DEF Dot
  <2>3. Lowered(u) \in Text /\ Len(Lowered(u)) = 1 /\ \A i \in 1..1 : Lowered(u)[i] = Lower(u[i])
    BY <2>1, LoweredIs
  <2>4. \A i \in 1..1 : i = 1
    OBVIOUS
  <2>5. Lowered(u) = u
    BY <2>1, <2>2, <2>3, <2>4, TextEqual
  <2> QED BY <2>1, <2>5
<1>3. ASSUME NEW a \in Text, NEW b \in Text PROVE Lowered(Glue(a, b)) = Glue(Lowered(a), Lowered(b))
  <2>1. PICK m \in Nat, n \in Nat : m = Len(a) /\ n = Len(b)
    BY TextAt
  <2>2. PICK z \in Text : z = Glue(a, b) /\ Len(z) = m + n /\ (\A i \in 1..m : z[i] = a[i])
                          /\ \A i \in 1..n : z[m + i] = b[i]
    <3>1. /\ Glue(a, b) \in Text /\ Len(Glue(a, b)) = m + n /\ (\A i \in 1..m : Glue(a, b)[i] = a[i])
          /\ \A i \in 1..n : Glue(a, b)[m + i] = b[i]
      BY <2>1, GlueAt
    <3> QED BY <3>1
  <2>3. PICK x \in Text : x = Lowered(a) /\ Len(x) = m /\ \A i \in 1..m : x[i] = Lower(a[i])
    BY <2>1, LoweredIs
  <2>4. PICK y \in Text : y = Lowered(b) /\ Len(y) = n /\ \A i \in 1..n : y[i] = Lower(b[i])
    BY <2>1, LoweredIs
  <2>5. PICK l \in Text : l = Lowered(z) /\ Len(l) = m + n /\ \A i \in 1..m + n : l[i] = Lower(z[i])
    BY <2>2, LoweredIs
  <2>6. PICK r \in Text : r = Glue(x, y) /\ Len(r) = m + n /\ (\A i \in 1..m : r[i] = x[i])
                          /\ \A i \in 1..n : r[m + i] = y[i]
    <3>1. /\ Glue(x, y) \in Text /\ Len(Glue(x, y)) = Len(x) + Len(y)
          /\ \A i \in 1..Len(x) : Glue(x, y)[i] = x[i]
          /\ \A i \in 1..Len(y) : Glue(x, y)[Len(x) + i] = y[i]
      BY GlueAt
    <3> QED BY <2>3, <2>4, <3>1
  <2>7. \A j \in 1..m + n : l[j] = r[j]
    <3> SUFFICES ASSUME NEW j \in 1..m + n PROVE l[j] = r[j]
      OBVIOUS
    <3>1. CASE j <= m
      <4>1. j \in 1..m
        BY <3>1
      <4> QED BY <2>2, <2>3, <2>5, <2>6, <4>1
    <3>2. CASE j > m
      <4>1. PICK k \in 1..n : j = m + k
        <5>1. j - m \in 1..n /\ j = m + (j - m)
          BY <3>2
        <5> QED BY <5>1
      <4> QED BY <2>2, <2>4, <2>5, <2>6, <4>1
    <3> QED BY <3>1, <3>2
  <2>8. l = r
    BY <2>5, <2>6, <2>7, TextEqual
  <2> QED BY <2>2, <2>3, <2>4, <2>5, <2>6, <2>8
<1>4. ASSUME NEW s \in Text PROVE Lowered(Lowered(s)) = Lowered(s)
  <2>1. PICK x \in Text : x = Lowered(s) /\ Len(x) = Len(s) /\ \A i \in 1..Len(s) : x[i] = Lower(s[i])
    BY LoweredIs
  <2>2. PICK y \in Text : y = Lowered(x) /\ Len(y) = Len(x) /\ \A i \in 1..Len(x) : y[i] = Lower(x[i])
    BY LoweredIs
  <2>3. \A i \in 1..Len(y) : y[i] = x[i]
    BY <2>1, <2>2, TextAt, LowerIs
  <2>4. y = x
    BY <2>2, <2>3, TextEqual
  <2> QED BY <2>1, <2>2, <2>4
<1> QED BY <1>1, <1>2, <1>3, <1>4

\* What is not a letter is not made or unmade.
LEMMA LoweredWithout ==
  ASSUME NEW C, C \cap 65..122 \subseteq {91, 92, 93}, NEW s \in PlainWithout(C)
  PROVE  Lowered(s) \in PlainWithout(C)
<1>1. s \in Text /\ ~HasEscape(s) /\ NoneOf(s, C)
  BY DEF PlainWithout, PlainTexts
<1>2. PICK n \in Nat : n = Len(s)
  BY <1>1, TextAt
<1>3. PICK x \in Text : x = Lowered(s) /\ Len(x) = n /\ \A i \in 1..n : x[i] = Lower(s[i])
  BY <1>1, <1>2, LoweredIs
<1>4. \A i \in 1..n : s[i] \in Byte
  BY <1>1, <1>2, TextAt
<1>5. ASSUME NEW i \in 1..n, Escape(x, i) PROVE Escape(s, i)
  <2>1. i + 2 <= n /\ x[i] = Percent /\ Unhex(x[i + 1]) >= 0 /\ Unhex(x[i + 2]) >= 0
    BY <1>3, <1>5 DEF Escape
  <2>2. i + 1 \in 1..n /\ i + 2 \in 1..n
    BY <2>1
  <2>3. Unhex(s[i + 1]) = Unhex(x[i + 1]) /\ Unhex(s[i + 2]) = Unhex(x[i + 2])
    BY <1>3, <1>4, <2>2, LowerIs
  <2>4. s[i] = Percent
    <3>1. Percent \in Byte /\ Percent \notin 65..122
      BY SlashIsByte DEF Percent
    <3>2. \A b \in Byte : Lower(b) = Percent => b = Percent
      BY <3>1, LowerIs
    <3>3. s[i] \in Byte /\ Lower(s[i]) = Percent
      BY <1>3, <1>4, <2>1
    <3> QED BY <3>2, <3>3
  <2> QED BY <1>2, <2>1, <2>3, <2>4 DEF Escape
<1>6. ~HasEscape(x)
  <2>1. x \in Seq(Int) /\ s \in Seq(Int)
    BY <1>1, TextIsInts
  <2> QED BY <1>1, <1>2, <1>3, <1>5, <2>1, HasEscapeIs
<1>7. ASSUME NEW c \in C PROVE Free(x, c)
  <2> SUFFICES ASSUME NEW i \in 1..n, x[i] = c PROVE FALSE
    BY <1>3 DEF Free
  <2>1. s[i] # c
    BY <1>1, <1>2, <1>7 DEF NoneOf, Free
  <2>2. s[i] \in Byte /\ c = Lower(s[i])
    BY <1>3, <1>4
  <2>3. c \notin 65..122 \/ c \in {91, 92, 93}
    OBVIOUS
  <2>4. \A b \in 0..255 : Lower(b) # b => Lower(b) \in 97..122
    BY DEF Lower
  <2> QED BY SMTT(30), <2>1, <2>2, <2>3, <2>4 DEF Byte
<1>8. NoneOf(x, C)
  BY <1>7 DEF NoneOf
<1> QED BY <1>3, <1>6, <1>8 DEF PlainWithout, PlainTexts

LEMMA LoweredPrefixed ==
  ASSUME NEW ps \in Seq(Labels(Text))
  PROVE  \E qs \in Seq(Labels(Text)) :
           Len(qs) = Len(ps) /\ Lowered(Prefixed(ps, Dot)) = Prefixed(qs, Dot)
<1> DEFINE D == Labels(Text)
           A == {s \in Seq(D) : \E qs \in Seq(D) :
                   Len(qs) = Len(s) /\ Lowered(Prefixed(s, Dot)) = Prefixed(qs, Dot)}
<1>1. << >> \in A
  <2>1. << >> \in Seq(D)
    OBVIOUS
  <2>2. Lowered(Prefixed(<< >>, Dot)) = Prefixed(<< >>, Dot)
    BY PrefixedOn, LoweredGlued, SlashIsByte
  <2> QED BY <2>1, <2>2
<1>2. ASSUME NEW s \in Seq(D), NEW x \in D, s \in A PROVE Append(s, x) \in A
  <2>1. s \in Texts /\ x \in Text /\ Free(x, Dot) /\ x # << >>
    BY LabelsAre DEF Labels, Pieces
  <2>2. PICK qs \in Seq(D) : Len(qs) = Len(s) /\ Lowered(Prefixed(s, Dot)) = Prefixed(qs, Dot)
    BY <1>2
  <2>3. qs \in Texts
    BY LabelsAre
  <2>4. PICK y \in Text : /\ y = Lowered(x) /\ Len(y) = Len(x)
                          /\ \A i \in 1..Len(x) : y[i] = Lower(x[i])
    BY <2>1, LoweredIs
  <2>5. y \in D
    <3>1. Free(y, Dot)
      <4>1. \A b \in Byte : Lower(b) = Dot => b = Dot
        <5>1. Dot \notin 65..122 /\ Dot \in Byte
          BY SlashIsByte DEF Dot
        <5> QED BY <5>1, LowerIs
      <4>2. \A i \in 1..Len(x) : x[i] \in Byte /\ x[i] # Dot
        BY <2>1, TextAt DEF Free
      <4> QED BY <2>4, <4>1, <4>2 DEF Free
    <3>2. y # << >>
      BY <2>1, <2>4 DEF Text
    <3> QED BY <3>1, <3>2 DEF Labels, Pieces
  <2>6. PICK u \in Text, p \in Text, q \in Text :
          u = <<Dot>> /\ p = Prefixed(s, Dot) /\ q = Prefixed(qs, Dot) /\ Lowered(u) = u /\ Lowered(p) = q
    <3>1. <<Dot>> \in Text /\ Lowered(<<Dot>>) = <<Dot>>
      BY SlashIsByte, Gluing, LoweredGlued
    <3>2. Prefixed(s, Dot) \in Text /\ Prefixed(qs, Dot) \in Text
      BY <2>1, <2>3, PrefixedOn, SlashIsByte
    <3> QED BY <2>2, <3>1, <3>2
  <2>7. Prefixed(Append(s, x), Dot) = Glue(Glue(p, u), x)
    <3>1. Prefixed(Append(s, x), Dot) = (Prefixed(s, Dot) \o <<Dot>>) \o x
      BY <2>1, PrefixedOn, SlashIsByte
    <3> QED BY <2>6, <3>1, Zenon DEF Glue
  <2>8. Prefixed(Append(qs, y), Dot) = Glue(Glue(q, u), y)
    <3>1. Prefixed(Append(qs, y), Dot) = (Prefixed(qs, Dot) \o <<Dot>>) \o y
      BY <2>3, PrefixedOn, SlashIsByte
    <3> QED BY <2>6, <3>1, Zenon DEF Glue
  <2>9. Lowered(Glue(Glue(p, u), x)) = Glue(Glue(q, u), y)
    <3>1. Lowered(Glue(p, u)) = Glue(q, u) /\ Glue(p, u) \in Text
      <4>1. Lowered(Glue(p, u)) = Glue(Lowered(p), Lowered(u)) /\ Glue(p, u) \in Text
        BY LoweredGlued, Gluing
      <4>2. Lowered(p) = q /\ Lowered(u) = u
        BY <2>6
      <4> QED BY <4>1, <4>2
    <3> QED BY <2>1, <2>4, <3>1, LoweredGlued
  <2> HIDE DEF D
  <2>10. /\ Append(s, x) \in Seq(D) /\ Append(qs, y) \in Seq(D)
         /\ Len(Append(s, x)) = Len(s) + 1 /\ Len(Append(qs, y)) = Len(qs) + 1
    BY <2>5
  <2> QED BY <2>2, <2>7, <2>8, <2>9, <2>10
<1>3. ps \in A
  <2> HIDE DEF A
  <2>1. \A s \in Seq(D) : s \in A
    <3> HIDE DEF D
    <3> QED BY <1>1, <1>2, AppendInduction
  <2> QED BY <2>1
<1> QED BY <1>3

LEMMA LoweredJoin ==
  ASSUME NEW ps \in Seq(Labels(Text)), ps # << >>
  PROVE  \E qs \in Seq(Labels(Text)) : qs # << >> /\ Lowered(Join(ps, Dot)) = Join(qs, Dot)
<1>1. PICK qs \in Seq(Labels(Text)) :
        Len(qs) = Len(ps) /\ Lowered(Prefixed(ps, Dot)) = Prefixed(qs, Dot)
  BY LoweredPrefixed
<1>2. qs # << >>
  <2>1. Len(ps) # 0
    OBVIOUS
  <2> QED BY <1>1, <2>1
<1>3. ps \in Seq(Pieces(Text, Dot)) /\ qs \in Seq(Pieces(Text, Dot)) /\ Dot \in Byte
  BY LabelsAre, SlashIsByte
<1>4. PICK j \in Text, k \in Text, u \in Text :
        /\ j = Join(ps, Dot) /\ k = Join(qs, Dot) /\ u = <<Dot>>
        /\ Prefixed(ps, Dot) = Glue(u, j) /\ Prefixed(qs, Dot) = Glue(u, k)
  <2>1. Join(ps, Dot) \in Text /\ Prefixed(ps, Dot) = <<Dot>> \o Join(ps, Dot)
    BY <1>3, JoinSplit
  <2>2. Join(qs, Dot) \in Text /\ Prefixed(qs, Dot) = <<Dot>> \o Join(qs, Dot)
    BY <1>2, <1>3, JoinSplit
  <2>3. <<Dot>> \in Text
    BY <1>3, Gluing
  <2> QED BY <2>1, <2>2, <2>3, Zenon DEF Glue
<1>5. PICK l \in Text : l = Lowered(j)
  BY LoweredIs
<1>6. Lowered(Glue(u, j)) = Glue(u, l)
  BY <1>4, <1>5, LoweredGlued
<1>7. Glue(u, l) = Glue(u, k)
  BY <1>1, <1>4, <1>6
<1>8. Tail(<<Dot>> \o l) = l /\ Tail(<<Dot>> \o k) = k
  BY <1>3, TailConcat DEF Text
<1>9. l = k
  <2>1. <<Dot>> \o l = <<Dot>> \o k
    BY <1>4, <1>7, Zenon DEF Glue
  <2> QED BY <1>8, <2>1, Zenon
<1> QED BY <1>2, <1>4, <1>5, <1>9

----
(* Numbers in a host. *)

\* The number that digits make.
ValueOf(digits, base) == Folded(LAMBDA n, d : base * n + Unhex(d), 0, digits)
DigitStep(base) == [p \in Int \X Byte |-> base * p[1] + Unhex(p[2])]

LEMMA ValueIs ==
  ASSUME NEW base \in Nat, NEW s \in Seq(Byte)
  PROVE  Steps(DigitStep(base), Int, Byte) /\ ValueOf(s, base) = FoldBy(DigitStep(base), 0, s)
<1> DEFINE S == Int
           T == Byte
           op == DigitStep(base)
           start == 0
           Body(x, y) == base * x + Unhex(y)
           n == Len(s)
           P(g) == g = [k \in 0..n |-> IF k = 0 THEN start ELSE Body(g[k - 1], s[k])]
           g == CHOOSE h : P(h)
<1>1. n \in Nat /\ \A k \in 1..n : s[k] \in T
  OBVIOUS
<1>2. start \in S /\ \A x \in S, y \in T : Body(x, y) \in S
  <2>1. \A y \in Byte : Unhex(y) \in Int
    BY UnhexIsInt DEF Byte
  <2> QED BY <2>1
<1>3. op = [p \in S \X T |-> op[p]] /\ \A x \in S, y \in T : op[<<x, y>>] = Body(x, y)
  BY DEF DigitStep
<1>4. ValueOf(s, base) = g[n]
  BY DEF ValueOf, Folded
<1> HIDE DEF Body, g, op, S, T, start, n
<1>5. Steps(op, S, T)
  <2>1. ASSUME NEW p \in S \X T PROVE op[p] \in S
    <3>1. PICK x \in S, y \in T : p = <<x, y>>
      OBVIOUS
    <3> QED BY <1>2, <1>3, <3>1
  <2> QED BY <1>3, <2>1 DEF Steps
<1>6. PICK f \in [0..n -> S] : FoldSteps(f, op, start, s) /\ FoldBy(op, start, s) = f[n]
  BY <1>2, <1>5, FoldIs DEF n, T
<1>7. P(f)
  <2>1. f[0] = start
    BY <1>6 DEF FoldSteps
  <2>2. ASSUME NEW k \in 1..n PROVE f[k] = Body(f[k - 1], s[k])
    <3>1. f[k - 1] \in S /\ s[k] \in T
      BY <1>1
    <3>2. f[k] = op[<<f[k - 1], s[k]>>]
      BY <1>6 DEF FoldSteps, n
    <3> QED BY <1>3, <3>1, <3>2
  <2>3. f = [k \in 0..n |-> IF k = 0 THEN start ELSE Body(f[k - 1], s[k])]
    BY <1>1, <2>1, <2>2
  <2> QED BY <2>3
<1>8. P(g)
  BY <1>7 DEF g
<1>9. WhileIn(g, op, start, s, S)
  <2>1. g[0] = start /\ \A k \in 1..n : g[k] = Body(g[k - 1], s[k])
    BY <1>1, <1>8
  <2> QED BY <1>1, <1>3, <2>1 DEF WhileIn, n
<1>10. \A k \in 0..n : g[k] = f[k]
  BY <1>2, <1>5, <1>6, <1>9, FoldAgrees DEF n, T
<1>11. ValueOf(s, base) = FoldBy(op, start, s)
  BY <1>1, <1>4, <1>6, <1>10
<1> QED BY <1>5, <1>11 DEF op, S, T, start

LEMMA ValueEquation ==
  ASSUME NEW base \in Nat
  PROVE  /\ ValueOf(<< >>, base) = 0
         /\ \A s \in Seq(Byte) : ValueOf(s, base) \in Int
         /\ \A s \in Seq(Byte), x \in Byte : ValueOf(Append(s, x), base) = base * ValueOf(s, base) + Unhex(x)
<1> DEFINE S == Int
           T == Byte
           op == DigitStep(base)
           start == 0
           X(z) == ValueOf(z, base)
<1>1. << >> \in Seq(T) /\ \A s \in Seq(T), x \in T : Append(s, x) \in Seq(T)
  OBVIOUS
<1>2. start \in S
  OBVIOUS
<1>3. \A x \in S, y \in T : op[<<x, y>>] = base * x + Unhex(y)
  BY DEF DigitStep
<1>4. \A s \in Seq(T) : Steps(op, S, T) /\ X(s) = FoldBy(op, start, s)
  BY ValueIs
<1> HIDE DEF S, T, op, start, X
<1>5. Steps(op, S, T)
  BY <1>1, <1>4
<1>6. /\ FoldBy(op, start, << >>) = start
      /\ \A s \in Seq(T) : FoldBy(op, start, s) \in S
      /\ \A s \in Seq(T), x \in T : FoldBy(op, start, Append(s, x)) = op[<<FoldBy(op, start, s), x>>]
  BY <1>2, <1>5, FoldEquation
<1>7. X(<< >>) = start /\ \A s \in Seq(T) : X(s) \in S
  BY <1>1, <1>4, <1>6
<1>8. ASSUME NEW s \in Seq(T), NEW x \in T PROVE X(Append(s, x)) = base * X(s) + Unhex(x)
  <2>1. X(Append(s, x)) = op[<<X(s), x>>]
    BY <1>1, <1>4, <1>6
  <2> QED BY <1>3, <1>7, <2>1
<1> QED BY <1>7, <1>8 DEF S, T, start, X

LEMMA NumberIs ==
  ASSUME NEW part \in Text
  PROVE  /\ Number(part) \in Int
         /\ (Len(part) = 1 \/ part[1] # 48) => Number(part) = ParsedUint(part, 10)
<1>1. ASSUME NEW s \in Text, NEW base \in {8, 10, 16} PROVE ParsedUint(s, base) \in Int
  <2>1. ValueOf(s, base) \in Int
    BY ValueEquation DEF Text
  <2>2. ParsedUint(s, base) = 0 - 1 \/ ParsedUint(s, base) = ValueOf(s, base)
    BY DEF ParsedUint, ValueOf
  <2> QED BY <2>1, <2>2
<1>2. Len(part) \in Nat
  BY TextAt
<1>3. ASSUME Len(part) > 1 PROVE After(part, 2) \in Text /\ Tail(part) \in Text
  <2>1. 2 \in 1..Len(part)
    BY <1>2, <1>3
  <2>2. part # << >> /\ part \in Seq(Byte)
    BY <1>3 DEF Text
  <2>3. Tail(part) \in Seq(Byte)
    BY <2>2, HeadTailProperties
  <2>4. After(part, 2) \in Text
    BY <2>1, AroundGlued
  <2> QED BY <2>3, <2>4 DEF Text
<1>4. Number(part) \in Int
  BY <1>1, <1>2, <1>3 DEF Number
<1>5. (Len(part) = 1 \/ part[1] # 48) => Number(part) = ParsedUint(part, 10)
  BY <1>2 DEF Number
<1> QED BY <1>4, <1>5

LEMMA UnhexDigit ==
  ASSUME NEW b \in 48..57
  PROVE  Unhex(b) = b - 48 /\ Unhex(b) \in 0..9
<1>1. Unhex(b) = b - 48
  BY DEF Unhex
<1> QED BY <1>1

LEMMA DigitsParsed ==
  ASSUME NEW s \in Text, s # << >>, \A i \in 1..Len(s) : s[i] \in 48..57
  PROVE  ParsedUint(s, 10) = ValueOf(s, 10)
<1>1. DOMAIN s = 1..Len(s)
  BY DEF Text
<1>2. \A b \in 48..57 : Unhex(b) \in 0..10 - 1
  BY UnhexDigit
<1>3. ~\E i \in DOMAIN s : Unhex(s[i]) \notin 0..10 - 1
  BY <1>1, <1>2
<1> QED BY <1>3 DEF ParsedUint, ValueOf

\* Text of up to three digits.
LEMMA DigitTexts ==
  ASSUME NEW x \in 48..57, NEW y \in 48..57, NEW z \in 48..57
  PROVE  /\ <<z>> \in Text /\ ValueOf(<<z>>, 10) = z - 48
         /\ <<y, z>> \in Text /\ ValueOf(<<y, z>>, 10) = 10 * (y - 48) + (z - 48)
         /\ <<x, y, z>> \in Text
         /\ ValueOf(<<x, y, z>>, 10) = 10 * (10 * (x - 48) + (y - 48)) + (z - 48)
<1>1. /\ ValueOf(<< >>, 10) = 0
      /\ \A s \in Text, b \in Byte : ValueOf(Append(s, b), 10) = 10 * ValueOf(s, 10) + Unhex(b)
  BY ValueEquation DEF Text
<1>2. x \in Byte /\ y \in Byte /\ z \in Byte
  BY DEF Byte
<1>3. Unhex(x) = x - 48 /\ Unhex(y) = y - 48 /\ Unhex(z) = z - 48
  BY DEF Unhex
<1>4. /\ Append(<< >>, x) = <<x>> /\ Append(<< >>, y) = <<y>> /\ Append(<< >>, z) = <<z>>
      /\ Append(<<x>>, y) = <<x, y>> /\ Append(<<y>>, z) = <<y, z>> /\ Append(<<x, y>>, z) = <<x, y, z>>
  <2>1. Append(<< >>, x) = <<x>> /\ Append(<< >>, y) = <<y>> /\ Append(<< >>, z) = <<z>>
    OBVIOUS
  <2>2. \A s \in Text, b \in Byte : Append(s, b) = Glue(s, <<b>>)
    BY TextConcat, Zenon DEF Glue
  <2>3. <<x>> \in Text /\ <<y>> \in Text /\ Glue(<<x>>, <<y>>) \in Text
    BY <1>2, Gluing
  <2>4. Glue(<<x>>, <<y>>) = <<x, y>> /\ Glue(<<y>>, <<z>>) = <<y, z>> /\ Glue(Glue(<<x>>, <<y>>), <<z>>) = <<x, y, z>>
    BY TupleOfTwo, TupleOfThree
  <2>5. Append(<<x>>, y) = <<x, y>> /\ Append(<<y>>, z) = <<y, z>>
    BY <1>2, <2>2, <2>3, <2>4, Zenon
  <2>6. Append(Glue(<<x>>, <<y>>), z) = <<x, y, z>>
    BY <1>2, <2>2, <2>3, <2>4, Zenon
  <2>7. Append(<<x, y>>, z) = <<x, y, z>>
    BY <2>4, <2>6, Zenon
  <2> QED BY <2>1, <2>5, <2>7, Zenon
<1>5. /\ << >> \in Text /\ <<x>> \in Text /\ <<y>> \in Text /\ <<z>> \in Text
      /\ <<x, y>> \in Text /\ <<y, z>> \in Text /\ <<x, y, z>> \in Text
  BY <1>2 DEF Text
<1>6. ValueOf(<<x>>, 10) = x - 48 /\ ValueOf(<<y>>, 10) = y - 48 /\ ValueOf(<<z>>, 10) = z - 48
  <2>1. \A b \in Byte : ValueOf(Append(<< >>, b), 10) = 10 * ValueOf(<< >>, 10) + Unhex(b)
    BY <1>1, <1>5
  <2>2. \A b \in Byte : ValueOf(Append(<< >>, b), 10) = Unhex(b)
    <3> SUFFICES ASSUME NEW b \in Byte PROVE ValueOf(Append(<< >>, b), 10) = Unhex(b)
      OBVIOUS
    <3>1. Unhex(b) \in Int
      BY UnhexIsInt DEF Byte
    <3>2. ValueOf(Append(<< >>, b), 10) = 10 * 0 + Unhex(b)
      BY <1>1, <2>1
    <3> QED BY <3>1, <3>2
  <2>3. /\ ValueOf(Append(<< >>, x), 10) = Unhex(x) /\ ValueOf(Append(<< >>, y), 10) = Unhex(y)
        /\ ValueOf(Append(<< >>, z), 10) = Unhex(z)
    BY <1>2, <2>2
  <2> QED BY <1>3, <1>4, <2>3, Zenon
<1>7. /\ ValueOf(<<x, y>>, 10) = 10 * (x - 48) + (y - 48)
      /\ ValueOf(<<y, z>>, 10) = 10 * (y - 48) + (z - 48)
  <2>1. /\ ValueOf(Append(<<x>>, y), 10) = 10 * ValueOf(<<x>>, 10) + Unhex(y)
        /\ ValueOf(Append(<<y>>, z), 10) = 10 * ValueOf(<<y>>, 10) + Unhex(z)
    BY <1>1, <1>2, <1>5
  <2> QED BY <1>3, <1>4, <1>6, <2>1
<1>8. ValueOf(<<x, y, z>>, 10) = 10 * (10 * (x - 48) + (y - 48)) + (z - 48)
  <2>1. ValueOf(Append(<<x, y>>, z), 10) = 10 * ValueOf(<<x, y>>, 10) + Unhex(z)
    BY <1>1, <1>2, <1>5
  <2> QED BY <1>3, <1>4, <1>7, <2>1
<1> QED BY <1>5, <1>6, <1>7, <1>8

\* A byte in decimal is read as what it is.
LEMMA DecimalIs ==
  ASSUME NEW n \in 0..255
  PROVE  /\ Decimal(n) \in Text /\ Decimal(n) # << >>
         /\ \A i \in 1..Len(Decimal(n)) : Decimal(n)[i] \in 48..57
         /\ Number(Decimal(n)) = n
<1> DEFINE x == 48 + n \div 100
           y == 48 + ((n \div 10) % 10)
           z == 48 + (n % 10)
<1>1. x \in 48..57 /\ y \in 48..57 /\ z \in 48..57
  OBVIOUS
<1>2. /\ n >= 100 => Decimal(n) = <<x, y, z>>
      /\ (n < 100 /\ n >= 10) => Decimal(n) = <<y, z>>
      /\ n < 10 => Decimal(n) = <<z>>
  <2>1. n >= 100 => n >= 10
    OBVIOUS
  <2> HIDE DEF x, y, z
  <2>2. /\ (<<x>> \o <<y>>) \o <<z>> = <<x, y, z>>
        /\ (<< >> \o <<y>>) \o <<z>> = <<y, z>>
        /\ (<< >> \o << >>) \o <<z>> = <<z>>
    <3>1. /\ Glue(Glue(<<x>>, <<y>>), <<z>>) = <<x, y, z>> /\ Glue(<<y>>, <<z>>) = <<y, z>>
      BY <1>1, TupleOfTwo, TupleOfThree
    <3>2. << >> \o <<y>> = <<y>> /\ << >> \o <<z>> = <<z>> /\ << >> \o << >> = << >>
      BY <1>1
    <3> QED BY <3>1, <3>2, Zenon DEF Glue
  <2>3. /\ n >= 100 => Decimal(n) = (<<x>> \o <<y>>) \o <<z>>
        /\ (n < 100 /\ n >= 10) => Decimal(n) = (<< >> \o <<y>>) \o <<z>>
        /\ n < 10 => Decimal(n) = (<< >> \o << >>) \o <<z>>
    <3>1. n < 100 => ~(n >= 100)
      OBVIOUS
    <3>2. n < 10 => ~(n >= 100) /\ ~(n >= 10)
      OBVIOUS
    <3> QED BY <2>1, <3>1, <3>2, Zenon DEF Decimal, x, y, z
  <2> QED BY <2>2, <2>3
<1>3. /\ n >= 100 => 10 * (10 * (x - 48) + (y - 48)) + (z - 48) = n /\ x # 48
      /\ (n < 100 /\ n >= 10) => 10 * (y - 48) + (z - 48) = n /\ y # 48
      /\ n < 10 => z - 48 = n
  OBVIOUS
<1> HIDE DEF x, y, z
<1>4. /\ <<z>> \in Text /\ ValueOf(<<z>>, 10) = z - 48
      /\ <<y, z>> \in Text /\ ValueOf(<<y, z>>, 10) = 10 * (y - 48) + (z - 48)
      /\ <<x, y, z>> \in Text
      /\ ValueOf(<<x, y, z>>, 10) = 10 * (10 * (x - 48) + (y - 48)) + (z - 48)
  BY ZenonT(60), <1>1, DigitTexts
<1>5. PICK s \in Text : /\ s = Decimal(n) /\ s # << >> /\ \A i \in 1..Len(s) : s[i] \in 48..57
                        /\ Len(s) = 1 \/ s[1] # 48
                        /\ ValueOf(s, 10) = n
  <2>1. CASE n >= 100
    <3>1. Decimal(n) = <<x, y, z>> /\ x # 48 /\ ValueOf(<<x, y, z>>, 10) = n
      BY <1>2, <1>3, <1>4, <2>1
    <3>2. <<x, y, z>>[1] = x /\ <<x, y, z>> # << >> /\ \A i \in 1..Len(<<x, y, z>>) : <<x, y, z>>[i] \in 48..57
      BY <1>1
    <3> QED BY <1>4, <3>1, <3>2
  <2>2. CASE n < 100 /\ n >= 10
    <3>1. Decimal(n) = <<y, z>> /\ y # 48 /\ ValueOf(<<y, z>>, 10) = n
      BY <1>2, <1>3, <1>4, <2>2
    <3>2. <<y, z>>[1] = y /\ <<y, z>> # << >> /\ \A i \in 1..Len(<<y, z>>) : <<y, z>>[i] \in 48..57
      BY <1>1
    <3> QED BY <1>4, <3>1, <3>2
  <2>3. CASE n < 10
    <3>1. Decimal(n) = <<z>> /\ ValueOf(<<z>>, 10) = n
      BY <1>2, <1>3, <1>4, <2>3
    <3>2. Len(<<z>>) = 1 /\ <<z>> # << >> /\ \A i \in 1..Len(<<z>>) : <<z>>[i] \in 48..57
      BY <1>1
    <3> QED BY <1>4, <3>1, <3>2
  <2> QED BY <2>1, <2>2, <2>3
<1>6. Number(s) = n
  BY <1>5, NumberIs, DigitsParsed
<1> QED BY <1>5, <1>6

\* The parts of an address that a host spells.
Dotted(d) == [i \in 1..4 |-> Decimal(d[i])]

LEMMA DottedIs ==
  ASSUME NEW d \in [1..4 -> 0..255]
  PROVE  /\ Dotted(d) \in Seq(Labels(Text)) /\ Dotted(d) # << >> /\ Len(Dotted(d)) = 4
         /\ \A i \in 1..4 : Dotted(d)[i] = Decimal(d[i])
         /\ Join(Dotted(d), Dot) \in Text /\ Split(Join(Dotted(d), Dot), Dot) = Dotted(d)
<1>1. ASSUME NEW i \in 1..4 PROVE Decimal(d[i]) \in Labels(Text)
  <2>1. /\ Decimal(d[i]) \in Text /\ Decimal(d[i]) # << >>
        /\ \A k \in 1..Len(Decimal(d[i])) : Decimal(d[i])[k] \in 48..57
    BY ZenonT(60), DecimalIs
  <2>2. \A b \in 48..57 : b # Dot
    BY DEF Dot
  <2>3. Free(Decimal(d[i]), Dot)
    BY <2>1, <2>2 DEF Free
  <2> QED BY <2>1, <2>3 DEF Labels, Pieces
<1>2. /\ Dotted(d) \in Seq(Labels(Text)) /\ Len(Dotted(d)) = 4
      /\ \A i \in 1..4 : Dotted(d)[i] = Decimal(d[i])
  <2> DEFINE L == Labels(Text)
             q == [i \in 1..4 |-> Decimal(d[i])]
  <2>1. \A i \in 1..4 : Decimal(d[i]) \in L
    BY <1>1
  <2> HIDE DEF L
  <2>2. q \in [1..4 -> L]
    BY <2>1
  <2>3. q \in Seq(L) /\ Len(q) = 4 /\ \A i \in 1..4 : q[i] = Decimal(d[i])
    BY <2>2
  <2> QED BY <2>3 DEF L, Dotted
<1>a. PICK ps \in Seq(Labels(Text)) : ps = Dotted(d) /\ Len(ps) = 4 /\ \A i \in 1..4 : ps[i] = Decimal(d[i])
  BY <1>2, Zenon
<1>3. ps # << >> /\ ps \in Seq(Pieces(Text, Dot))
  BY SMTT(30), <1>a, LabelsAre
<1>4. Join(ps, Dot) \in Text /\ Split(Join(ps, Dot), Dot) = ps
  BY <1>3, SlashIsByte, JoinSplit
<1> QED BY <1>a, <1>3, <1>4, Zenon

LEMMA IPv4Is ==
  ASSUME NEW host \in Text
  PROVE  IPv4(host) = host \/ \E d \in [1..4 -> 0..255] : IPv4(host) = Join(Dotted(d), Dot)
<1> DEFINE parts == Split(host, Dot)
           n == Len(parts)
           value == [i \in 1..n |-> Number(parts[i])]
           rest == [k \in 0..4 - n |-> value[n] \div Power2(8 * (4 - n - k))]
           bad == n > 4 \/ (\E i \in 1..n : value[i] < 0) \/ (\E i \in 1..n - 1 : value[i] >= 256) \/ rest[0] >= 256
           d == [i \in 1..4 |-> IF i < n THEN value[i] ELSE rest[i - n] % 256]
<1>1. IPv4(host) = IF bad THEN host
                   ELSE Join([i \in 1..4 |-> Decimal(IF i < n THEN value[i] ELSE rest[i - n] % 256)], Dot)
  BY DEF IPv4
<1>2. parts \in Texts /\ n \in Nat /\ n >= 1
  <2>1. parts \in Texts /\ n >= 1
    BY SlashIsByte, SplitIs
  <2>2. n \in Nat
    <3>1. parts \in Seq(Text)
      BY <2>1 DEF Texts
    <3> HIDE DEF parts
    <3> QED BY <3>1
  <2> QED BY <2>1, <2>2
<1> HIDE DEF parts, n
<1>3. \A i \in 1..n : value[i] \in Int
  <2>1. \A i \in 1..n : parts[i] \in Text
    BY <1>2 DEF Texts, n
  <2> QED BY <2>1, NumberIs
<1> HIDE DEF value
<1>4. CASE bad
  BY <1>1, <1>4
<1>5. CASE ~bad
  <2>1. n \in 1..4 /\ (\A i \in 1..n : ~(value[i] < 0)) /\ (\A i \in 1..n - 1 : ~(value[i] >= 256))
    BY <1>2, <1>5
  <2>2. \A k \in 0..4 - n : rest[k] \in Int
    <3> SUFFICES ASSUME NEW k \in 0..4 - n PROVE rest[k] \in Int
      OBVIOUS
    <3>1. 8 * (4 - n - k) \in Nat /\ n \in 1..n
      BY <2>1
    <3>2. PICK p \in Nat \ {0} : p = Power2(8 * (4 - n - k))
      BY <3>1, Power2Def
    <3>3. PICK v \in Int : v = value[n]
      BY <1>3, <3>1
    <3>4. rest[k] = v \div p
      BY <3>2, <3>3
    <3>5. v \div p \in Int
      OBVIOUS
    <3> QED BY <3>4, <3>5
  <2> HIDE DEF rest, bad
  <2>3. ASSUME NEW i \in 1..4 PROVE (IF i < n THEN value[i] ELSE rest[i - n] % 256) \in 0..255
    <3>1. CASE i < n
      <4>1. i \in 1..n /\ i \in 1..n - 1
        BY <2>1, <3>1
      <4>2. value[i] \in Int /\ ~(value[i] < 0) /\ ~(value[i] >= 256)
        BY <1>3, <2>1, <4>1
      <4> QED BY <3>1, <4>2
    <3>2. CASE ~(i < n)
      <4>1. i - n \in 0..4 - n
        BY <2>1, <3>2
      <4>2. PICK r \in Int : r = rest[i - n]
        BY <2>2, <4>1
      <4>3. r % 256 \in 0..255
        OBVIOUS
      <4> QED BY <3>2, <4>2, <4>3
    <3> QED BY <3>1, <3>2
  <2>4. d \in [1..4 -> 0..255]
    BY <2>3
  <2>5. [i \in 1..4 |-> Decimal(IF i < n THEN value[i] ELSE rest[i - n] % 256)] = Dotted(d)
    BY DEF Dotted
  <2>6. IPv4(host) = Join(Dotted(d), Dot)
    <3> HIDE DEF d
    <3> QED BY <1>1, <1>5, <2>5
  <2> HIDE DEF d
  <2> QED BY <2>4, <2>6
<1> QED BY <1>4, <1>5

\* An address in its own form is left alone.
LEMMA IPv4Of ==
  ASSUME NEW d \in [1..4 -> 0..255]
  PROVE  IPv4(Join(Dotted(d), Dot)) = Join(Dotted(d), Dot)
<1>1. PICK h \in Text, ps \in Seq(Labels(Text)) :
        /\ ps = Dotted(d) /\ h = Join(ps, Dot) /\ Split(h, Dot) = ps /\ Len(ps) = 4
        /\ \A i \in 1..4 : ps[i] = Decimal(d[i])
  BY DottedIs
<1> DEFINE value == [i \in 1..4 |-> Number(ps[i])]
           rest == [k \in 0..4 - 4 |-> value[4] \div Power2(8 * (4 - 4 - k))]
           bad == 4 > 4 \/ (\E i \in 1..4 : value[i] < 0) \/ (\E i \in 1..4 - 1 : value[i] >= 256) \/ rest[0] >= 256
<1>2. IPv4(h) = IF bad THEN h
                ELSE Join([i \in 1..4 |-> Decimal(IF i < 4 THEN value[i] ELSE rest[i - 4] % 256)], Dot)
  BY <1>1 DEF IPv4
<1>3. \A i \in 1..4 : value[i] = d[i]
  <2> SUFFICES ASSUME NEW i \in 1..4 PROVE Number(ps[i]) = d[i]
    OBVIOUS
  <2>1. ps[i] = Decimal(d[i]) /\ d[i] \in 0..255
    BY <1>1
  <2> QED BY <2>1, DecimalIs
<1>4. rest[0] = d[4]
  <2>1. 8 * (4 - 4 - 0) = 0 /\ 0 \in 0..4 - 4 /\ Power2(0) = 1
    BY Power2Def
  <2>2. rest[0] = value[4] \div Power2(8 * (4 - 4 - 0))
    <3> HIDE DEF value
    <3> QED BY <2>1
  <2>3. value[4] = d[4] /\ d[4] \in 0..255
    BY <1>3
  <2>4. \A v \in 0..255 : v \div 1 = v
    OBVIOUS
  <2> HIDE DEF value, rest
  <2>5. rest[0] = d[4] \div 1
    BY <2>1, <2>2, <2>3, Zenon
  <2> QED BY <2>3, <2>4, <2>5, Zenon
<1> HIDE DEF value, rest
<1>5. ~bad
  <2>1. \A i \in 1..4 : value[i] \in 0..255
    BY <1>3
  <2>2. rest[0] \in 0..255
    BY <1>4
  <2>3. ~(4 > 4)
    OBVIOUS
  <2>a. \A v \in 0..255 : ~(v < 0) /\ ~(v >= 256)
    OBVIOUS
  <2>4. \A i \in 1..4 : ~(value[i] < 0)
    BY <2>1, <2>a, Zenon
  <2>5. \A i \in 1..4 - 1 : ~(value[i] >= 256)
    <3> SUFFICES ASSUME NEW i \in 1..4 - 1 PROVE ~(value[i] >= 256)
      OBVIOUS
    <3>1. i \in 1..4
      OBVIOUS
    <3> QED BY <2>1, <2>a, <3>1, Zenon
  <2>6. ~(rest[0] >= 256)
    BY <2>2, <2>a, Zenon
  <2> QED BY <2>3, <2>4, <2>5, <2>6, Zenon
<1>6. \A i \in 1..4 : (IF i < 4 THEN value[i] ELSE rest[i - 4] % 256) = d[i]
  <2> SUFFICES ASSUME NEW i \in 1..4 PROVE (IF i < 4 THEN value[i] ELSE rest[i - 4] % 256) = d[i]
    OBVIOUS
  <2>1. CASE i < 4
    BY <1>3, <2>1
  <2>2. CASE ~(i < 4)
    <3>1. i = 4 /\ i - 4 = 0
      BY <2>2
    <3>2. \A v \in 0..255 : v % 256 = v
      OBVIOUS
    <3>3. rest[i - 4] = d[i] /\ d[i] \in 0..255
      BY <1>4, <3>1
    <3> QED BY <2>2, <3>2, <3>3
  <2> QED BY <2>1, <2>2
<1>7. [i \in 1..4 |-> Decimal(IF i < 4 THEN value[i] ELSE rest[i - 4] % 256)] = ps
  <2>1. [i \in 1..4 |-> Decimal(IF i < 4 THEN value[i] ELSE rest[i - 4] % 256)] = Dotted(d)
    BY <1>6 DEF Dotted
  <2> QED BY <1>1, <2>1
<1> HIDE DEF bad
<1>8. IPv4(h) = Join(ps, Dot)
  BY <1>2, <1>5, <1>7
<1> QED BY <1>1, <1>8

----
(* A host in its canonical form. *)

\* What a host that is taken from a URL does not hold, and what its canonical form does not.
HostRefused == {Colon, 91, 92, 93} \cup 128..255
HostSyntax == {Slash, Question, At}
NotInHost == HostSyntax \cup HostRefused

LEMMA HostIs ==
  ASSUME NEW host \in Text
  PROVE  CanonicalHost(host) =
           IF FieldsOf(Split(host, Dot)) = << >> \/ ~NoneOf(host, HostRefused) THEN << >>
           ELSE IPv4(Lowered(Join(FieldsOf(Split(host, Dot)), Dot)))
<1> DEFINE labels == Fields(host, Dot)
           bad == \E i \in DOMAIN host : host[i] \in {Colon, 91, 92, 93} \/ host[i] >= 128
           name == Join(labels, Dot)
<1>1. labels = FieldsOf(Split(host, Dot))
  BY DEF Fields, FieldsOf
<1>2. bad <=> ~NoneOf(host, HostRefused)
  <2>1. DOMAIN host = 1..Len(host)
    BY DEF Text
  <2>2. \A b \in Byte : b >= 128 <=> b \in 128..255
    BY DEF Byte
  <2>3. \A i \in 1..Len(host) : host[i] \in Byte
    BY TextAt
  <2>4. \A i \in 1..Len(host) :
          (host[i] \in {Colon, 91, 92, 93} \/ host[i] >= 128) <=> host[i] \in HostRefused
    BY <2>2, <2>3, Zenon DEF HostRefused
  <2>5. bad <=> \E i \in 1..Len(host) : host[i] \in HostRefused
    BY <2>1, <2>4, Zenon
  <2> HIDE DEF bad
  <2> QED BY <2>5, Zenon DEF NoneOf, Free
<1>3. CanonicalHost(host) = IF labels = << >> \/ bad THEN << >> ELSE IPv4(Lowered(name))
  BY Zenon DEF CanonicalHost, Lowered
<1> HIDE DEF bad, labels
<1> QED BY <1>1, <1>2, <1>3, Zenon DEF name

\* The form of a host: nothing refused in it, labels of small letters between single dots.
LEMMA HostKept ==
  ASSUME NEW qs \in Seq(Labels(Text)), qs # << >>, NEW s \in Text, s = Join(qs, Dot),
         NoneOf(s, HostRefused), Lowered(s) = s
  PROVE  CanonicalHost(s) = IPv4(s)
<1>1. Split(s, Dot) = qs
  BY LabelsAre, SlashIsByte, JoinSplit
<1>2. FieldsOf(Split(s, Dot)) = qs
  BY <1>1, FieldsKeep
<1> QED BY <1>2, HostIs

\* Digits and dots are left as they are.
Digital == {s \in Text : \A i \in 1..Len(s) : s[i] = 46 \/ s[i] \in 48..57}

LEMMA DigitalIs ==
  /\ Closed(Digital) /\ GluedBy(Digital, Dot) /\ <<Dot>> \in Digital
  /\ \A s \in Digital : s \in PlainWithout(NotInHost) /\ Lowered(s) = s
<1> DEFINE D == {46} \cup 48..57
           E == {b \in Byte : b \notin D}
<1>1. \A s \in Text : s \in Digital <=> NoneOf(s, E)
  <2> SUFFICES ASSUME NEW s \in Text PROVE s \in Digital <=> NoneOf(s, E)
    OBVIOUS
  <2>1. \A i \in 1..Len(s) : s[i] \in Byte
    BY TextAt
  <2>2. s \in Digital <=> \A i \in 1..Len(s) : s[i] \in D
    BY DEF Digital
  <2>3. NoneOf(s, E) <=> \A i \in 1..Len(s) : s[i] \notin E
    <3> HIDE DEF E
    <3> QED BY Zenon DEF NoneOf, Free
  <2>4. \A b \in Byte : b \in D <=> b \notin E
    <3> HIDE DEF D
    <3> QED OBVIOUS
  <2> HIDE DEF D, E
  <2> QED BY <2>1, <2>2, <2>3, <2>4, Zenon
<1>2. Dot \in Byte /\ Dot \notin E
  BY SlashIsByte DEF Dot
<1>3. \A s \in Digital : s \in Text
  BY DEF Digital
<1> HIDE DEF E
<1>4. /\ NoneOf(<< >>, E)
      /\ \A a, b \in Text : NoneOf(Glue(a, b), E) <=> NoneOf(a, E) /\ NoneOf(b, E)
      /\ NoneOf(<<Dot>>, E)
  BY <1>2, NoneGlued
<1>5. << >> \in Digital /\ <<Dot>> \in Digital
  BY <1>1, <1>2, <1>4, Gluing
<1>6. \A a, b \in Digital : Glue(a, b) \in Digital
  BY <1>1, <1>3, <1>4, Gluing
<1>7. \A a, b \in Text : Glue(a, b) \in Digital => a \in Digital /\ b \in Digital
  BY <1>1, <1>3, <1>4, Gluing
<1>8. Closed(Digital) /\ GluedBy(Digital, Dot)
  <2>1. GluedBy(Digital, Dot)
    BY <1>5, <1>6, Zenon DEF GluedBy
  <2>2. Closed(Digital)
    BY <1>3, <1>5, <1>7, Zenon DEF Closed, Glue
  <2> QED BY <2>1, <2>2
<1>9. ASSUME NEW s \in Digital PROVE s \in PlainWithout(NotInHost) /\ Lowered(s) = s
  <2>1. s \in Text /\ \A i \in 1..Len(s) : s[i] \in Byte /\ (s[i] = 46 \/ s[i] \in 48..57)
    BY TextAt DEF Digital
  <2>2. \A b \in Byte : (b = 46 \/ b \in 48..57) => b \notin NotInHost /\ b # Percent /\ b \notin 65..90
    BY DEF NotInHost, HostSyntax, HostRefused, Slash, Question, At, Colon, Percent
  <2>3. ~HasEscape(s)
    <3>1. \A i \in 1..Len(s) : s[i] # Percent
      BY <2>1, <2>2
    <3> QED BY <2>1, <3>1, TextIsInts, HasEscapeIs DEF Escape
  <2>4. NoneOf(s, NotInHost)
    BY SMTT(30), <2>1, <2>2 DEF NoneOf, Free
  <2>5. Lowered(s) = s
    <3>1. /\ Lowered(s) \in Text /\ Len(Lowered(s)) = Len(s)
          /\ \A i \in 1..Len(s) : Lowered(s)[i] = Lower(s[i])
      BY <2>1, LoweredIs
    <3>2. \A i \in 1..Len(s) : Lower(s[i]) = s[i]
      <4>1. \A b \in Byte : b \notin 65..90 => Lower(b) = b
        BY LowerIs, Zenon
      <4> QED BY <2>1, <2>2, <4>1, ZenonT(30)
    <3> QED BY <2>1, <3>1, <3>2, TextEqual
  <2> QED BY <2>1, <2>3, <2>4, <2>5, Zenon DEF PlainWithout, PlainTexts
<1> QED BY <1>5, <1>8, <1>9

LEMMA DottedDigital ==
  ASSUME NEW d \in [1..4 -> 0..255]
  PROVE  Join(Dotted(d), Dot) \in Digital
<1>1. PICK ps \in Seq(Labels(Text)) :
        ps = Dotted(d) /\ ps # << >> /\ Len(ps) = 4 /\ \A i \in 1..4 : ps[i] = Decimal(d[i])
  <2>1. /\ Dotted(d) \in Seq(Labels(Text)) /\ Dotted(d) # << >> /\ Len(Dotted(d)) = 4
        /\ \A i \in 1..4 : Dotted(d)[i] = Decimal(d[i])
    BY DottedIs
  <2> QED BY <2>1, Zenon
<1>2. \A i \in 1..4 : ps[i] \in Digital
  <2>1. \A n \in 0..255 : Decimal(n) \in Digital
    BY DecimalIs DEF Digital
  <2> QED BY <1>1, <2>1
<1>3. ps \in Seq(Digital)
  <2>1. \A S, T : \A s \in Seq(S) : (\A i \in 1..Len(s) : s[i] \in T) => s \in Seq(T)
    OBVIOUS
  <2>2. \A i \in 1..Len(ps) : ps[i] \in Digital
    BY <1>1, <1>2, Zenon
  <2> QED BY <2>1, <2>2, Zenon
<1>4. Closed(Digital) /\ GluedBy(Digital, Dot) /\ << >> \in Digital /\ Digital \in SUBSET Text
  BY DigitalIs DEF Closed
<1>5. Prefixed(ps, Dot) \in Digital
  BY <1>3, <1>4, PrefixedWithin, SlashIsByte
<1>6. PICK j \in Text : j = Join(ps, Dot) /\ Prefixed(ps, Dot) = Glue(<<Dot>>, j)
  <2>1. ps \in Seq(Pieces(Text, Dot))
    BY LabelsAre
  <2>2. Join(ps, Dot) \in Text /\ Prefixed(ps, Dot) = <<Dot>> \o Join(ps, Dot)
    BY <1>1, <2>1, JoinSplit, SlashIsByte
  <2> QED BY <2>2, Zenon DEF Glue
<1>7. j \in Digital
  <2>1. <<Dot>> \in Text
    BY SlashIsByte, Gluing
  <2> QED BY <1>4, <1>5, <1>6, <2>1, Zenon DEF Closed, Glue
<1> QED BY <1>1, <1>6, <1>7

\* What canonicalHost returns is a host in its canonical form: labels of small letters
\* between single dots or the four numbers of an address, and nothing that would be
\* taken for another part of the URL.
THEOREM HostFixed ==
  ASSUME NEW h \in PlainWithout(HostSyntax), CanonicalHost(h) # << >>
  PROVE  /\ CanonicalHost(h) \in PlainWithout(NotInHost)
         /\ CanonicalHost(CanonicalHost(h)) = CanonicalHost(h)
<1> DEFINE G == PlainWithout(NotInHost)
           fields == FieldsOf(Split(h, Dot))
<1>1. h \in Text /\ ~HasEscape(h) /\ NoneOf(h, HostSyntax)
  BY DEF PlainWithout, PlainTexts
<1>2. fields # << >> /\ NoneOf(h, HostRefused) /\ CanonicalHost(h) = IPv4(Lowered(Join(fields, Dot)))
  BY <1>1, HostIs, Zenon
<1>3. h \in G
  BY <1>1, <1>2, Zenon DEF PlainWithout, PlainTexts, NoneOf, NotInHost
<1>4. Closed(G) /\ GluedBy(G, Dot) /\ G \in SUBSET Text /\ << >> \in G
  <2>1. Dot \in Byte /\ Dot \notin NotInHost /\ Dot # Percent /\ Unhex(Dot) < 0
    <3>1. Dot \notin NotInHost /\ Dot # Percent
      BY DEF Dot, Percent, NotInHost, HostSyntax, HostRefused, Slash, Question, At, Colon
    <3>2. Unhex(Dot) < 0
      BY DEF Dot, Unhex
    <3> QED BY <3>1, <3>2, SlashIsByte
  <2>2. Closed(G) /\ GluedBy(G, Dot)
    BY <2>1, WithoutClosed
  <2> QED BY <2>2 DEF Closed
<1>5. PICK ps \in Seq(Labels(G)) : ps = fields
  <2> HIDE DEF G
  <2>1. Split(h, Dot) \in Seq(Pieces(G, Dot))
    BY <1>3, <1>4, SlashIsByte, SplitPieces
  <2> QED BY <1>4, <2>1, FieldsIn
<1> HIDE DEF G, fields
<1>6. ps # << >> /\ ps \in Seq(Labels(Text)) /\ ps \in Seq(G) /\ ps \in Seq(Pieces(Text, Dot))
  BY <1>2, <1>4, <1>5, LabelsAre
<1>7. PICK j \in Text : j = Join(ps, Dot) /\ Prefixed(ps, Dot) = Glue(<<Dot>>, j)
  <2>1. Join(ps, Dot) \in Text /\ Prefixed(ps, Dot) = <<Dot>> \o Join(ps, Dot)
    BY <1>6, JoinSplit, SlashIsByte
  <2> QED BY <2>1, Zenon DEF Glue
<1>8. j \in G
  <2>1. Prefixed(ps, Dot) \in G
    BY <1>4, <1>6, PrefixedWithin, SlashIsByte
  <2>2. <<Dot>> \in Text
    BY SlashIsByte, Gluing
  <2> QED BY <1>4, <1>7, <2>1, <2>2, Zenon DEF Closed, Glue
<1>9. PICK s \in G : s = Lowered(j)
  <2>1. NotInHost \cap 65..122 \subseteq {91, 92, 93}
    BY DEF NotInHost, HostSyntax, HostRefused, Slash, Question, At, Colon
  <2>2. j \in PlainWithout(NotInHost)
    BY <1>8 DEF G
  <2>3. Lowered(j) \in PlainWithout(NotInHost)
    BY <2>1, <2>2, LoweredWithout
  <2> QED BY <2>3 DEF G
<1>10. PICK qs \in Seq(Labels(Text)) : qs # << >> /\ s = Join(qs, Dot)
  BY <1>6, <1>7, <1>9, LoweredJoin
<1>11. s \in Text /\ NoneOf(s, HostRefused) /\ Lowered(s) = s /\ CanonicalHost(h) = IPv4(s)
  <2>1. s \in Text /\ NoneOf(s, NotInHost)
    BY <1>9 DEF G, PlainWithout, PlainTexts
  <2>2. NoneOf(s, HostRefused)
    BY <2>1, Zenon DEF NoneOf, NotInHost
  <2>3. Lowered(s) = s
    BY <1>9, LoweredGlued
  <2>4. CanonicalHost(h) = IPv4(s)
    BY <1>2, <1>5, <1>7, <1>9
  <2> QED BY <2>1, <2>2, <2>3, <2>4
<1>12. CASE IPv4(s) = s
  <2>1. CanonicalHost(s) = IPv4(s)
    BY <1>10, <1>11, HostKept
  <2> QED BY <1>9, <1>11, <1>12, <2>1 DEF G
<1>13. CASE IPv4(s) # s
  <2>1. PICK d \in [1..4 -> 0..255] : IPv4(s) = Join(Dotted(d), Dot)
    BY <1>11, <1>13, IPv4Is
  <2>2. PICK t \in Text : t = Join(Dotted(d), Dot)
    BY DottedIs
  <2>3. t \in PlainWithout(NotInHost) /\ Lowered(t) = t /\ IPv4(t) = t
    BY <2>2, DottedDigital, DigitalIs, IPv4Of
  <2>4. NoneOf(t, HostRefused)
    BY <2>3, Zenon DEF PlainWithout, NoneOf, NotInHost
  <2>5. CanonicalHost(t) = IPv4(t)
    <3>1. PICK rs \in Seq(Labels(Text)) : rs = Dotted(d) /\ rs # << >>
      BY DottedIs
    <3> QED BY <2>2, <2>3, <2>4, <3>1, HostKept
  <2> QED BY <1>11, <2>1, <2>2, <2>3, <2>5
<1> QED BY <1>12, <1>13

----
(* A URL in its canonical form. *)

\* The form of what Canonicalize returns, before its bytes are printed.
Canonical(H, P, hasQuery, query) ==
  /\ H \in PlainWithout(NotInHost) /\ H # << >> /\ CanonicalHost(H) = H
  /\ P \in PlainWithout({Question}) /\ CleanedPath(P) = P /\ \E r \in Text : P = Glue(<<Slash>>, r)
  /\ query \in PlainTexts /\ (~hasQuery => query = << >>)
Shown(H, P, hasQuery, query) ==
  [host |-> Escaped(H), path |-> Escaped(P), hasQuery |-> hasQuery, query |-> Escaped(query)]

LEMMA ClosedGlue ==
  ASSUME NEW G, Closed(G)
  PROVE  /\ G \in SUBSET Text /\ << >> \in G
         /\ \A s, t \in Text : Glue(s, t) \in G => s \in G /\ t \in G
BY Zenon DEF Closed, Glue

LEMMA PathCanonical ==
  ASSUME NEW path \in PlainWithout({Question})
  PROVE  \E P \in PlainWithout({Question}) :
           /\ P = CleanedPath(IF path = << >> THEN <<Slash>> ELSE path)
           /\ CleanedPath(P) = P /\ \E r \in Text : P = Glue(<<Slash>>, r)
<1> DEFINE G == PlainWithout({Question})
           path0 == IF path = << >> THEN <<Slash>> ELSE path
<1>1. Closed(G) /\ GluedBy(G, Slash)
  <2>1. Slash \notin {Question} /\ Slash # Percent /\ Unhex(Slash) < 0
    BY DEF Slash, Question, Percent, Unhex
  <2> QED BY <2>1, SlashIsByte, WithoutClosed
<1>2. path \in G
  OBVIOUS
<1> HIDE DEF G
<1>3. path0 \in G
  <2>1. << >> \in G
    BY <1>1, ClosedGlue
  <2>2. Glue(Glue(<< >>, <<Slash>>), << >>) \in G
    BY <1>1, <2>1, Zenon DEF GluedBy
  <2>3. <<Slash>> \in G
    BY <2>2, SlashIsByte, OneByte
  <2> QED BY <1>2, <2>3
<1> HIDE DEF path0
<1>4. /\ CleanedPath(path0) \in G /\ CleanedPath(CleanedPath(path0)) = CleanedPath(path0)
      /\ \E r \in Text : CleanedPath(path0) = Glue(<<Slash>>, r)
  BY <1>1, <1>3, CleanedAgain
<1> QED BY <1>4 DEF G, path0

LEMMA TakenCanonical ==
  ASSUME NEW x \in PlainTexts, TakenApart(x) # Refused
  PROVE  \E H, P, query \in Text, hasQuery \in BOOLEAN :
           Canonical(H, P, hasQuery, query) /\ TakenApart(x) = Shown(H, P, hasQuery, query)
<1>1. x \in Text /\ Closed(PlainTexts)
  BY PlainClosed DEF PlainTexts
<1>2. PICK authority, path, query \in Text, hasQuery \in BOOLEAN :
        /\ HostPart(authority) /\ PathPart(path) /\ (~hasQuery => query = << >>)
        /\ x = Spelled(authority, path, hasQuery, query)
  <2>1. \E authority, path, query \in Text, hasQuery \in BOOLEAN :
           /\ HostPart(authority) /\ PathPart(path)
           /\ ~hasQuery => query = << >>
           /\ x = Spelled(authority, path, hasQuery, query)
    BY <1>1, EverySpelled, Zenon
  <2> QED BY <2>1, Zenon
<1>3. authority \in PlainTexts /\ path \in PlainTexts /\ query \in PlainTexts
  <2>1. Queried(hasQuery, query) \in Text /\ Glue(authority, path) \in Text
    BY QueriedIs, Gluing
  <2>2. Glue(Glue(authority, path), Queried(hasQuery, query)) \in PlainTexts
    BY <1>2, Zenon DEF Spelled
  <2>3. Glue(authority, path) \in PlainTexts /\ Queried(hasQuery, query) \in PlainTexts
    BY <1>1, <2>1, <2>2, ClosedGlue
  <2>4. authority \in PlainTexts /\ path \in PlainTexts
    BY <1>1, <2>3, ClosedGlue
  <2>5. query \in PlainTexts
    <3>1. CASE hasQuery
      <4>1. <<Question>> \in Text
        BY SlashIsByte, Gluing
      <4>2. Glue(<<Question>>, query) \in PlainTexts
        BY <2>3, <3>1 DEF Queried
      <4> QED BY <1>1, <4>1, <4>2, ClosedGlue
    <3>2. CASE ~hasQuery
      BY <1>1, <1>2, <3>2, ClosedGlue
    <3> QED BY <3>1, <3>2
  <2> QED BY <2>4, <2>5
<1> DEFINE G == PlainWithout(HostSyntax)
<1>4. Closed(G)
  BY WithoutClosed
<1>5. PICK rest \in Text : rest = WithoutUser(authority) /\ rest \in G
  <2>1. At \in Byte
    BY DEF At, Byte
  <2>2. PICK rest \in Text : rest = After(authority, Final(authority, At)) /\ Free(rest, At)
    BY <2>1, FinalDivides
  <2>3. PICK a \in Text : authority = Glue(a, rest)
    BY <2>1, <2>2, FinalDivides
  <2>4. rest \in PlainTexts
    BY <1>1, <1>3, <2>3, ClosedGlue
  <2>5. HostPart(rest)
    BY <1>2, <2>3, NoneGlued DEF HostPart
  <2>6. NoneOf(rest, HostSyntax)
    BY <2>2, <2>5, Zenon DEF NoneOf, HostPart, HostSyntax
  <2>7. rest \in G
    BY <2>4, <2>6, Zenon DEF PlainWithout
  <2> QED BY <2>2, <2>7 DEF WithoutUser
<1> DEFINE colon == Final(rest, Colon)
           host == IF colon = 0 THEN rest ELSE Before(rest, colon)
<1>6. host \in G
  <2>1. Colon \in Byte
    BY DEF Colon, Byte
  <2>2. colon \in 0..Len(rest) /\ Len(rest) \in Nat
    BY <2>1, FinalDivides, TextAt
  <2>3. CASE colon = 0
    BY <1>5, <2>3
  <2>4. CASE colon # 0
    <3>1. colon > 0
      BY <2>2, <2>4
    <3>2. PICK b \in Text : b = Before(rest, colon)
      BY <2>1, <3>1, FinalDivides
    <3>3. PICK t \in Text : rest = Glue(b, t)
      BY <2>1, <3>1, <3>2, FinalDivides
    <3> HIDE DEF G, colon
    <3>4. b \in G
      BY <1>4, <1>5, <3>3, ClosedGlue
    <3> QED BY <2>4, <3>2, <3>4
  <2> QED BY <2>3, <2>4
<1>7. TakenApart(x) = Whole(rest, path, hasQuery, query)
  BY <1>2, <1>5, SpelledApart
<1>8. PICK P \in PlainWithout({Question}) :
        /\ P = CleanedPath(IF path = << >> THEN <<Slash>> ELSE path)
        /\ CleanedPath(P) = P /\ \E r \in Text : P = Glue(<<Slash>>, r)
  <2>1. NoneOf(path, {Question})
    BY <1>2, Zenon DEF PathPart, NoneOf
  <2>2. path \in PlainWithout({Question})
    BY <1>3, <2>1, Zenon DEF PlainWithout
  <2> QED BY <2>2, PathCanonical
<1>9. /\ CanonicalHost(host) # << >>
      /\ TakenApart(x) = Shown(CanonicalHost(host), P, hasQuery, query)
  <2>1. Whole(rest, path, hasQuery, query) =
          IF CanonicalHost(host) = << >> \/ (colon > 0 /\ ~PortFits(After(rest, colon))) THEN Refused
          ELSE Shown(CanonicalHost(host), CleanedPath(IF path = << >> THEN <<Slash>> ELSE path), hasQuery, query)
    BY Zenon DEF Whole, Shown
  <2> HIDE DEF host, colon
  <2> QED BY <1>7, <1>8, <2>1, Zenon
<1> HIDE DEF host, colon, G
<1>10. PICK H \in PlainWithout(NotInHost) : H = CanonicalHost(host) /\ CanonicalHost(H) = H
  BY <1>6, <1>9, HostFixed DEF G
<1>11. Canonical(H, P, hasQuery, query)
  BY <1>2, <1>3, <1>8, <1>9, <1>10, Zenon DEF Canonical
<1>12. H \in Text /\ P \in Text
  BY DEF PlainWithout, PlainTexts
<1> QED BY <1>9, <1>10, <1>11, <1>12, Zenon

\* What is printed decodes to what was printed, and that is taken apart as it was.
LEMMA ShownCanonical ==
  ASSUME NEW H \in Text, NEW P \in Text, NEW query \in Text, NEW hasQuery \in BOOLEAN,
         Canonical(H, P, hasQuery, query)
  PROVE  LET printed == Glue(Glue(Escaped(H), Escaped(P)), Queried(hasQuery, Escaped(query)))
         IN Canonicalize(printed) = Shown(H, P, hasQuery, query)
<1> DEFINE G == PlainTexts
           y == Spelled(H, P, hasQuery, query)
<1>1. /\ H \in G /\ NoneOf(H, NotInHost) /\ H # << >> /\ CanonicalHost(H) = H
      /\ P \in G /\ NoneOf(P, {Question}) /\ CleanedPath(P) = P
      /\ query \in G /\ (~hasQuery => query = << >>)
  BY Zenon DEF Canonical, PlainWithout
<1>2. PICK r \in Text : P = Glue(<<Slash>>, r)
  BY Zenon DEF Canonical
<1>3. PICK h \in Text, p \in Text, q \in Text :
        /\ h = Escaped(H) /\ p = Escaped(P) /\ q = Escaped(query)
        /\ Bare(h) /\ Bare(p) /\ Bare(q)
        /\ ~hasQuery => q = << >>
  <2>1. /\ Escaped(H) \in Text /\ Escaped(P) \in Text /\ Escaped(query) \in Text
        /\ Bare(Escaped(H)) /\ Bare(Escaped(P)) /\ Bare(Escaped(query))
    BY EscapedBare
  <2>2. ~hasQuery => Escaped(query) = << >>
    BY <1>1, EscapedEquation
  <2> QED BY <2>1, <2>2, Zenon
<1>4. PICK s \in Text : s = <<Question>> /\ Bare(s)
  <2>1. Question \in Byte /\ <<Question>> \in Text
    BY SlashIsByte, Gluing
  <2>2. Question \notin Blanks \cup {Hash}
    BY DEF Question, Blanks, Hash
  <2>3. NoneOf(<<Question>>, Blanks \cup {Hash})
    BY <2>1, <2>2, NoneGlued, Zenon
  <2> QED BY <2>1, <2>3, Zenon DEF Bare
<1>5. PICK printed \in Text :
        /\ printed = Glue(Glue(h, p), Queried(hasQuery, q)) /\ Bare(printed)
        /\ Unescaped(printed) = Unescaped(y)
  <2> DEFINE B == Blanks \cup {Hash}
  <2>1. \A a, b \in Text : NoneOf(Glue(a, b), B) <=> NoneOf(a, B) /\ NoneOf(b, B)
    BY NoneGlued
  <2>2. /\ \A a, b \in Text : Glue(a, b) \in Text /\ (Bare(a) /\ Bare(b) => Bare(Glue(a, b)))
        /\ << >> \in Text
    BY <2>1, Gluing, Zenon DEF Bare
  <2>3. /\ \A a, w \in Text : Unescaped(Glue(Glue(a, h), w)) = Unescaped(Glue(Glue(a, H), w))
        /\ \A a, w \in Text : Unescaped(Glue(Glue(a, p), w)) = Unescaped(Glue(Glue(a, P), w))
        /\ \A a, w \in Text : Unescaped(Glue(Glue(a, q), w)) = Unescaped(Glue(Glue(a, query), w))
    BY <1>3, EscapedSame
  <2>4. /\ \A a \in Text : Glue(a, << >>) = a /\ Glue(<< >>, a) = a
        /\ \A a, b, w \in Text : Glue(a, Glue(b, w)) = Glue(Glue(a, b), w)
    BY Gluing
  <2>5. ASSUME NEW w \in Text
        PROVE  Unescaped(Glue(Glue(h, p), w)) = Unescaped(Glue(Glue(H, P), w))
    <3>1. Unescaped(Glue(Glue(h, p), w)) = Unescaped(Glue(Glue(h, P), w))
      BY <2>3
    <3>2. Unescaped(Glue(Glue(<< >>, h), Glue(P, w))) = Unescaped(Glue(Glue(<< >>, H), Glue(P, w)))
      BY <2>2, <2>3
    <3>3. /\ Glue(Glue(<< >>, h), Glue(P, w)) = Glue(Glue(h, P), w)
          /\ Glue(Glue(<< >>, H), Glue(P, w)) = Glue(Glue(H, P), w)
      BY <2>2, <2>4
    <3> QED BY <3>1, <3>2, <3>3
  <2>6. CASE ~hasQuery
    <3>1. Queried(hasQuery, q) = << >> /\ Queried(hasQuery, query) = << >>
      BY <2>6, Zenon DEF Queried
    <3>2. Unescaped(Glue(Glue(h, p), << >>)) = Unescaped(y)
      BY <2>2, <2>5, <3>1, Zenon DEF Spelled
    <3>3. Glue(Glue(h, p), << >>) = Glue(h, p) /\ Glue(h, p) \in Text /\ Bare(Glue(h, p))
      BY <1>3, <2>2, <2>4
    <3> QED BY <3>1, <3>2, <3>3, Zenon
  <2>7. CASE hasQuery
    <3>1. Queried(hasQuery, q) = Glue(s, q) /\ Queried(hasQuery, query) = Glue(s, query)
      BY <1>4, <2>7, Zenon DEF Queried
    <3>2. Unescaped(Glue(Glue(h, p), Glue(s, q))) = Unescaped(Glue(Glue(H, P), Glue(s, q)))
      BY <2>2, <2>5
    <3>3. Unescaped(Glue(Glue(Glue(Glue(H, P), s), q), << >>))
            = Unescaped(Glue(Glue(Glue(Glue(H, P), s), query), << >>))
      BY <2>2, <2>3
    <3>4. /\ Glue(Glue(Glue(Glue(H, P), s), q), << >>) = Glue(Glue(H, P), Glue(s, q))
          /\ Glue(Glue(Glue(Glue(H, P), s), query), << >>) = Glue(Glue(H, P), Glue(s, query))
      <4>1. PICK f \in Text : f = Glue(H, P)
        BY <2>2
      <4>2. Glue(Glue(f, s), q) \in Text /\ Glue(Glue(f, s), query) \in Text
        BY <2>2
      <4>3. Glue(f, Glue(s, q)) = Glue(Glue(f, s), q) /\ Glue(f, Glue(s, query)) = Glue(Glue(f, s), query)
        BY <2>4
      <4> QED BY <2>4, <4>1, <4>2, <4>3, Zenon
    <3>5. Unescaped(Glue(Glue(h, p), Glue(s, q))) = Unescaped(y)
      BY <3>1, <3>2, <3>3, <3>4, Zenon DEF Spelled
    <3>6. Glue(Glue(h, p), Glue(s, q)) \in Text /\ Bare(Glue(Glue(h, p), Glue(s, q)))
      BY <1>3, <1>4, <2>2
    <3> QED BY <3>1, <3>5, <3>6, Zenon
  <2> QED BY <2>6, <2>7
<1>6. y \in PlainTexts
  <2>1. GluedBy(G, Slash) /\ GluedBy(G, Question) /\ Closed(G)
    <3>1. Slash # Percent /\ Unhex(Slash) < 0 /\ Question # Percent /\ Unhex(Question) < 0
      BY DEF Slash, Question, Percent, Unhex
    <3> QED BY <3>1, SlashIsByte, PlainGlued, PlainClosed
  <2>2. r \in G
    <3>1. <<Slash>> \in Text
      BY SlashIsByte, Gluing
    <3> QED BY <1>1, <1>2, <2>1, <3>1, ClosedGlue
  <2>3. PICK l \in Text : l = <<Slash>>
    BY SlashIsByte, Gluing
  <2>4. Glue(H, P) \in G /\ Glue(H, P) \in Text
    <3>1. Glue(Glue(H, l), r) \in G
      BY <1>1, <2>1, <2>2, <2>3, Zenon DEF GluedBy
    <3>2. Glue(H, P) = Glue(Glue(H, l), r)
      BY <1>2, <2>3, Gluing
    <3> QED BY <3>1, <3>2, Gluing
  <2>5. CASE ~hasQuery
    <3>1. y = Glue(Glue(H, P), << >>)
      BY <2>5, Zenon DEF Spelled, Queried
    <3> QED BY <2>4, <3>1, Gluing
  <2>6. CASE hasQuery
    <3>1. y = Glue(Glue(H, P), Glue(s, query))
      BY <1>4, <2>6, Zenon DEF Spelled, Queried
    <3>2. Glue(Glue(Glue(H, P), s), query) \in G
      BY <1>1, <1>4, <2>1, <2>4, Zenon DEF GluedBy
    <3>3. Glue(Glue(H, P), Glue(s, query)) = Glue(Glue(Glue(H, P), s), query)
      BY <2>4, Gluing
    <3> QED BY <3>1, <3>2, <3>3
  <2> QED BY <2>5, <2>6
<1>7. Canonicalize(printed) = TakenApart(y)
  <2>1. y \in Text /\ ~HasEscape(y)
    BY <1>6, Zenon DEF PlainTexts
  <2>2. Unescaped(y) = y
    <3> HIDE DEF y
    <3> QED BY <2>1, UnescapedText
  <2> QED BY <1>5, <2>2, BareCanonical
<1>8. HostPart(H) /\ Free(H, At) /\ Free(H, Colon)
  BY SMTT(30), <1>1 DEF HostPart, NoneOf, NotInHost, HostSyntax, HostRefused
<1>9. PathPart(P)
  <2>1. Starts(P, {Slash})
    <3>1. Glue(<<Slash>>, r)[1] = Slash
      BY SlashIsByte, StartsWith
    <3> QED BY <1>2, <3>1, Zenon DEF Starts
  <2> QED BY <1>1, <2>1, Zenon DEF PathPart, NoneOf
<1>10. TakenApart(y) = Whole(H, P, hasQuery, query)
  <2>1. TakenApart(y) = Whole(WithoutUser(H), P, hasQuery, query)
    BY <1>1, <1>8, <1>9, SpelledApart
  <2>2. WithoutUser(H) = H
    BY <1>8, FinalFound DEF WithoutUser
  <2> QED BY <2>1, <2>2
<1>11. Whole(H, P, hasQuery, query) = Shown(H, P, hasQuery, query)
  <2>1. Final(H, Colon) = 0
    BY <1>8, FinalFound
  <2>2. P # << >>
    BY <1>2, SlashIsByte, StartsWith
  <2>3. ~(0 > 0)
    OBVIOUS
  <2> QED BY <1>1, <2>1, <2>2, <2>3, Zenon DEF Whole, Shown
<1> HIDE DEF y
<1> QED BY <1>3, <1>5, <1>7, <1>10, <1>11, Zenon

\* The canonical form of a URL, written as a URL, is the canonical form of itself:
\* its path is clean, its host has its own form, and what is printed as an escape
\* is decoded to the byte that it stands for, no more (Canonicalize, escapeCanonical).
THEOREM CanonicalAgain ==
  ASSUME NEW raw \in Text, Canonicalize(raw) # Refused
  PROVE  LET u == Canonicalize(raw)
         IN Canonicalize(u.host \o u.path \o (IF u.hasQuery THEN <<Question>> ELSE << >>) \o u.query) = u
<1>1. PICK x \in PlainTexts : Canonicalize(raw) = TakenApart(x)
  <2>1. PICK s \in Text : s = Stripped(raw)
    BY StrippedEquation DEF Text
  <2>2. PICK t \in Text : t = WithoutFragment(s)
    <3>1. Hash \in Byte
      BY DEF Hash, Byte
    <3>2. Before(s, First(s, Hash)) \in Text
      BY <3>1, FirstDivides
    <3> QED BY <3>2 DEF WithoutFragment
  <2>3. PICK x \in Text : x = Unescaped(t) /\ ~HasEscape(x)
    BY UnescapedText
  <2>4. Canonicalize(raw) = TakenApart(x)
    BY <2>1, <2>2, <2>3, Zenon DEF Canonicalize
  <2> QED BY <2>3, <2>4, Zenon DEF PlainTexts
<1>2. PICK H, P, query \in Text, hasQuery \in BOOLEAN :
        Canonical(H, P, hasQuery, query) /\ Canonicalize(raw) = Shown(H, P, hasQuery, query)
  <2>1. \E H, P, query \in Text, hasQuery \in BOOLEAN :
          Canonical(H, P, hasQuery, query) /\ TakenApart(x) = Shown(H, P, hasQuery, query)
    BY <1>1, TakenCanonical, Zenon
  <2> QED BY <1>1, <2>1, Zenon
<1> DEFINE u == Shown(H, P, hasQuery, query)
<1>3. PICK h \in Text, p \in Text, q \in Text :
        /\ h = Escaped(H) /\ p = Escaped(P) /\ q = Escaped(query)
        /\ u.host = h /\ u.path = p /\ u.hasQuery = hasQuery /\ u.query = q
        /\ ~hasQuery => q = << >>
  <2>1. Escaped(H) \in Text /\ Escaped(P) \in Text /\ Escaped(query) \in Text
    BY EscapedBare
  <2>2. /\ u.host = Escaped(H) /\ u.path = Escaped(P) /\ u.hasQuery = hasQuery
        /\ u.query = Escaped(query)
    BY DEF Shown
  <2>3. ~hasQuery => Escaped(query) = << >>
    BY <1>2, EscapedEquation, Zenon DEF Canonical
  <2> QED BY <2>1, <2>2, <2>3, Zenon
<1>4. Canonicalize(Glue(Glue(h, p), Queried(hasQuery, q))) = u
  BY <1>2, <1>3, ShownCanonical
<1> HIDE DEF u
<1>5. Glue(Glue(Glue(h, p), IF hasQuery THEN <<Question>> ELSE << >>), q)
        = Glue(Glue(h, p), Queried(hasQuery, q))
  <2>1. PICK f \in Text : f = Glue(h, p)
    BY Gluing
  <2>2. CASE hasQuery
    <3>1. PICK s \in Text : s = <<Question>>
      BY SlashIsByte, Gluing
    <3>2. Glue(Glue(f, s), q) = Glue(f, Glue(s, q))
      BY Gluing
    <3> QED BY <2>1, <2>2, <3>1, <3>2, Zenon DEF Queried
  <2>3. CASE ~hasQuery
    <3>1. q = << >> /\ Glue(f, << >>) = f
      BY <1>3, <2>3, Gluing
    <3> QED BY <2>1, <2>3, <3>1, Zenon DEF Queried
  <2> QED BY <2>2, <2>3
<1>6. Canonicalize(u.host \o u.path \o (IF u.hasQuery THEN <<Question>> ELSE << >>) \o u.query) = u
  BY <1>3, <1>4, <1>5, Zenon DEF Glue
<1> QED BY <1>2, <1>6, Zenon DEF u

----
(* What the run checks, from the theorems on every URL *)

\* The bytes that the inputs are made of take nothing away.
RawBytes == HostBytes \cup PathBytes \cup {97}

LEMMA RawChosen ==
  ASSUME ChooseRaw
  PROVE  \E raw \in Text : case' = [algorithm |-> "raw", raw |-> raw] /\ Bare(raw)
<1>1. RawBytes \subseteq Byte /\ \A b \in RawBytes : b \notin Blanks \cup {Hash}
  BY DEF RawBytes, HostBytes, PathBytes, Byte, Blanks, Hash, Percent, Dot, Slash, Colon, At, Question
<1>2. HostBytes \subseteq RawBytes /\ PathBytes \subseteq RawBytes /\ 97 \in RawBytes /\ Slash \in RawBytes
  BY DEF RawBytes, PathBytes
<1> DEFINE S == RawBytes
<1>3. ASSUME NEW raw \in Seq(S), case' = [algorithm |-> "raw", raw |-> raw]
      PROVE  \E r \in Text : case' = [algorithm |-> "raw", raw |-> r] /\ Bare(r)
  <2>1. raw \in Text
    <3> HIDE DEF S
    <3> QED BY <1>1, SeqMonotone DEF Text, S
  <2>2. \A i \in 1..Len(raw) : raw[i] \in S
    <3> HIDE DEF S
    <3> QED OBVIOUS
  <2>3. Bare(raw)
    BY <1>1, <2>2, Zenon DEF Bare, NoneOf, Free
  <2> QED BY <1>3, <2>1, <2>3, Zenon
<1>4. ASSUME NEW n \in Int PROVE SeqOf(HostBytes, n) \subseteq Seq(S) /\ SeqOf(PathBytes, n) \subseteq Seq(S)
  <2>1. \A T : T \subseteq S => SeqOf(T, n) \subseteq Seq(S)
    <3> HIDE DEF S
    <3> QED BY DEF SeqOf
  <2> QED BY <1>2, <2>1
<1>5. MaxRaw - 1 \in Int
  BY BoundAssumption
<1> HIDE DEF S
<1>6. \A s \in Seq(S), x \in S : <<x>> \o s \in Seq(S)
  OBVIOUS
<1>7. \A s \in Seq(S), x \in S : <<97, Slash, x>> \o s \in Seq(S)
  <2>1. \A x, y, z \in S : <<x, y, z>> \in Seq(S)
    OBVIOUS
  <2>2. \A x \in S : <<97, Slash, x>> \in Seq(S)
    BY <1>2, <2>1 DEF S
  <2> QED BY <2>2
<1>8. CASE case.x \in HostBytes
           /\ \E s \in SeqOf(HostBytes, MaxRaw - 1) : case' = [algorithm |-> "raw", raw |-> <<case.x>> \o s]
  <2>1. PICK s \in Seq(S) : case' = [algorithm |-> "raw", raw |-> <<case.x>> \o s]
    BY <1>4, <1>5, <1>8
  <2>2. <<case.x>> \o s \in Seq(S)
    BY <1>2, <1>6, <1>8 DEF S
  <2> QED BY <1>3, <2>1, <2>2
<1>9. CASE case.x \in PathBytes
           /\ \E s \in SeqOf(PathBytes, MaxRaw - 1) :
                case' = [algorithm |-> "raw", raw |-> <<97, Slash, case.x>> \o s]
  <2>1. PICK s \in Seq(S) : case' = [algorithm |-> "raw", raw |-> <<97, Slash, case.x>> \o s]
    BY <1>4, <1>5, <1>9
  <2>2. <<97, Slash, case.x>> \o s \in Seq(S)
    BY <1>2, <1>7, <1>9 DEF S
  <2> QED BY <1>3, <2>1, <2>2
<1> QED BY <1>8, <1>9 DEF ChooseRaw

\* How a URL is spelled does not matter, in every behaviour.
THEOREM SpellingSafe == Spec => []SpellingIgnored
<1>1. Init => SpellingIgnored
  BY OneInput DEF SpellingIgnored, Chosen
<1>2. SpellingIgnored /\ [Next]_case => SpellingIgnored'
  <2> SUFFICES ASSUME SpellingIgnored, [Next]_case PROVE SpellingIgnored'
    OBVIOUS
  <2>1. CASE ChooseRaw
    <3>1. PICK raw \in Text : case' = [algorithm |-> "raw", raw |-> raw] /\ Bare(raw)
      BY <2>1, RawChosen
    <3>2. case'.raw = raw
      BY <3>1
    <3>3. \A r \in Respellings(raw) : Canonicalize(r) = Canonicalize(raw)
      BY <3>1, SpellingsAgree
    <3>4. Canonicalize(raw) # Refused =>
            LET u == Canonicalize(raw)
            IN Canonicalize(u.host \o u.path \o (IF u.hasQuery THEN <<Question>> ELSE << >>) \o u.query) = u
      BY CanonicalAgain
    <3> QED BY <3>2, <3>3, <3>4, Zenon DEF SpellingIgnored
  <2>2. CASE ChooseBlock \/ ChooseList \/ ChooseMerge \/ ChooseExpressions
             \/ ChooseSearch \/ ChooseBackoff
    BY <2>2, OneInput DEF SpellingIgnored, Chosen
  <2>3. CASE UNCHANGED case
    BY <2>3 DEF SpellingIgnored, Chosen
  <2> QED BY <2>1, <2>2, <2>3 DEF Next
<1> QED BY <1>1, <1>2, PTL DEF Spec
=============================================================================
