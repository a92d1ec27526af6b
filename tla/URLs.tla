------------------------------- MODULE URLs -------------------------------
(***************************************************************************)
(* urls.go: canonicalization of a URL and the expressions that are hashed. *)
(* A string is the sequence of its bytes. Left out are the scheme, which   *)
(* is not hashed, and what net/netip and idna make of IPv6 literals and    *)
(* international names: a host with a bracket or a byte from 128 on is     *)
(* refused here.                                                           *)
(***************************************************************************)
EXTENDS Integers, SequencesExt, Loops

Hash == 35
Percent == 37
Dot == 46
Slash == 47
Colon == 58
Question == 63
At == 64

\* The first and the last place of byte c in s; past its end, and before its
\* start, when there is none.
First(s, c) == IF Contains(s, c) THEN SelectInSeq(s, LAMBDA b : b = c) ELSE Len(s) + 1
Final(s, c) == SelectLastInSeq(s, LAMBDA b : b = c)

Before(s, i) == SubSeq(s, 1, i - 1)
After(s, i) == SubSeq(s, i + 1, Len(s))
----
(* Percent escapes *)

\* unhex: the value of a hexadecimal digit, negative for another byte.
Unhex(b) ==
  CASE b \in 48..57  -> b - 48
    [] b \in 97..102 -> b - 87
    [] b \in 65..70  -> b - 55
    [] OTHER         -> 0 - 1

Escape(s, i) ==
  /\ i + 2 <= Len(s) /\ s[i] = Percent
  /\ Unhex(s[i + 1]) >= 0 /\ Unhex(s[i + 2]) >= 0

\* unescapeRepeated: a pass decodes every escape that it meets, and there are as
\* many passes as it takes until none is left.
PassStep(s, st) ==
  IF st.at > Len(s) THEN st
  ELSE IF Escape(s, st.at)
  THEN [at |-> st.at + 3, out |-> Append(st.out, 16 * Unhex(s[st.at + 1]) + Unhex(s[st.at + 2]))]
  ELSE [at |-> st.at + 1, out |-> Append(st.out, s[st.at])]
Pass(s) == Repeated(LAMBDA st : PassStep(s, st), [at |-> 1, out |-> << >>], Len(s)).out

HasEscape(s) == \E i \in DOMAIN s : Escape(s, i)

UnescapedOnce(s) == Pass(s)
Unescaped(s) == Repeated(LAMBDA t : IF HasEscape(t) THEN Pass(t) ELSE t, s, Len(s))

HexDigit(n) == IF n < 10 THEN n + 48 ELSE n + 55
Encoded(b) == <<Percent, HexDigit(b \div 16), HexDigit(b % 16)>>

\* escapeCanonical.
Printed(b) == IF b <= 32 \/ b >= 127 \/ b \in {Hash, Percent} THEN Encoded(b) ELSE <<b>>
Escaped(s) == Folded(LAMBDA out, b : out \o Printed(b), << >>, s)
----
(* Paths and hosts *)

\* strings.Split: the parts that are complete, and the last.
Cut(c, st, b) ==
  IF b = c THEN [parts |-> Append(st.parts, st.last), last |-> << >>]
  ELSE [parts |-> st.parts, last |-> Append(st.last, b)]
Split(s, c) ==
  LET cut == Folded(LAMBDA st, b : Cut(c, st, b), [parts |-> << >>, last |-> << >>], s)
  IN Append(cut.parts, cut.last)

\* strings.FieldsFunc: the parts that are not empty.
Fields(s, c) ==
  Folded(LAMBDA fields, part : IF part = << >> THEN fields ELSE Append(fields, part),
         << >>, Split(s, c))

\* c before every part, and strings.Join.
Prefixed(parts, c) == Folded(LAMBDA out, part : out \o <<c>> \o part, << >>, parts)
Join(parts, c) == Tail(Prefixed(parts, c))

\* cleanURLPath: without empty, "." and ".." components, but with the slash of a
\* directory.
Dots == {<< >>, <<Dot>>, <<Dot, Dot>>}

Stacked(stack, part) ==
  IF part \notin Dots THEN Append(stack, part)
  ELSE IF part = <<Dot, Dot>> /\ stack # << >> THEN Front(stack) ELSE stack

CleanedPath(path) ==
  LET parts == Split(path, Slash)
      stack == Folded(Stacked, << >>, parts)
  IN IF stack = << >> THEN <<Slash>>
     ELSE Prefixed(stack, Slash) \o IF Last(parts) \in Dots THEN <<Slash>> ELSE << >>

\* A number in decimal, or in octal or hexadecimal by its prefix;
\* negative when it is none.
ParsedUint(digits, base) ==
  IF digits = << >> \/ \E i \in DOMAIN digits : Unhex(digits[i]) \notin 0..base - 1
  THEN 0 - 1
  ELSE Folded(LAMBDA n, d : base * n + Unhex(d), 0, digits)
Number(part) ==
  IF Len(part) > 1 /\ part[1] = 48
  THEN IF part[2] = 120 THEN ParsedUint(After(part, 2), 16) ELSE ParsedUint(Tail(part), 8)
  ELSE ParsedUint(part, 10)

Decimal(n) ==
  (IF n >= 100 THEN <<48 + n \div 100>> ELSE << >>) \o
  (IF n >= 10 THEN <<48 + ((n \div 10) % 10)>> ELSE << >>) \o <<48 + (n % 10)>>

\* legacyIPv4: the last part fills the bytes that the others leave.
IPv4(host) ==
  LET parts == Split(host, Dot)
      n == Len(parts)
      value == [i \in 1..n |-> Number(parts[i])]
      rest == [k \in 0..4 - n |-> value[n] \div Power2(8 * (4 - n - k))]
  IN IF n > 4 \/ (\E i \in 1..n : value[i] < 0) \/ (\E i \in 1..n - 1 : value[i] >= 256) \/ rest[0] >= 256
     THEN host
     ELSE Join([i \in 1..4 |-> Decimal(IF i < n THEN value[i] ELSE rest[i - n] % 256)], Dot)

Lower(b) == IF b \in 65..90 THEN b + 32 ELSE b

\* canonicalHost; the empty string when the host is refused.
CanonicalHost(host) ==
  LET labels == Fields(host, Dot)
  IN IF labels = << >> \/ \E i \in DOMAIN host : host[i] \in {Colon, 91, 92, 93} \/ host[i] >= 128
     THEN << >>
     ELSE LET name == Join(labels, Dot) IN IPv4([i \in DOMAIN name |-> Lower(name[i])])
----
(* Canonicalize *)

Refused == [host |-> << >>, path |-> << >>, hasQuery |-> FALSE, query |-> << >>]

PortFits(port) == LET p == ParsedUint(port, 10) IN p \in 0..65535

\* The host with its port, and what follows it.
Assembled(authority, colon, tail, question) ==
  LET host == CanonicalHost(IF colon = 0 THEN authority ELSE Before(authority, colon))
      path == Before(tail, question)
  IN IF host = << >> \/ (colon > 0 /\ ~PortFits(After(authority, colon))) THEN Refused
     ELSE [host |-> Escaped(host),
           path |-> Escaped(CleanedPath(IF path = << >> THEN <<Slash>> ELSE path)),
           hasQuery |-> question <= Len(tail),
           query |-> Escaped(After(tail, question))]

WithoutUser(authority) == After(authority, Final(authority, At))
Divided(authority, tail) ==
  Assembled(authority, Final(authority, Colon), tail, First(tail, Question))

\* Canonicalize, of what comes after the scheme. Escapes are decoded before the
\* URL is taken apart, so an encoded delimiter delimits.
WithoutFragment(s) == Before(s, First(s, Hash))
TakenApart(s) ==
  LET end == Min({First(s, Slash), First(s, Question)})
  IN Divided(WithoutUser(Before(s, end)), SubSeq(s, end, Len(s)))
Stripped(raw) == Folded(LAMBDA kept, b : IF b \in {9, 10, 13} THEN kept ELSE Append(kept, b), << >>, raw)
Canonicalize(raw) == TakenApart(Unescaped(WithoutFragment(Stripped(raw))))
----
(* Expressions *)

AtLeast(n, m) == IF n < m THEN m ELSE n

\* The host, as labels, and up to four of its suffixes, the last being the
\* registrable domain of base labels; base is 0 for an address or if there is none.
HostsShort(labels, base) ==
  LET n == Len(labels)
      start == AtLeast(n - base - 2, 1)
  IN <<labels>> \o IF base = 0 THEN << >>
                   ELSE [m \in 1..n - base - start + 1 |-> SubSeq(labels, start + m, n)]
Hosts(labels, base) ==
  LET n == Len(labels)
      start == AtLeast(n - base - 3, 1)
  IN <<labels>> \o IF base = 0 THEN << >>
                   ELSE [m \in 1..n - base - start + 1 |-> SubSeq(labels, start + m, n)]

\* The path with its query, the path, and its first four directories, each once.
Added(paths, p) == IF \E i \in DOMAIN paths : paths[i] = p THEN paths ELSE Append(paths, p)

\* One round of the search for directories.
PathStep(path, s) ==
  IF s.i > Len(path) \/ s.count = 4 THEN s
  ELSE IF path[s.i] = Slash
  THEN [i |-> s.i + 1, count |-> s.count + 1, paths |-> Added(s.paths, SubSeq(path, 1, s.i))]
  ELSE [s EXCEPT !.i = @ + 1]

Paths(u) ==
  LET queried == IF u.hasQuery THEN <<u.path \o <<Question>> \o u.query>> ELSE << >>
      start == [i |-> 1, count |-> 0, paths |-> Added(queried, u.path)]
  IN Repeated(LAMBDA s : PathStep(u.path, s), start, Len(u.path)).paths

\* Every host with every path.
Expressions(labels, base, u) ==
  LET hosts == Hosts(labels, base)
      paths == Paths(u)
      n == Len(paths)
  IN [i \in 1..Len(hosts) * n |-> <<hosts[((i - 1) \div n) + 1], paths[((i - 1) % n) + 1]>>]
===========================================================================
