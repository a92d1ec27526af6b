------------------------------ MODULE Merging ------------------------------
(***************************************************************************)
(* hashlist.go: the loops of ApplyUpdate and Matches, which HashLists only *)
(* states the outcome of. A list is the sequence of its entries.           *)
(***************************************************************************)
EXTENDS Integers, Sequences, Loops

\* The variables of the merge: indices into the base, the additions and the
\* removals, and what it has built; duplicate when it has found an addition
\* that survives in the base.
MergeStart == [i |-> 0, j |-> 0, r |-> 0, out |-> << >>, duplicate |-> FALSE]

RemovedWhenShrunk(removals, s) == s.r < Len(removals) /\ s.i - s.r = removals[s.r + 1]
Removed(removals, s) == s.r < Len(removals) /\ s.i = removals[s.r + 1]

\* One round: the next removal is skipped, or the smaller of the next of the base
\* and the next addition is taken.
MergeStep(base, additions, removals, s) ==
  LET more == s.i < Len(base)
      a == base[s.i + 1]
      b == additions[s.j + 1]
  IN IF s.duplicate \/ (~more /\ s.j = Len(additions)) THEN s
     ELSE IF more /\ Removed(removals, s) THEN [s EXCEPT !.i = @ + 1, !.r = @ + 1]
     ELSE IF more /\ (s.j = Len(additions) \/ a < b)
     THEN [s EXCEPT !.i = @ + 1, !.out = Append(@, a)]
     ELSE IF ~more \/ b < a THEN [s EXCEPT !.j = @ + 1, !.out = Append(@, b)]
     ELSE [s EXCEPT !.duplicate = TRUE]

Merge(base, additions, removals) ==
  Repeated(LAMBDA s : MergeStep(base, additions, removals, s), MergeStart,
           Len(base) + Len(additions))

\* sort.Search: the first of low..high - 1 whose entry is not below h, or high.
SearchStep(list, h, s) ==
  LET mid == (s.low + s.high) \div 2
  IN IF s.low >= s.high THEN s
     ELSE IF list[mid + 1] < h THEN [s EXCEPT !.low = mid + 1]
     ELSE [s EXCEPT !.high = mid]

Search(list, h) ==
  Repeated(LAMBDA s : SearchStep(list, h, s), [low |-> 0, high |-> Len(list)], Len(list)).low

Matches(list, h) ==
  LET i == Search(list, h)
  IN i < Len(list) /\ list[i + 1] = h
===========================================================================
