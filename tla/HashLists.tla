---------------------------- MODULE HashLists ----------------------------
(***************************************************************************)
(* hashlist.go: immutable sorted sets of fixed-width entries, and the      *)
(* verified application of a full or partial update to one of them.        *)
(*                                                                         *)
(* An entry is a natural number: packed entries of one width compare as    *)
(* big-endian numbers, so a strictly increasing byte string of entries is  *)
(* a finite set of numbers, and "the entry at index i" is the element that *)
(* has exactly i smaller ones.                                             *)
(***************************************************************************)
EXTENDS Naturals, FiniteSets, Sequences

Widths == {4, 8, 16, 32}

HashList(w, entries) == [width |-> w, data |-> entries]

\* The zero value: a list of no valid width.
InvalidList == HashList(0, {})

Valid(l) == l.width \in Widths

\* SHA-256 of the packed entries, taken to be injective on them. Nothing is
\* packed for an empty list, so its checksum does not tell its width.
NoChecksum == << >>
Checksum(l) == IF l.data = {} THEN <<0, {}>> ELSE <<l.width, l.data>>

\* Index of entry x in the sorted list S, counted from 0.
IndexIn(S, x) == Cardinality({y \in S : y < x})

StrictlyIncreasing(s) == \A i \in 2..Len(s) : s[i-1] < s[i]

\* What is left of S when the entries at the given indices into S are removed.
Survivors(S, removals) ==
  {x \in S : \A i \in DOMAIN removals : removals[i] # IndexIn(S, x)}

\* The updates that ApplyUpdate rejects as ErrInvalidUpdate, before it
\* compares a checksum.
MalformedFull(u) == u.removals # << >> \/ u.checksum = NoChecksum

MalformedPartial(base, u) ==
  \/ ~Valid(base)
  \/ base.width # u.additions.width
  \/ \E i \in DOMAIN u.removals : u.removals[i] >= Cardinality(base.data)
  \/ ~StrictlyIncreasing(u.removals)
  \/ u.checksum = NoChecksum /\ (u.removals # << >> \/ u.additions.data # {})
  \/ Survivors(base.data, u.removals) \cap u.additions.data # {}

Malformed(base, u) ==
  \/ ~Valid(u.additions)
  \/ ~u.partial /\ MalformedFull(u)
  \/ u.partial  /\ MalformedPartial(base, u)

\* The list an update that is not malformed builds.
Merged(base, u) ==
  IF u.partial
  THEN HashList(base.width,
                Survivors(base.data, u.removals) \cup u.additions.data)
  ELSE u.additions

\* The error of ApplyUpdate(base, u), "none" when it returns Merged(base, u).
UpdateErrorPartialUnchecked(base, u) ==
  IF Malformed(base, u) THEN "ErrInvalidUpdate"
  ELSE IF ~u.partial /\ u.checksum # Checksum(Merged(base, u))
  THEN "ErrChecksumMismatch"
  ELSE "none"
UpdateError(base, u) ==
  IF Malformed(base, u) THEN "ErrInvalidUpdate"
  ELSE IF u.checksum \notin {NoChecksum, Checksum(Merged(base, u))}
  THEN "ErrChecksumMismatch"
  ELSE "none"
==========================================================================
