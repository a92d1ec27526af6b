------------------------------- MODULE Rice -------------------------------
(***************************************************************************)
(* rice.go: the decoder of Rice-delta blocks. EncodedData is the sequence  *)
(* of its bits in the order they are read, and an entry is a number.       *)
(*                                                                         *)
(* A byte has ByteBits bits, and a quotient QuotientBits at most, so that  *)
(* a block of a few bits meets every bound that one of the code meets.     *)
(***************************************************************************)
EXTENDS Integers, Sequences, Loops

CONSTANTS
  ByteBits,      \* 8 in the code
  QuotientBits   \* 29 in the code: the Rice parameter is that far from the width

ASSUME RiceAssumption == ByteBits \in Nat \ {0} /\ QuotientBits \in Nat

\* RiceBlock, of a width in bytes. first stands for as many bytes as it is wide.
RiceBlock(firstWidth, first, k, count, data) ==
  [firstWidth |-> firstWidth, first |-> first, k |-> k, count |-> count, data |-> data]

Failed(err) == [err |-> err, entries |-> << >>, at |-> 0]

\* What the reader, having consumed at bits, has of the next number.
ZeroAfter(data, at) ==
  LET zeros == {i \in at + 1..Len(data) : data[i] = 0}
  IN IF zeros = {} THEN 0 ELSE CHOOSE i \in zeros : \A j \in zeros : i <= j

\* The remainder is read from its lowest bit on, as far as there are bits.
ReadBit(data, s) ==
  IF s.at >= Len(data) THEN s
  ELSE [at |-> s.at + 1, place |-> 2 * s.place, value |-> s.value + s.place * data[s.at + 1]]
Remainder(data, at, k) ==
  Repeated(LAMBDA s : ReadBit(data, s), [at |-> at, place |-> 1, value |-> 0], k).value

\* One more entry: a quotient in unary, then a remainder of k bits.
NextAnyQuotient(bits, b, got) ==
  LET zero     == ZeroAfter(b.data, got.at)
      quotient == zero - got.at - 1
      end      == zero + b.k
      delta    == (quotient % Power2(bits - b.k)) * Power2(b.k) + Remainder(b.data, zero, b.k)
      sum      == got.entries[Len(got.entries)] + delta
  IN IF got.err # "none" THEN got
     ELSE IF zero = 0 \/ end > Len(b.data) \/ sum >= Power2(bits) \/ delta = 0
     THEN Failed("ErrInvalidRice")
     ELSE [err |-> "none", entries |-> Append(got.entries, sum), at |-> end]
NextEntry(bits, b, got) ==
  LET zero     == ZeroAfter(b.data, got.at)
      quotient == zero - got.at - 1
      end      == zero + b.k
      delta    == quotient * Power2(b.k) + Remainder(b.data, zero, b.k)
      sum      == got.entries[Len(got.entries)] + delta
  IN IF got.err # "none" THEN got
     ELSE IF zero = 0 \/ end > Len(b.data) \/ quotient >= Power2(bits - b.k)
             \/ sum >= Power2(bits) \/ delta = 0
     THEN Failed("ErrInvalidRice")
     ELSE [err |-> "none", entries |-> Append(got.entries, sum), at |-> end]

\* Only zero padding up to the end of the last byte may be left.
Padded(data, at) ==
  /\ Len(data) - at < ByteBits
  /\ \A i \in at + 1..Len(data) : data[i] = 0

ParameterFits(bits, b) ==
  /\ b.k \in bits - QuotientBits..bits - 2
  /\ b.count * (b.k + 1) <= Len(b.data)

DecodeRice(width, b, maxEntries) ==
  LET bits == width * ByteBits
      got  == Repeated(LAMBDA g : NextEntry(bits, b, g),
                       [err |-> "none", entries |-> <<b.first>>, at |-> 0], b.count)
  IN IF b.firstWidth # width THEN Failed("ErrInvalidRice")
     ELSE IF b.count + 1 > maxEntries THEN Failed("ErrDecodeLimit")
     ELSE IF b.count # 0 /\ ~ParameterFits(bits, b) THEN Failed("ErrInvalidRice")
     ELSE IF got.err = "none" /\ ~Padded(b.data, got.at) THEN Failed("ErrInvalidRice")
     ELSE got
===========================================================================
