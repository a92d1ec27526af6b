---------------------------- MODULE Responses ----------------------------
(***************************************************************************)
(* api_decode.go: what HTTPAPI makes of the lists in a response. Every     *)
(* check of decodeList answers ErrInvalidAPIResponse, so which of them     *)
(* fails first is not told apart. A Rice block is what it decodes to, and  *)
(* whether it decodes at all.                                              *)
(***************************************************************************)
EXTENDS Services

Absent == [present |-> FALSE, decodes |-> TRUE, width |-> 0, holds |-> {}]
Block(w, ok, holds) == [present |-> TRUE, decodes |-> ok, width |-> w, holds |-> holds]

\* What a response may have wrong with one list: an entry or a removal index
\* that is well-formed but not right, or something no decoder accepts.
SilentFaults == {"data", "index"}
WireFaults == SilentFaults \cup {"none", "name", "wait", "meta", "width", "rice", "sum"}

\* The entries that the reply tells to remove from what the service had at base.
Dropped(n, base, r) ==
  IF ~r.full /\ base \in Versions(n) THEN Content[n][base] \ Content[n][r.version] ELSE {}

\* The list as the service sends it: a block, which holds one value at least, is
\* there when something is to be added, or removed.
Sent(n, base, r) ==
  LET u == Update(n, base, [r EXCEPT !.fault = IF @ \in SilentFaults THEN @ ELSE "none"])
      w == IF r.fault = "width" THEN CHOOSE v \in Widths : v # Width[n] ELSE Width[n]
  IN [right |-> r.fault # "name", version |-> u.version, partial |-> u.partial,
      wait |-> IF r.fault = "wait" THEN 0 - 1 ELSE u.wait,
      meta |-> IF r.fault = "meta" THEN "unfit" ELSE IF u.meta THEN "fits" ELSE "none",
      additions |-> IF u.additions.data = {} THEN Absent
                    ELSE Block(w, r.fault # "rice", u.additions.data),
      removals |-> IF Dropped(n, base, r) = {} /\ r.fault # "index" THEN Absent
                   ELSE Block(4, TRUE, u.removals),
      checksum |-> IF r.fault = "sum" THEN NoChecksum ELSE u.checksum]
----
(* decodeList, for list n requested at version base *)

\* decodeDuration takes an absent one for zero, and no negative one.
DurationFits(l) == l.wait >= 0

\* Metadata of both kinds, or for another width, conflicts.
MetadataFits(l) == l.meta # "unfit"

WidthFits(n, l) == l.additions.present => l.additions.width = Width[n]

Additions(n, l) == HashList(Width[n], l.additions.holds)
Removals(l) == IF l.removals.present THEN l.removals.holds ELSE << >>

\* A checksum is omitted by a partial update that changes nothing.
Summed(l) ==
  l.checksum = NoChecksum => l.partial /\ ~l.additions.present /\ ~l.removals.present

\* The DatabaseUpdate handed on. Its base is the version that was requested.
DecodedUpdate(n, base, l) ==
  [name |-> n, version |-> l.version, meta |-> l.meta = "fits", partial |-> l.partial,
   base |-> base, wait |-> l.wait, removals |-> Removals(l),
   additions |-> Additions(n, l), checksum |-> l.checksum]

\* A full replacement needs no base, so it is verified here.
FullVerified(n, base, l) ==
  l.partial \/ UpdateError(InvalidList, DecodedUpdate(n, base, l)) = "none"

DecodesAnyDuration(n, base, l) ==
  /\ l.right /\ l.version # 0
  /\ l.partial => base # 0
  /\ l.removals.present => l.partial
  /\ MetadataFits(l) /\ WidthFits(n, l)
  /\ l.additions.decodes /\ l.removals.decodes
  /\ Summed(l) /\ FullVerified(n, base, l)
Decodes(n, base, l) ==
  /\ l.right /\ l.version # 0
  /\ l.partial => base # 0
  /\ l.removals.present => l.partial
  /\ DurationFits(l) /\ MetadataFits(l) /\ WidthFits(n, l)
  /\ l.additions.decodes /\ l.removals.decodes
  /\ Summed(l) /\ FullVerified(n, base, l)
==========================================================================
