----------------------------- MODULE Services -----------------------------
(***************************************************************************)
(* The Safe Browsing service as the code consumes it: the versions of each *)
(* list, what each holds, and the update from one version to another.      *)
(***************************************************************************)
EXTENDS Databases

CONSTANTS
  Width,    \* Width[n]: the configured HashLength of list n
  Content,  \* Content[n][v]: the entries the service has at version v
  BadHash   \* an entry that is in no version of any list

Versions(n) == DOMAIN Content[n]

Ascending(S) ==
  CHOOSE s \in [1..Cardinality(S) -> S] : StrictlyIncreasing(s)

\* The update the service sends for list n, asked for at version base, by reply
\* r. It, or an implementation of API, may get any part of it wrong.
Update(n, base, r) ==
  LET new == Content[n][r.version]
      partial == ~r.full /\ base \in Versions(n)
      old == IF partial THEN Content[n][base] ELSE {}
  IN [name |-> n, version |-> r.version, meta |-> r.meta, partial |-> partial,
      base |-> IF r.fault = "base" THEN base + 1 ELSE base,
      wait |-> IF r.fault = "wait" THEN 0 - 1 ELSE r.wait,
      removals |-> IF partial /\ r.fault = "index" THEN <<Cardinality(old)>>
                   ELSE Ascending({IndexIn(old, x) : x \in old \ new}),
      additions |->
        HashList(IF r.fault = "width" THEN CHOOSE w \in Widths : w # Width[n]
                 ELSE Width[n],
                 (new \ old) \cup (IF r.fault = "data" THEN {BadHash} ELSE {})),
      checksum |-> IF partial /\ new = old THEN NoChecksum
                   ELSE Checksum(HashList(Width[n], new))]
===========================================================================
