-------------------------- MODULE MCWireUpdater --------------------------
(***************************************************************************)
(* Small instances of WireUpdater: two lists in one batch.                 *)
(***************************************************************************)
EXTENDS WireUpdater, MCListUpdater

MCPosition == [n \in Selected |-> IF n = "A" THEN 1 ELSE 2]

\* Every fault a list of a response may have, and an honest full replacement.
MCWireReplies ==
  {Reply(2, 2, FALSE, FALSE, f) : f \in WireFaults} \cup {Reply(1, 1, TRUE, FALSE, "none")}
MCReplies == {Carried(r) : r \in MCWireReplies}
==========================================================================
