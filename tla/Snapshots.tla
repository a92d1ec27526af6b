---------------------------- MODULE Snapshots ----------------------------
(***************************************************************************)
(* persistence.go: what a SnapshotStore holds and what LoadDatabase makes  *)
(* of it. The encoding is abstracted to what decoding can tell apart:      *)
(*   absent      nothing stored, Load answers fs.ErrNotExist               *)
(*   snapshot    format "gosafe5", version 1, with the given lists         *)
(*   corrupt     bytes that are not one JSON document of that shape        *)
(*   newer       another format or version whose JSON has the same shape   *)
(*   newerShape  another format or version whose JSON does not decode into *)
(*               persistedSnapshot                                         *)
(*   oversized   more bytes than MaxSnapshotBytes                          *)
(***************************************************************************)
EXTENDS Databases

Stored(kind, lists) == [kind |-> kind, lists |-> lists]

\* What a completed LocalDatabase.Save leaves in the store.
Snapshot(lists) == Stored("snapshot", lists)

NoLists(names) == [n \in names |-> NoList]

\* decodeDatabase verifies every stored list by applying it, as a full
\* replacement with its own checksum and time, to an empty database.
StoredUpdate(n, s) ==
  [name |-> n, base |-> 0, version |-> s.version, wait |-> s.wait,
   meta |-> s.meta, partial |-> FALSE, removals |-> << >>,
   additions |-> s.hashes, checksum |-> s.checksum]

Readable(lists) ==
  \A n \in DOMAIN lists : Exists(lists, n) =>
    ApplyError(NoLists(DOMAIN lists), StoredUpdate(n, lists[n]),
               lists[n].updatedAt) = "none"

Decoded(lists) ==
  [n \in DOMAIN lists |->
     IF Exists(lists, n)
     THEN AppliedState(NoList, StoredUpdate(n, lists[n]), lists[n].updatedAt)
     ELSE NoList]

\* The error LoadDatabase returns when reading the store itself succeeds. The
\* document is decoded before its format and version are looked at.
LoadError(s) ==
  CASE s.kind = "absent"    -> "ErrNotExist"
    [] s.kind = "oversized" -> "ErrSnapshotTooLarge"
    [] s.kind = "newer"     -> "ErrUnsupportedSnapshot"
    [] s.kind \in {"corrupt", "newerShape"} -> "ErrInvalidSnapshot"
    [] s.kind = "snapshot"  -> IF Readable(s.lists) THEN "none"
                               ELSE "ErrInvalidSnapshot"
==========================================================================
