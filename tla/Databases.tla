---------------------------- MODULE Databases ----------------------------
(***************************************************************************)
(* database.go: the operations of LocalDatabase, as operators on the map   *)
(* from list names to ListState. A name that is not in the Go map has the  *)
(* zero ListState here, which is what indexing the Go map yields.          *)
(*                                                                         *)
(* Versions are opaque nonempty byte strings: positive numbers, 0 for the  *)
(* empty one. Times are positive numbers, 0 for the zero time.Time.        *)
(***************************************************************************)
EXTENDS HashLists, Integers

\* ListState. meta tells whether Metadata is non-nil.
ListState(hashes, version, sum, wait, at, meta) ==
  [hashes |-> hashes, version |-> version, checksum |-> sum,
   wait |-> wait, updatedAt |-> at, meta |-> meta]

NoList == ListState(InvalidList, 0, NoChecksum, 0, 0, FALSE)

Exists(lists, n) == lists[n] # NoList

\* ListState.NextUpdate: a scheduling constraint, not an expiry.
NextUpdate(s) == s.updatedAt + s.wait

\* LocalDatabase.Apply: the error it returns for update u received at time
\* at, the first of its checks to fail; "none" when the update is stored.
BadFieldsAnyWait(u, at) == u.version = 0 \/ at = 0
BadFields(u, at) == u.version = 0 \/ at = 0 \/ u.wait < 0

Incompatible(previous, u, at) ==
  /\ previous # NoList
  /\ \/ u.additions.width # previous.hashes.width
     \/ at < previous.updatedAt

ApplyErrorAnyBase(lists, u, at) ==
  LET previous == lists[u.name] IN
  IF BadFields(u, at) THEN "ErrInvalidUpdate"
  ELSE IF Incompatible(previous, u, at) THEN "ErrInvalidUpdate"
  ELSE UpdateError(previous.hashes, u)
ApplyError(lists, u, at) ==
  LET previous == lists[u.name] IN
  IF BadFields(u, at) THEN "ErrInvalidUpdate"
  ELSE IF previous.version # u.base THEN "ErrVersionMismatch"
  ELSE IF Incompatible(previous, u, at) THEN "ErrInvalidUpdate"
  ELSE UpdateError(previous.hashes, u)

\* The state Apply stores when it returns no error. A checksum omitted by a
\* no-change update, and metadata omitted by any, are those already stored.
AppliedStateOldSum(previous, u, at) ==
  ListState(Merged(previous.hashes, u), u.version, previous.checksum,
            u.wait, at, u.meta \/ previous.meta)
AppliedState(previous, u, at) ==
  ListState(Merged(previous.hashes, u), u.version,
            IF u.checksum = NoChecksum THEN previous.checksum ELSE u.checksum,
            u.wait, at, u.meta \/ previous.meta)

Apply(lists, u, at) ==
  IF ApplyError(lists, u, at) = "none"
  THEN [lists EXCEPT ![u.name] = AppliedState(@, u, at)]
  ELSE lists

\* LocalDatabase.Invalidate.
Invalidate(lists, n, expected) ==
  IF lists[n].version = expected THEN [lists EXCEPT ![n] = NoList] ELSE lists
==========================================================================
