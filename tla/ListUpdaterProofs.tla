------------------------ MODULE ListUpdaterProofs ------------------------
(***************************************************************************)
(* Theorems about ListUpdater for every value of its constants.            *)
(*                                                                         *)
(* The invariant is built in three layers. Typed says which values the     *)
(* variables have, and that one operation runs at a time. Integrity says   *)
(* that what the updater stores is what the service has, and that what it  *)
(* believes saved is saved. Schedule says when it asks, sleeps and         *)
(* overwrites.                                                             *)
(***************************************************************************)
EXTENDS ListUpdater, TLAPS, WellFoundedInduction
----
(* The operators the actions are built from *)

Requests == UNION {[ns -> Nat] : ns \in SUBSET Selected}

\* TypeOK, with the requests in a set that only a proof can use.
Typed ==
  /\ now \in Nat \ {0}
  /\ store \in Stores
  /\ busy \in BOOLEAN
  /\ pc \in [Callers -> Labels]
  /\ mode \in [Callers -> {"update", "run"}]
  /\ canceled \in [Callers -> BOOLEAN]
  /\ request \in [Callers -> Requests]
  /\ snap \in [Callers -> Lists]
  /\ wake \in [Callers -> Nat]
  /\ initialized \in BOOLEAN
  /\ db \in Lists
  /\ status \in [Selected -> Statuses]
  /\ dirty \in BOOLEAN
  /\ saveFailures \in 0..MaxFailures
  /\ nextSave \in Nat
  /\ notBefore \in [Selected -> Nat]

HashLists_ == [width : Nat, data : SUBSET Nat]
Sums == {NoChecksum} \cup (Nat \X SUBSET Nat)

\* The shape of an update, as far as what Apply stores depends on it.
IsUpdate(u, n) ==
  /\ u.name = n
  /\ u.version \in Nat /\ u.wait \in Int /\ u.meta \in BOOLEAN
  /\ u.additions \in HashLists_
  /\ u.checksum \in Sums

LEMMA DeadlineNat == ASSUME NEW t \in Nat PROVE Deadline(t) \in Nat
BY ConfigAssumption DEF Deadline

LEMMA LaterNat ==
  ASSUME NEW s \in Nat, NEW t \in Nat
  PROVE  Later(s, t) \in Nat /\ Later(s, t) >= s /\ Later(s, t) >= t
BY DEF Later

LEMMA OneMoreType ==
  ASSUME NEW f \in 0..MaxFailures PROVE OneMore(f) \in 0..MaxFailures
BY ConfigAssumption DEF OneMore

LEMMA NoListType == NoList \in ListStates(Nat)
BY DEF NoList, ListState, ListStates, InvalidList, HashList, NoChecksum

LEMMA EmptyType == Empty \in Lists
BY NoListType DEF Empty, NoLists, Lists

LEMMA ChecksumType ==
  ASSUME NEW l \in HashLists_ PROVE Checksum(l) \in Nat \X SUBSET Nat
BY DEF Checksum, HashLists_

LEMMA FailedType ==
  ASSUME NEW s \in Statuses, NEW invalidate, NEW delay \in Nat,
         NEW after \in Nat, now \in Nat
  PROVE  Failed(s, invalidate, delay, after) \in Statuses
<1>0. now + delay \in Nat /\ now + after \in Nat
  OBVIOUS
<1>a. Later(now + delay, now + after) \in Nat
  BY <1>0, LaterNat
<1>1. Deadline(Later(now + delay, now + after)) \in Nat
  BY <1>a, DeadlineNat
<1>2. s.nextAttempt \in Nat /\ s.failures \in 0..MaxFailures /\ s.available \in BOOLEAN
  BY DEF Statuses
<1>3. Later(s.nextAttempt, Deadline(Later(now + delay, now + after))) \in Nat
  BY <1>1, <1>2, LaterNat
<1> QED BY <1>2, <1>3, OneMoreType DEF Failed, ListStatus, Statuses

\* What an update that is not malformed builds is a list of entries.
LEMMA MergedType ==
  ASSUME NEW base \in HashLists_, NEW u, u.additions \in HashLists_
  PROVE  Merged(base, u) \in HashLists_
BY DEF Merged, HashList, HashLists_, Survivors

LEMMA AppliedType ==
  ASSUME NEW previous \in ListStates(Nat), NEW n, NEW u, IsUpdate(u, n),
         u.wait >= 0, NEW at \in Nat
  PROVE  AppliedState(previous, u, at) \in ListStates(Nat)
<1>1. previous.hashes \in HashLists_ /\ previous.checksum \in Sums
      /\ previous.meta \in BOOLEAN
  BY DEF ListStates, HashLists_, Sums
<1>2. Merged(previous.hashes, u) \in HashLists_
  BY <1>1, MergedType DEF IsUpdate
<1>3. u.wait \in Nat
  BY DEF IsUpdate
<1> QED BY <1>1, <1>2, <1>3 DEF AppliedState, ListState, ListStates, IsUpdate, Sums, HashLists_

LEMMA UpdateType ==
  ASSUME NEW n \in Selected, NEW base, NEW r \in Replies
  PROVE  /\ IsUpdate(Update(n, base, r), n)
         /\ Update(n, base, r).checksum \in
              {NoChecksum, Checksum(HashList(Width[n], Content[n][r.version]))}
         /\ Update(n, base, r).version \in Versions(n)
<1> DEFINE new == Content[n][r.version]
           partial == ~r.full /\ base \in Versions(n)
           old == IF partial THEN Content[n][base] ELSE {}
           width == IF r.fault = "width" THEN CHOOSE w \in Widths : w # Width[n]
                    ELSE Width[n]
           added == (new \ old) \cup (IF r.fault = "data" THEN {BadHash} ELSE {})
<1>1. r.version \in Versions(n) /\ new \in SUBSET Nat /\ r.wait \in Nat
      /\ r.meta \in BOOLEAN /\ Versions(n) \subseteq Nat \ {0}
  BY ServiceAssumption DEF Versions
<1>2. Width[n] \in Widths
  BY ConfigAssumption
<1>3. width \in Nat
  BY <1>2 DEF Widths
<1>4. added \in SUBSET Nat
  BY <1>1, ServiceAssumption
<1>5. HashList(width, added) \in HashLists_
  BY <1>3, <1>4 DEF HashList, HashLists_
<1>6. HashList(Width[n], new) \in HashLists_
  BY <1>1, <1>2 DEF HashList, HashLists_, Widths
<1>7. Checksum(HashList(Width[n], new)) \in Nat \X SUBSET Nat
  BY <1>6, ChecksumType
<1>8. /\ Update(n, base, r).name = n
      /\ Update(n, base, r).version = r.version
      /\ Update(n, base, r).meta = r.meta
      /\ Update(n, base, r).wait = IF r.fault = "wait" THEN 0 - 1 ELSE r.wait
      /\ Update(n, base, r).additions = HashList(width, added)
      /\ Update(n, base, r).checksum = IF partial /\ new = old THEN NoChecksum
                                       ELSE Checksum(HashList(Width[n], new))
  BY DEF Update
<1> QED
  BY <1>1, <1>5, <1>7, <1>8 DEF IsUpdate, Sums

LEMMA ApplyType ==
  ASSUME NEW n \in Names, NEW u, IsUpdate(u, n), db \in Lists, now \in Nat
  PROVE  /\ ApplyError(db, u, now) = "none" => u.wait >= 0
         /\ Apply(db, u, now)[n] \in ListStates(Nat)
<1>1. ApplyError(db, u, now) = "none" => u.wait >= 0
  BY DEF ApplyError, BadFields, IsUpdate
<1>2. db[n] \in ListStates(Nat)
  BY DEF Lists
<1>3. CASE ApplyError(db, u, now) = "none"
  <2>1. AppliedState(db[n], u, now) \in ListStates(Nat)
    BY <1>1, <1>2, <1>3, AppliedType
  <2> QED BY <1>1, <1>3, <2>1 DEF Apply, IsUpdate, Lists
<1>4. CASE ApplyError(db, u, now) # "none"
  BY <1>1, <1>2, <1>4 DEF Apply
<1> QED BY <1>3, <1>4

\* A readable snapshot has only lists that may be stored.
LEMMA DecodedType ==
  ASSUME NEW lists \in [Names -> ListStates(Int)], Readable(lists)
  PROVE  Decoded(lists) \in Lists
<1> SUFFICES ASSUME NEW n \in Names PROVE Decoded(lists)[n] \in ListStates(Nat)
  BY DEF Decoded, Lists
<1>1. CASE ~Exists(lists, n)
  BY <1>1, NoListType DEF Decoded
<1>2. CASE Exists(lists, n)
  <2> DEFINE s == lists[n]  u == StoredUpdate(n, s)
  <2>1. s \in ListStates(Int)
    OBVIOUS
  <2>2. IsUpdate(u, n) /\ u.wait = s.wait
    BY <2>1 DEF IsUpdate, StoredUpdate, ListStates, HashLists_, Sums
  <2>3. ApplyError(NoLists(Names), u, s.updatedAt) = "none"
    BY <1>2 DEF Readable
  <2>4. u.wait >= 0
    BY <2>2, <2>3 DEF ApplyError, BadFields, IsUpdate
  <2>5. s.updatedAt \in Nat
    BY <2>1 DEF ListStates
  <2>6. AppliedState(NoList, u, s.updatedAt) \in ListStates(Nat)
    BY <2>2, <2>4, <2>5, NoListType, AppliedType
  <2> QED BY <1>2, <2>6 DEF Decoded
<1> QED BY <1>1, <1>2

LEMMA KeptType ==
  ASSUME NEW lists \in Lists PROVE Kept(lists) \in Lists
<1> SUFFICES ASSUME NEW n \in Names PROVE Kept(lists)[n] \in ListStates(Nat)
  BY DEF Kept, Lists
<1>1. lists[n] \in ListStates(Nat)
  BY DEF Lists
<1>2. [lists[n] EXCEPT !.meta = TRUE] \in ListStates(Nat)
  BY <1>1 DEF ListStates
<1> QED BY <1>2, NoListType DEF Kept

LEMMA RequestType ==
  ASSUME NEW q \in Requests
  PROVE  DOMAIN q \subseteq Selected /\ \A n \in DOMAIN q : q[n] \in Nat
BY DEF Requests

LEMMA NoRequestType == NoRequest \in Requests
<1>1. NoRequest \in [{} -> Nat]
  BY DEF NoRequest
<1> QED BY <1>1 DEF Requests

LEMMA LeaveType ==
  ASSUME NEW c \in Callers, Leave(c), Typed
  PROVE  /\ busy' \in BOOLEAN
         /\ pc' \in [Callers -> Labels]
         /\ mode' \in [Callers -> {"update", "run"}]
         /\ canceled' \in [Callers -> BOOLEAN]
         /\ request' \in [Callers -> Requests]
         /\ snap' \in [Callers -> Lists]
         /\ wake' \in [Callers -> Nat]
BY NoRequestType, EmptyType DEF Leave, Typed, Labels, Requests, Lists

LEMMA StoredType ==
  ASSUME NEW lists \in Lists PROVE Snapshot(lists) \in Stores
BY DEF Snapshot, Stored, Stores, Lists, ListStates

LEMMA PublishType ==
  ASSUME NEW lists \in Lists, NEW toSave, Publish(lists, toSave), Typed
  PROVE  /\ initialized' \in BOOLEAN /\ db' \in Lists
         /\ status' \in [Selected -> Statuses]
         /\ dirty' \in BOOLEAN /\ saveFailures' \in 0..MaxFailures
         /\ nextSave' \in Nat /\ notBefore' \in [Selected -> Nat]
<1>1. \A n \in Selected : NextUpdate(lists[n]) \in Nat
  BY ConfigAssumption DEF NextUpdate, Lists, ListStates
<1>2. \A n \in Selected : Deadline(NextUpdate(lists[n])) \in Nat
  BY <1>1, DeadlineNat
<1>3. status' \in [Selected -> Statuses]
  <2> SUFFICES ASSUME NEW n \in Selected PROVE status'[n] \in Statuses
    BY DEF Publish
  <2>1. status[n] \in Statuses
    BY DEF Typed, Statuses
  <2> QED BY <1>2, <2>1 DEF Publish, ListStatus, Statuses
<1> QED BY <1>2, <1>3, ConfigAssumption DEF Publish, Typed, Lists

LEMMA EndFetchType ==
  ASSUME NEW c \in Callers, EndFetch(c), Typed
  PROVE  /\ pc' \in [Callers -> Labels] /\ request' \in [Callers -> Requests]
BY NoRequestType DEF EndFetch, Goto, Typed, Labels, Requests

LEMMA ListDelayType ==
  ASSUME NEW ns, NEW delay \in ListDelays(ns)
  PROVE  \A n \in ns : delay[n] \in Nat
BY ConfigAssumption DEF ListDelays

LEMMA FetchFailedType ==
  ASSUME NEW c \in Callers, FetchFailed(c), Typed
  PROVE  Typed'
<1> DEFINE asked == DOMAIN request[c]
<1>1. PICK blamed \in Blamed(asked), after \in RetryAfters, delay \in ListDelays(asked) :
        /\ EndFetch(c)
        /\ db' = [n \in Names |-> IF n \in blamed THEN NoList ELSE db[n]]
        /\ dirty' = (dirty \/ (HasStore /\ \E n \in blamed : Exists(db, n)))
        /\ status' = [n \in Selected |->
             IF n \in asked THEN Failed(status[n], n \in blamed, delay[n], after)
             ELSE status[n]]
        /\ notBefore' = [n \in Selected |->
             IF n \in asked THEN Later(notBefore[n], Deadline(now + after))
             ELSE notBefore[n]]
  BY DEF FetchFailed, CallFailed
<1>2. after \in Nat /\ now \in Nat /\ now + after \in Nat
  BY ServiceAssumption DEF Typed
<1>3. db' \in Lists
  BY <1>1, NoListType DEF Typed, Lists
<1>4. status' \in [Selected -> Statuses]
  <2> SUFFICES ASSUME NEW n \in Selected PROVE status'[n] \in Statuses
    BY <1>1
  <2>1. status[n] \in Statuses
    BY DEF Typed, Statuses
  <2>2. \A m \in asked : delay[m] \in Nat
    BY <1>1, ListDelayType
  <2>3. ASSUME n \in asked
        PROVE  Failed(status[n], n \in blamed, delay[n], after) \in Statuses
    <3>1. delay[n] \in Nat
      BY <2>2, <2>3
    <3> QED BY <1>2, <2>1, <3>1, FailedType
  <2> QED BY <1>1, <2>1, <2>3
<1>5. notBefore' \in [Selected -> Nat]
  <2>1. Deadline(now + after) \in Nat
    BY <1>2, DeadlineNat
  <2>2. \A n \in Selected : Later(notBefore[n], Deadline(now + after)) \in Nat
    BY <2>1, LaterNat DEF Typed
  <2> QED BY <1>1, <2>2 DEF Typed
<1>6. dirty' \in BOOLEAN
  BY <1>1 DEF Typed
<1> QED
  BY <1>1, <1>3, <1>4, <1>5, <1>6, EndFetchType
  DEF EndFetch, Typed, Lists, Statuses, Requests

LEMMA FilledType ==
  ASSUME NEW n \in Names, NEW u, IsUpdate(u, n), DOMAIN u = DOMAIN StoredUpdate(n, NoList),
         db \in Lists
  PROVE  IsUpdate(Filled(u, n), n)
BY DEF IsUpdate, Filled, Lists, ListStates, StoredUpdate

LEMMA FetchReturnedType ==
  ASSUME NEW c \in Callers, FetchReturned(c, Replies), Typed
  PROVE  Typed'
<1> DEFINE asked == DOMAIN request[c]
<1>1. PICK reply \in [asked -> Replies], delay \in ListDelays(asked) :
        Received(c, [n \in asked |-> Update(n, request[c][n], reply[n])], delay)
  BY DEF FetchReturned
<1> DEFINE u(n) == Update(n, request[c][n], reply[n])
           refused == {n \in asked : Refused(n, u(n), request[c][n])}
           told(n) == ListStatus(status[n].available, status[n].failures, Told(n, u(n)))
<1>2. /\ EndFetch(c)
      /\ db' = [n \in Names |->
           IF n \in refused THEN NoList
           ELSE IF n \in asked THEN Apply(db, Filled(u(n), n), now)[n]
           ELSE db[n]]
      /\ dirty' = (\/ dirty
                   \/ HasStore /\ (\/ asked # refused
                                   \/ \E n \in refused : Exists(db, n)))
      /\ status' = [n \in Selected |->
           IF n \in refused THEN Failed(told(n), TRUE, delay[n], 0)
           ELSE IF n \in asked THEN Succeeded(told(n))
           ELSE status[n]]
      /\ notBefore' = [n \in Selected |->
           IF n \in asked /\ u(n).wait >= 0 THEN Deadline(now + u(n).wait)
           ELSE notBefore[n]]
  BY <1>1 DEF Received
<1>3. request[c] \in Requests /\ now \in Nat /\ db \in Lists
  BY DEF Typed, Requests, Lists
<1>4. asked \subseteq Selected /\ asked \subseteq Names
  BY <1>3, RequestType, ConfigAssumption
<1>5. ASSUME NEW n \in asked PROVE IsUpdate(u(n), n) /\ IsUpdate(Filled(u(n), n), n)
  <2>1. n \in Selected /\ n \in Names /\ reply[n] \in Replies
    BY <1>4
  <2>2. IsUpdate(u(n), n)
    BY <2>1, UpdateType
  <2>3. DOMAIN u(n) = DOMAIN StoredUpdate(n, NoList)
    BY DEF Update, StoredUpdate
  <2> QED BY <1>3, <2>1, <2>2, <2>3, FilledType
<1>6. db' \in Lists
  <2> SUFFICES ASSUME NEW n \in Names PROVE db'[n] \in ListStates(Nat)
    BY <1>2 DEF Lists
  <2>1. n \in asked => Apply(db, Filled(u(n), n), now)[n] \in ListStates(Nat)
    BY <1>3, <1>5, ApplyType
  <2> QED BY <1>2, <1>3, <2>1, NoListType DEF Lists
<1>7. ASSUME NEW n \in asked, u(n).wait >= 0 PROVE Deadline(now + u(n).wait) \in Nat
  <2>1. now + u(n).wait \in Nat
    BY <1>3, <1>5, <1>7 DEF IsUpdate
  <2> QED BY <2>1, DeadlineNat
<1>8. status' \in [Selected -> Statuses]
  <2> SUFFICES ASSUME NEW n \in Selected PROVE status'[n] \in Statuses
    BY <1>2
  <2>1. status[n] \in Statuses
    BY DEF Typed, Statuses
  <2>2. CASE n \in asked
    <3>1. Told(n, u(n)) \in Nat
      BY <1>7, <2>1, <2>2 DEF Told, Statuses
    <3>2. told(n) \in Statuses
      BY <2>1, <3>1 DEF ListStatus, Statuses
    <3>3. delay[n] \in Nat
      BY <2>2, ListDelayType
    <3>4. Failed(told(n), TRUE, delay[n], 0) \in Statuses
      BY <1>3, <3>2, <3>3, FailedType
    <3>5. Succeeded(told(n)) \in Statuses
      BY <3>2, ConfigAssumption DEF Succeeded, ListStatus, Statuses
    <3> QED BY <1>2, <2>2, <3>4, <3>5
  <2>3. CASE n \notin asked
    BY <1>2, <2>1, <2>3
  <2> QED BY <2>2, <2>3
<1>9. notBefore' \in [Selected -> Nat]
  BY <1>2, <1>7 DEF Typed
<1>10. dirty' \in BOOLEAN
  BY <1>2, ConfigAssumption DEF Typed
<1> QED
  BY <1>2, <1>6, <1>8, <1>9, <1>10, EndFetchType
  DEF EndFetch, Typed, Lists, Statuses, Requests

LEMMA EarliestNat ==
  ASSUME NEW T \in SUBSET Nat, T # {}
  PROVE  Earliest(T) \in T /\ \A t \in T : Earliest(T) <= t
<1>1. \E t \in T : \A s \in T : ~(<<s, t>> \in OpToRel(<, Nat))
  BY NatLessThanWellFounded, WFMin
<1>2. PICK t \in T : \A s \in T : ~(<<s, t>> \in OpToRel(<, Nat))
  BY <1>1
<1>3. \A s \in T : s \in Nat /\ t \in Nat /\ ~(s < t)
  BY <1>2 DEF OpToRel
<1>4. \A s \in T : t <= s
  BY <1>3
<1> QED BY <1>4 DEF Earliest

LEMMA NextWakeType ==
  ASSUME Typed
  PROVE  /\ NextWake \in Nat
         /\ \/ NextWake = now
            \/ /\ \A n \in Selected : NextWake <= status[n].nextAttempt
               /\ dirty => NextWake <= nextSave
<1> DEFINE T == {status[n].nextAttempt : n \in Selected}
                \cup (IF dirty THEN {nextSave} ELSE {})
<1>a. \A n \in Selected : status[n].nextAttempt \in Nat
  BY DEF Typed, Statuses
<1>b. PICK m \in Selected : TRUE
  BY ConfigAssumption
<1>c. status[m].nextAttempt \in T
  OBVIOUS
<1>d. \A t \in T : t \in Nat
  BY <1>a DEF Typed
<1>1. T \in SUBSET Nat /\ T # {} /\ now \in Nat
  BY <1>c, <1>d DEF Typed
<1>2. Earliest(T) \in Nat /\ \A t \in T : Earliest(T) <= t
  BY <1>1, EarliestNat
<1>3. NextWake = Later(now, Earliest(T))
  BY DEF NextWake
<1> HIDE DEF T
<1>4. NextWake \in Nat /\ (NextWake = now \/ NextWake = Earliest(T))
  BY <1>1, <1>2, <1>3 DEF Later
<1>5. /\ \A n \in Selected : status[n].nextAttempt \in T
      /\ dirty => nextSave \in T
  BY DEF T
<1> QED BY <1>2, <1>4, <1>5
----
(* Type correctness *)

LEMMA ZeroedType == Zeroed \in [Selected -> Statuses]
BY ConfigAssumption DEF Zeroed, ListStatus, Statuses

\* The values of the callers' locals while none is inside.
LEMMA LocalsType ==
  /\ [c \in Callers |-> "idle"] \in [Callers -> Labels]
  /\ [c \in Callers |-> "update"] \in [Callers -> {"update", "run"}]
  /\ [c \in Callers |-> FALSE] \in [Callers -> BOOLEAN]
  /\ [c \in Callers |-> NoRequest] \in [Callers -> Requests]
  /\ [c \in Callers |-> Empty] \in [Callers -> Lists]
  /\ [c \in Callers |-> 0] \in [Callers -> Nat]
  /\ [n \in Selected |-> 0] \in [Selected -> Nat]
BY NoRequestType, EmptyType DEF Labels

LEMMA TypeInit == Init => Typed
<1> SUFFICES ASSUME Init PROVE Typed
  OBVIOUS
<1>1. store \in Stores
  BY StoreAssumption DEF Init
<1>2. now \in Nat \ {0} /\ saveFailures \in 0..MaxFailures /\ nextSave \in Nat
  BY ConfigAssumption DEF Init
<1> QED
  BY <1>1, <1>2, LocalsType, ZeroedType, EmptyType DEF Init, Typed

LEMMA TypeStep ==
  ASSUME NEW c \in Callers, Typed, Step(c) PROVE Typed'
<1>1. CASE AlreadyInitialized(c)
  BY <1>1 DEF AlreadyInitialized, Goto, Typed, Labels, memory
<1>2. CASE LoadFailed(c)
  BY <1>2, LeaveType DEF LoadFailed, Typed, memory
<1>3. CASE Initialize(c)
  <2>1. \E lists \in Lists : \E toSave : Publish(lists, toSave)
    <3>1. CASE Publish(Empty, FALSE) \/ Publish(Empty, TRUE)
      BY <3>1, EmptyType
    <3>2. CASE LoadError(store) = "none" /\ Publish(Kept(Decoded(store.lists)),
                 Kept(Decoded(store.lists)) # Decoded(store.lists))
      <4>1. store \in Stores
        BY DEF Typed
      <4>2. Readable(store.lists) /\ store.lists \in [Names -> ListStates(Int)]
        BY <3>2, <4>1 DEF LoadError, Stores
      <4>3. Kept(Decoded(store.lists)) \in Lists
        BY <4>2, DecodedType, KeptType
      <4> QED BY <3>2, <4>3
    <3> QED BY <1>3, <3>1, <3>2 DEF Initialize, LoadErrors
  <2>2. PICK lists \in Lists : \E toSave : Publish(lists, toSave)
    BY <2>1
  <2>3. PICK toSave : Publish(lists, toSave)
    BY <2>2
  <2> QED
    BY <1>3, <2>3, PublishType
    DEF Initialize, Goto, Typed, Labels
<1>4. CASE BeginCycle(c)
  <2> DEFINE due == {n \in Selected : now >= status[n].nextAttempt}
  <2>1. [n \in due |-> db[n].version] \in Requests
    <3>1. \A n \in due : db[n].version \in Nat
      BY ConfigAssumption DEF Typed, Lists, ListStates
    <3>2. [n \in due |-> db[n].version] \in [due -> Nat] /\ due \in SUBSET Selected
      BY <3>1
    <3> QED BY <3>2 DEF Requests
  <2> QED
    BY <1>4, <2>1 DEF BeginCycle, Goto, Typed, Labels, memory
<1>5. CASE FetchFailed(c)
  BY <1>5, FetchFailedType
<1>6. CASE FetchReturned(c, Replies)
  BY <1>6, FetchReturnedType
<1>7. CASE BeginSave(c)
  <2>1. snap' \in [Callers -> Lists]
    BY <1>7, EmptyType DEF BeginSave, Typed
  <2>2. pc' \in [Callers -> Labels]
    BY <1>7 DEF BeginSave, Goto, Typed, Labels
  <2> QED BY <1>7, <2>1, <2>2 DEF BeginSave, Typed, memory
<1>8. ASSUME EndSave(c) PROVE pc' \in [Callers -> Labels] /\ snap' \in [Callers -> Lists]
  BY <1>8, EmptyType DEF EndSave, Goto, Typed, Labels
<1>9. Snapshot(snap[c]) \in Stores
  BY StoredType DEF Typed
<1>10. CASE Saved(c)
  <2>1. saveFailures' \in 0..MaxFailures /\ nextSave' \in Nat
    BY <1>10, ConfigAssumption DEF Saved
  <2>2. dirty' \in BOOLEAN
    BY <1>10, Zenon DEF Saved
  <2> QED BY <1>8, <1>9, <1>10, <2>1, <2>2 DEF Saved, EndSave, Typed
<1>11. CASE SaveFailed(c)
  <2>1. saveFailures' \in 0..MaxFailures
    BY <1>11, OneMoreType DEF SaveFailed, Typed
  <2>2. PICK delay \in Delays(saveFailures') : nextSave' = Deadline(now + delay)
    BY <1>11 DEF SaveFailed
  <2>3. now + delay \in Nat
    BY ConfigAssumption DEF Delays, Typed
  <2>4. nextSave' \in Nat
    BY <2>2, <2>3, DeadlineNat
  <2> QED
    BY <1>8, <1>9, <1>11, <2>1, <2>4 DEF SaveFailed, EndSave, Typed
<1>12. CASE UpdateReturns(c)
  BY <1>12, LeaveType DEF UpdateReturns, Typed, memory
<1>13. CASE Sleep(c)
  BY <1>13, NextWakeType DEF Sleep, Goto, Typed, Labels, memory
<1>14. CASE WakeUp(c)
  BY <1>14 DEF WakeUp, Goto, Typed, Labels, memory
<1>15. CASE Abort(c)
  BY <1>9, <1>15, LeaveType DEF Abort, Typed, memory
<1> QED
  BY <1>1, <1>2, <1>3, <1>4, <1>5, <1>6, <1>7, <1>10, <1>11, <1>12, <1>13,
     <1>14, <1>15 DEF Step

LEMMA TypeNext == Typed /\ [Next]_vars => Typed'
<1> SUFFICES ASSUME Typed, [Next]_vars PROVE Typed'
  OBVIOUS
<1>1. CASE Tick
  BY <1>1 DEF Tick, Typed, locals, memory
<1>2. CASE Crash
  <2>1. store' \in Stores
    <3>1. \A c \in Callers : Snapshot(snap[c]) \in Stores
      BY StoredType DEF Typed
    <3> QED BY <1>2, <3>1 DEF Crash, Typed
  <2>2. /\ now' \in Nat \ {0}
        /\ saveFailures' \in 0..MaxFailures /\ nextSave' \in Nat
    BY <1>2, ConfigAssumption DEF Crash, Typed
  <2> QED
    BY <1>2, <2>1, <2>2, LocalsType, ZeroedType, EmptyType DEF Crash, Typed
<1>3. ASSUME NEW c \in Callers, Step(c) PROVE Typed'
  BY <1>3, TypeStep
<1>4. ASSUME NEW c \in Callers, Cancel(c) PROVE Typed'
  BY <1>4 DEF Cancel, Typed, memory
<1>5. ASSUME NEW c \in Callers, NEW m \in {"update", "run"}, Enter(c, m) PROVE Typed'
  BY <1>5 DEF Enter, Goto, Typed, Labels, memory
<1>6. CASE UNCHANGED vars
  BY <1>6 DEF vars, locals, memory, Typed
<1> QED BY <1>1, <1>2, <1>3, <1>4, <1>5, <1>6 DEF Next

LEMMA TypedAlways == Spec => []Typed
BY TypeInit, TypeNext, PTL DEF Spec

\* Every reachable state of the updater is well typed, whatever it is asked,
\* answered and interrupted by.
THEOREM TypeCorrect == Spec => []TypeOK
<1>1. Typed => TypeOK
  <2> SUFFICES ASSUME Typed PROVE TypeOK
    OBVIOUS
  <2>1. \A c \in Callers : /\ DOMAIN request[c] \subseteq Selected
                           /\ \A n \in DOMAIN request[c] : request[c][n] \in Nat
    BY RequestType DEF Typed
  <2> QED BY <2>1 DEF Typed, TypeOK
<1> QED BY <1>1, TypedAlways, PTL
----
(* Mutual exclusion *)

\* A step of a caller that is inside moves that caller alone; the caller that
\* leaves clears busy.
LEMMA StepMoves ==
  ASSUME NEW c \in Callers, Typed, Step(c)
  PROVE  /\ pc[c] # "idle"
         /\ \A d \in Callers : d # c => pc'[d] = pc[d]
         /\ \/ pc'[c] = "idle" /\ busy' = FALSE
            \/ pc'[c] # "idle" /\ busy' = busy
<1> USE DEF Typed, Goto
<1>1. ASSUME Leave(c) PROVE /\ \A d \in Callers : d # c => pc'[d] = pc[d]
                            /\ pc'[c] = "idle" /\ busy' = FALSE
  BY <1>1 DEF Leave
<1>2. CASE LoadFailed(c) \/ UpdateReturns(c) \/ Abort(c)
  BY <1>1, <1>2 DEF LoadFailed, UpdateReturns, Abort
<1>3. CASE AlreadyInitialized(c) \/ Initialize(c)
  BY <1>3 DEF AlreadyInitialized, Initialize
<1>4. CASE BeginCycle(c)
  BY <1>4 DEF BeginCycle
<1>5. CASE FetchFailed(c) \/ FetchReturned(c, Replies)
  <2>1. EndFetch(c)
    BY <1>5 DEF FetchFailed, CallFailed, FetchReturned, Received
  <2> QED BY <2>1 DEF EndFetch
<1>6. CASE BeginSave(c)
  BY <1>6 DEF BeginSave
<1>7. CASE Saved(c) \/ SaveFailed(c)
  BY <1>7 DEF Saved, SaveFailed, EndSave
<1>8. CASE Sleep(c) \/ WakeUp(c)
  BY <1>8 DEF Sleep, WakeUp
<1> QED BY <1>2, <1>3, <1>4, <1>5, <1>6, <1>7, <1>8 DEF Step

LEMMA ExclusionNext ==
  ASSUME Typed, OneOperation, [Next]_vars PROVE OneOperation'
<1> USE DEF OneOperation, Typed
<1>1. CASE Tick
  BY <1>1 DEF Tick, locals
<1>2. CASE Crash
  BY <1>2 DEF Crash
<1>3. ASSUME NEW c \in Callers, Step(c) PROVE OneOperation'
  <2>1. \A d \in Callers : d # c => pc[d] = "idle"
    BY <1>3, StepMoves
  <2>2. \A d \in Callers : d # c => pc'[d] = "idle"
    BY <1>3, <2>1, StepMoves
  <2>3. busy
    BY <1>3, StepMoves
  <2> QED BY <1>3, <2>2, <2>3, StepMoves
<1>4. ASSUME NEW c \in Callers, Cancel(c) PROVE OneOperation'
  BY <1>4 DEF Cancel
<1>5. ASSUME NEW c \in Callers, NEW m \in {"update", "run"}, Enter(c, m)
      PROVE  OneOperation'
  BY <1>5 DEF Enter, Goto
<1>6. CASE UNCHANGED vars
  BY <1>6 DEF vars, locals
<1> QED BY <1>1, <1>2, <1>3, <1>4, <1>5, <1>6 DEF Next

\* At most one Update or Run is inside, and busy says whether one is: every
\* way to return leaves, and no other way clears the flag.
THEOREM Exclusion == Spec => []OneOperation
<1>1. Init => OneOperation
  BY DEF Init, OneOperation
<1>2. Typed /\ OneOperation /\ [Next]_vars => OneOperation'
  BY ExclusionNext
<1> QED BY <1>1, <1>2, TypedAlways, PTL DEF Spec
----
(* Integrity: the invariant *)

\* A list the service once served, verified and stored.
Genuine(n, s) ==
  /\ s.hashes = HashList(Width[n], Content[n][s.version])
  /\ s.version \in Versions(n)
  /\ s.checksum = Checksum(s.hashes)
  /\ s.updatedAt # 0
  /\ s.meta

AllGenuine(lists) ==
  \A n \in Names : lists[n] = NoList \/ (n \in Selected /\ Genuine(n, lists[n]))

\* Whatever else is in the store, what passes verification is genuine.
StoreHonest ==
  store.kind = "snapshot" /\ Readable(store.lists) =>
    \A n \in Selected : store.lists[n].hashes.width = Width[n] =>
      /\ store.lists[n].version \in Versions(n)
      /\ store.lists[n].hashes.data = Content[n][store.lists[n].version]

\* Nothing happens before initialize has published a database.
Untouched ==
  ~initialized => /\ db = Empty /\ ~dirty
                  /\ \A n \in Selected : ~status[n].available
                  /\ \A c \in Callers : pc[c] \in {"idle", "init"}

AvailableMeansStored ==
  initialized => \A n \in Selected : status[n].available <=> db[n] # NoList

\* The database does not change while it is being saved.
SnapIsCurrent == \A c \in Callers : pc[c] = "save" => HasStore /\ snap[c] = db

CleanIsSaved ==
  HasStore /\ initialized /\ ~dirty =>
    \/ store.kind = "absent" /\ db = Empty
    \/ store.kind = "snapshot" /\ store.lists = db

DirtyNeedsStore == dirty => HasStore

Integrity ==
  /\ Typed /\ OneOperation
  /\ AllGenuine(db) /\ StoreHonest
  /\ Untouched /\ AvailableMeansStored
  /\ SnapIsCurrent /\ CleanIsSaved /\ DirtyNeedsStore
----
(* A genuine list survives a save and a restart *)

LEMMA ChecksumInjective ==
  ASSUME NEW w \in Widths, NEW d, NEW e,
         Checksum(HashList(w, d)) = Checksum(HashList(w, e))
  PROVE  d = e
BY DEF Checksum, HashList, Widths

LEMMA GenuineExists ==
  ASSUME NEW n \in Selected, NEW s, Genuine(n, s) PROVE s # NoList
BY ServiceAssumption DEF Genuine, NoList, ListState

LEMMA GenuineReadable ==
  ASSUME NEW lists \in Lists, AllGenuine(lists)
  PROVE  Readable(lists)
<1> SUFFICES ASSUME NEW n \in Names, lists[n] # NoList
             PROVE  ApplyError(NoLists(Names), StoredUpdate(n, lists[n]),
                               lists[n].updatedAt) = "none"
  BY DEF Readable, Exists, Lists
<1> DEFINE s == lists[n]  u == StoredUpdate(n, s)
<1>1. n \in Selected /\ Genuine(n, s) /\ s \in ListStates(Nat)
  BY DEF AllGenuine, Lists
<1>2. Width[n] \in Widths /\ Versions(n) \subseteq Nat \ {0}
  BY <1>1, ConfigAssumption, ServiceAssumption
<1>3. ~BadFields(u, s.updatedAt)
  BY <1>1, <1>2 DEF BadFields, StoredUpdate, Genuine, ListStates
<1>4. NoLists(Names)[u.name] = NoList
  BY DEF NoLists, StoredUpdate
<1>5. NoList.version = u.base /\ ~Incompatible(NoList, u, s.updatedAt)
  BY DEF NoList, ListState, StoredUpdate, Incompatible
<1>6. ~Malformed(NoList.hashes, u)
  <2>1. Valid(u.additions)
    BY <1>1, <1>2 DEF Valid, Genuine, StoredUpdate, HashList
  <2>2. u.checksum # NoChecksum
    BY <1>1 DEF Genuine, StoredUpdate, Checksum, NoChecksum
  <2> QED BY <2>1, <2>2 DEF Malformed, MalformedFull, StoredUpdate
<1>7. Checksum(Merged(NoList.hashes, u)) = u.checksum
  BY <1>1 DEF Merged, StoredUpdate, Genuine
<1> QED BY <1>3, <1>4, <1>5, <1>6, <1>7 DEF ApplyError, UpdateError

\* Decoding changes nothing in a snapshot that it accepts.
LEMMA ReadableDecoded ==
  ASSUME NEW lists \in [Names -> ListStates(Int)], Readable(lists)
  PROVE  Decoded(lists) = lists
<1> SUFFICES ASSUME NEW n \in Names PROVE Decoded(lists)[n] = lists[n]
  BY DEF Decoded
<1>1. CASE ~Exists(lists, n)
  BY <1>1 DEF Decoded, Exists
<1>2. CASE Exists(lists, n)
  <2> DEFINE s == lists[n]  u == StoredUpdate(n, s)
  <2>1. s \in ListStates(Int) /\ ApplyError(NoLists(Names), u, s.updatedAt) = "none"
    BY <1>2 DEF Readable
  <2>2. s.checksum # NoChecksum
    BY <2>1 DEF ApplyError, UpdateError, Malformed, MalformedFull, StoredUpdate
  <2>3. AppliedState(NoList, u, s.updatedAt) = s
    BY <2>1, <2>2
    DEF AppliedState, ListState, StoredUpdate, Merged, ListStates, NoList
  <2> QED BY <1>2, <2>3 DEF Decoded
<1> QED BY <1>1, <1>2

LEMMA GenuineKept ==
  ASSUME NEW lists \in Lists, AllGenuine(lists)
  PROVE  Kept(lists) = lists
<1> SUFFICES ASSUME NEW n \in Names PROVE Kept(lists)[n] = lists[n]
  BY DEF Kept, Lists
<1>1. CASE lists[n] = NoList
  <2>1. n \in Selected => Width[n] # 0
    BY ConfigAssumption DEF Widths
  <2> QED BY <1>1, <2>1 DEF Kept, NoList, ListState, InvalidList, HashList
<1>2. CASE lists[n] # NoList
  <2>1. n \in Selected /\ Genuine(n, lists[n]) /\ lists[n] \in ListStates(Nat)
    BY <1>2 DEF AllGenuine, Lists
  <2>2. lists[n].hashes.width = Width[n] /\ lists[n].meta
    BY <2>1 DEF Genuine, HashList
  <2>3. [lists[n] EXCEPT !.meta = TRUE] = lists[n]
    BY <2>1, <2>2 DEF ListStates
  <2> QED BY <2>1, <2>2, <2>3 DEF Kept
<1> QED BY <1>1, <1>2

\* What a genuine database saves, a restart restores in full.
LEMMA GenuineRestores ==
  ASSUME NEW lists \in Lists, AllGenuine(lists) PROVE Restores(lists)
<1>1. lists \in [Names -> ListStates(Int)]
  BY DEF Lists, ListStates
<1> QED BY <1>1, GenuineReadable, ReadableDecoded, GenuineKept DEF Restores

\* Loading keeps genuine lists only.
LEMMA KeptGenuine ==
  ASSUME store \in Stores, StoreHonest, LoadError(store) = "none"
  PROVE  AllGenuine(Kept(Decoded(store.lists)))
<1> DEFINE lists == store.lists  kept == Kept(Decoded(lists))
<1>1. store.kind = "snapshot" /\ Readable(lists) /\ lists \in [Names -> ListStates(Int)]
  BY DEF LoadError, Stores
<1> SUFFICES ASSUME NEW n \in Names, kept[n] # NoList
             PROVE  n \in Selected /\ Genuine(n, kept[n])
  BY DEF AllGenuine
<1> DEFINE s == lists[n]  u == StoredUpdate(n, s)  d == Decoded(lists)[n]
<1>2. n \in Selected /\ d.hashes.width = Width[n] /\ kept[n] = [d EXCEPT !.meta = TRUE]
  BY DEF Kept
<1>3. Width[n] \in Widths /\ Width[n] # 0
  BY <1>2, ConfigAssumption DEF Widths
<1>4. Exists(lists, n) /\ d = AppliedState(NoList, u, s.updatedAt)
  BY <1>1, <1>2, <1>3 DEF Decoded, NoList, ListState, InvalidList, HashList
<1>5. s \in ListStates(Int) /\ ApplyError(NoLists(Names), u, s.updatedAt) = "none"
  BY <1>1, <1>4 DEF Readable
<1>6. s.updatedAt # 0
  BY <1>5 DEF ApplyError, BadFields
<1>7. NoLists(Names)[u.name] = NoList
  BY DEF NoLists, StoredUpdate
<1>8. UpdateError(NoList.hashes, u) = "none"
  BY <1>5, <1>7 DEF ApplyError
<1>9. s.checksum # NoChecksum /\ s.checksum = Checksum(s.hashes)
  BY <1>8 DEF UpdateError, Malformed, MalformedFull, Merged, StoredUpdate
<1>10. /\ d.hashes = s.hashes /\ d.version = s.version
       /\ d.checksum = s.checksum /\ d.updatedAt = s.updatedAt
  BY <1>4, <1>9 DEF AppliedState, ListState, StoredUpdate, Merged
<1>11. s.version \in Versions(n) /\ s.hashes.data = Content[n][s.version]
  BY <1>1, <1>2, <1>10 DEF StoreHonest
<1>12. s.hashes = HashList(Width[n], Content[n][s.version])
  BY <1>2, <1>5, <1>10, <1>11 DEF ListStates, HashList
<1>13. kept[n].hashes = d.hashes /\ kept[n].version = d.version
       /\ kept[n].checksum = d.checksum /\ kept[n].updatedAt = d.updatedAt
       /\ kept[n].meta
  BY <1>2, <1>4 DEF AppliedState, ListState
<1> QED BY <1>2, <1>6, <1>9, <1>10, <1>11, <1>12, <1>13 DEF Genuine
----
(* Applying an answer keeps a list genuine, whatever is wrong with it *)

LEMMA FilledFields ==
  ASSUME NEW n \in Selected, NEW base, NEW r
  PROVE  LET u == Update(n, base, r)  f == Filled(u, n) IN
         /\ f.name = n
         /\ f.base = u.base /\ f.version = u.version /\ f.wait = u.wait
         /\ f.partial = u.partial /\ f.removals = u.removals
         /\ f.additions = u.additions /\ f.checksum = u.checksum
         /\ f.meta = (u.meta \/ ~db[n].meta)
BY DEF Filled, Update

LEMMA UpdateFields ==
  ASSUME NEW n \in Selected, NEW base, NEW r
  PROVE  Update(n, base, r).name = n /\ Update(n, base, r).version = r.version
BY DEF Update

LEMMA FilledError ==
  ASSUME NEW n \in Selected, NEW base, NEW r
  PROVE  ApplyError(db, Filled(Update(n, base, r), n), now)
           = ApplyError(db, Update(n, base, r), now)
<1> DEFINE u == Update(n, base, r)  f == Filled(u, n)
<1>1. /\ f.name = n /\ u.name = n
      /\ f.base = u.base /\ f.version = u.version /\ f.wait = u.wait
      /\ f.partial = u.partial /\ f.removals = u.removals
      /\ f.additions = u.additions /\ f.checksum = u.checksum
  BY FilledFields, UpdateFields
<1> HIDE DEF u, f
<1>2. Malformed(db[n].hashes, f) = Malformed(db[n].hashes, u)
  BY <1>1 DEF Malformed, MalformedFull, MalformedPartial
<1>3. Merged(db[n].hashes, f) = Merged(db[n].hashes, u)
  BY <1>1 DEF Merged
<1>4. UpdateError(db[n].hashes, f) = UpdateError(db[n].hashes, u)
  BY <1>1, <1>2, <1>3 DEF UpdateError
<1>5. BadFields(f, now) = BadFields(u, now)
      /\ Incompatible(db[n], f, now) = Incompatible(db[n], u, now)
  BY <1>1 DEF BadFields, Incompatible
<1>6. ApplyError(db, f, now) = ApplyError(db, u, now)
  BY <1>1, <1>4, <1>5 DEF ApplyError
<1> QED BY <1>6 DEF f, u

LEMMA AppliedGenuine ==
  ASSUME Typed, AllGenuine(db), NEW n \in Selected, NEW sent, NEW r \in Replies,
         ~Refused(n, Update(n, sent, r), sent)
  PROVE  Genuine(n, Apply(db, Filled(Update(n, sent, r), n), now)[n])
<1> DEFINE u == Update(n, sent, r)  f == Filled(u, n)  p == db[n]
           new == Content[n][r.version]
           got == AppliedState(p, f, now)
<1>1. n \in Names /\ p \in ListStates(Nat) /\ now # 0 /\ Width[n] \in Widths
  BY ConfigAssumption DEF Typed, Lists
<1>2. /\ u.base = sent /\ u.additions.width = Width[n] /\ ApplyError(db, u, now) = "none"
  BY DEF Refused
<1>3. /\ f.name = n /\ u.name = n
      /\ f.base = u.base /\ f.version = u.version /\ f.wait = u.wait
      /\ f.partial = u.partial /\ f.removals = u.removals
      /\ f.additions = u.additions /\ f.checksum = u.checksum
      /\ f.meta = (u.meta \/ ~p.meta)
      /\ u.version = r.version
  BY FilledFields, UpdateFields
<1>4. ApplyError(db, f, now) = "none"
  BY <1>2, FilledError
<1>5. Apply(db, f, now)[n] = got
  BY <1>1, <1>3, <1>4 DEF Apply, Typed, Lists
<1>6. /\ got.hashes = Merged(p.hashes, f) /\ got.version = r.version
      /\ got.checksum = IF u.checksum = NoChecksum THEN p.checksum ELSE u.checksum
      /\ got.updatedAt = now /\ got.meta = (f.meta \/ p.meta)
  BY <1>3 DEF AppliedState, ListState
<1>7. r.version \in Versions(n) /\ u.meta \in BOOLEAN
  BY <1>3, UpdateType DEF IsUpdate
<1>8. p.version = sent /\ UpdateError(p.hashes, f) = "none"
  BY <1>2, <1>3, <1>4 DEF ApplyError
<1>9. /\ ~Malformed(p.hashes, f)
      /\ u.checksum \in {NoChecksum, Checksum(Merged(p.hashes, f))}
  BY <1>3, <1>8 DEF UpdateError
<1>10. Merged(p.hashes, f) = HashList(Width[n], Merged(p.hashes, f).data)
  <2>1. f.additions \in HashLists_
    BY <1>3, UpdateType DEF IsUpdate
  <2>2. p.hashes.width = Width[n] \/ ~f.partial
    BY <1>2, <1>3, <1>9 DEF Malformed, MalformedPartial
  <2> QED BY <1>2, <1>3, <2>1, <2>2 DEF Merged, HashList, HashLists_
<1>11. CASE u.checksum # NoChecksum
  <2>1. Checksum(HashList(Width[n], Merged(p.hashes, f).data))
          = Checksum(HashList(Width[n], new))
    BY <1>9, <1>10, <1>11, UpdateType
  <2>2. Merged(p.hashes, f).data = new
    BY <1>1, <2>1, ChecksumInjective
  <2>3. got.hashes = HashList(Width[n], new) /\ got.checksum = Checksum(got.hashes)
    BY <1>6, <1>9, <1>10, <1>11, <2>2
  <2> QED BY <1>1, <1>5, <1>6, <1>7, <1>3, <2>3 DEF Genuine, ListStates
<1>12. CASE u.checksum = NoChecksum
  \* Only an update that changes nothing may omit the checksum.
  <2>1. u.partial /\ sent \in Versions(n) /\ new = Content[n][sent]
    BY <1>12 DEF Update, Checksum, NoChecksum
  <2>2. /\ p.hashes.width = Width[n] /\ f.removals = << >>
        /\ f.additions.data = {}
    BY <1>2, <1>3, <1>9, <1>12, <2>1 DEF Malformed, MalformedPartial
  <2>3. Survivors(p.hashes.data, f.removals) = p.hashes.data
    BY <2>2 DEF Survivors
  <2>4. Merged(p.hashes, f) = HashList(p.hashes.width, p.hashes.data)
    BY <1>3, <2>1, <2>2, <2>3 DEF Merged
  <2>5. p.hashes = HashList(p.hashes.width, p.hashes.data)
    BY <1>1 DEF HashList, ListStates
  <2>6. p # NoList
    BY <1>1, <2>2 DEF NoList, ListState, InvalidList, HashList, Widths
  <2>7. Genuine(n, p)
    BY <1>1, <2>6 DEF AllGenuine
  <2>8. got.hashes = HashList(Width[n], new) /\ got.checksum = Checksum(got.hashes)
    BY <1>6, <1>8, <1>12, <2>1, <2>4, <2>5, <2>7 DEF Genuine
  <2> QED BY <1>1, <1>3, <1>5, <1>6, <1>7, <2>8 DEF Genuine, ListStates
<1> QED BY <1>11, <1>12
----
(* Integrity holds at first and every step keeps it *)

LEMMA EmptyGenuine == AllGenuine(Empty)
BY DEF AllGenuine, Empty, NoLists

LEMMA IntegrityInit == Init => Integrity
<1> SUFFICES ASSUME Init PROVE Integrity
  OBVIOUS
<1>1. Typed
  BY TypeInit
<1>2. AllGenuine(db)
  BY EmptyGenuine DEF Init
<1>3. StoreHonest
  BY StoreAssumption DEF Init, StoreHonest
<1>4. Untouched
  BY DEF Init, Untouched, Zeroed, ListStatus
<1> QED
  BY <1>1, <1>2, <1>3, <1>4
  DEF Init, Integrity, OneOperation, AvailableMeansStored, SnapIsCurrent,
      CleanIsSaved, DirtyNeedsStore

\* The callers other than the one that steps are outside, before and after.
LEMMA Alone ==
  ASSUME NEW c \in Callers, Typed, OneOperation, Step(c),
         NEW d \in Callers, d # c
  PROVE  pc[d] = "idle" /\ pc'[d] = "idle"
BY StepMoves DEF OneOperation

\* Saving genuine lists leaves an honest store.
LEMMA SavedHonest ==
  ASSUME db \in Lists, AllGenuine(db), store' = Snapshot(db) PROVE StoreHonest'
<1> SUFFICES ASSUME NEW n \in Selected, db[n].hashes.width = Width[n]
             PROVE  /\ db[n].version \in Versions(n)
                    /\ db[n].hashes.data = Content[n][db[n].version]
  BY DEF StoreHonest, Snapshot, Stored
<1>1. n \in Names /\ Width[n] # 0
  BY ConfigAssumption DEF Widths
<1>2. db[n] # NoList
  BY <1>1 DEF NoList, ListState, InvalidList, HashList
<1>3. Genuine(n, db[n])
  BY <1>1, <1>2 DEF AllGenuine
<1> QED BY <1>3 DEF Genuine, HashList

LEMMA QuietStep ==
  ASSUME Integrity, Typed', OneOperation', UNCHANGED <<store, memory>>,
         \A c \in Callers : pc'[c] = "save" => pc[c] = "save" /\ snap'[c] = snap[c],
         ~initialized => \A c \in Callers : pc'[c] \in {"idle", "init"}
  PROVE  Integrity'
<1> USE DEF memory
<1>1. AllGenuine(db)' /\ StoreHonest'
  BY DEF Integrity, AllGenuine, StoreHonest
<1>2. Untouched' /\ AvailableMeansStored'
  BY DEF Integrity, Untouched, AvailableMeansStored
<1>3. SnapIsCurrent'
  BY DEF Integrity, SnapIsCurrent
<1>4. CleanIsSaved' /\ DirtyNeedsStore'
  BY DEF Integrity, CleanIsSaved, DirtyNeedsStore
<1> QED BY <1>1, <1>2, <1>3, <1>4 DEF Integrity

LEMMA IntegrityQuiet ==
  ASSUME NEW c \in Callers, Integrity, Typed', OneOperation', Step(c),
         \/ AlreadyInitialized(c) \/ LoadFailed(c) \/ BeginCycle(c)
         \/ UpdateReturns(c) \/ Sleep(c) \/ WakeUp(c)
  PROVE  Integrity'
<1>1. Typed /\ OneOperation /\ Untouched
  BY DEF Integrity
<1>2. \A d \in Callers : d # c => pc'[d] = "idle"
  BY <1>1, Alone
<1>3. UNCHANGED <<store, memory>>
  BY DEF AlreadyInitialized, LoadFailed, BeginCycle, UpdateReturns, Sleep, WakeUp
<1>4. pc'[c] # "save"
  BY <1>1 DEF AlreadyInitialized, LoadFailed, BeginCycle, UpdateReturns, Sleep,
              WakeUp, Leave, Goto, Typed
<1>5. initialized \/ pc'[c] \in {"idle", "init"}
  BY <1>1 DEF AlreadyInitialized, LoadFailed, BeginCycle, UpdateReturns, Sleep,
              WakeUp, Leave, Goto, Typed, Untouched
<1> QED BY <1>2, <1>3, <1>4, <1>5, QuietStep

LEMMA LoadErrorIs ==
  ASSUME store \in Stores
  PROVE  /\ LoadError(store) = "ErrNotExist" => store.kind = "absent"
         /\ LoadError(store) = "none" => store.kind = "snapshot" /\ Readable(store.lists)
BY DEF LoadError, Stores

LEMMA IntegrityInitialize ==
  ASSUME NEW c \in Callers, Integrity, Typed', OneOperation', Step(c), Initialize(c)
  PROVE  Integrity'
<1>1. Typed /\ OneOperation /\ Untouched /\ StoreHonest
  BY DEF Integrity
<1>2. store \in Stores
  BY <1>1 DEF Typed
<1>3. PICK lists, toSave :
        /\ Publish(lists, toSave) /\ toSave \in BOOLEAN
        /\ AllGenuine(lists)
        /\ \/ toSave \/ ~HasStore
           \/ store.kind = "absent" /\ lists = Empty
           \/ store.kind = "snapshot" /\ store.lists = lists
  <2>1. CASE "ErrNotExist" \in LoadErrors /\ Publish(Empty, FALSE)
    <3>1. ~HasStore \/ store.kind = "absent"
      BY <1>2, <2>1, LoadErrorIs DEF LoadErrors
    <3> QED BY <2>1, <3>1, EmptyGenuine
  <2>2. CASE Publish(Empty, TRUE)
    BY <2>2, EmptyGenuine
  <2>3. CASE /\ "none" \in LoadErrors
             /\ Publish(Kept(Decoded(store.lists)),
                        Kept(Decoded(store.lists)) # Decoded(store.lists))
    <3>1. LoadError(store) = "none"
      BY <2>3 DEF LoadErrors
    <3>2. AllGenuine(Kept(Decoded(store.lists)))
      BY <1>1, <1>2, <3>1, KeptGenuine
    <3>3. Decoded(store.lists) = store.lists /\ store.kind = "snapshot"
      BY <1>2, <3>1, LoadErrorIs, ReadableDecoded DEF Stores
    <3> DEFINE kept == Kept(Decoded(store.lists))
               changed == kept # Decoded(store.lists)
    <3>4. changed \in BOOLEAN /\ Publish(kept, changed)
      BY <2>3
    <3>5. changed \/ store.lists = kept
      BY <3>3
    <3> HIDE DEF kept, changed
    <3>6. AllGenuine(kept)
      BY <3>2 DEF kept
    <3> QED BY <3>3, <3>4, <3>5, <3>6
  <2> QED BY <2>1, <2>2, <2>3 DEF Initialize
<1>4. pc[c] = "init" /\ ~initialized /\ store' = store /\ pc'[c] = "cycle"
  BY <1>1 DEF Initialize, Goto, Typed
<1>5. initialized' /\ db' = lists /\ dirty' = (toSave /\ HasStore)
  BY <1>3 DEF Publish
<1>6. AllGenuine(db)' /\ StoreHonest'
  BY <1>1, <1>3, <1>4, <1>5 DEF AllGenuine, StoreHonest
<1>7. Untouched'
  BY <1>5 DEF Untouched
<1>8. AvailableMeansStored'
  <2> SUFFICES ASSUME NEW n \in Selected PROVE status'[n].available <=> lists[n] # NoList
    BY <1>5 DEF AvailableMeansStored
  <2>1. ~status[n].available
    BY <1>1, <1>4 DEF Untouched
  <2> QED BY <1>3, <2>1 DEF Publish, Exists, ListStatus
<1>9. SnapIsCurrent'
  BY <1>1, <1>4, Alone DEF SnapIsCurrent
<1>10. CleanIsSaved' /\ DirtyNeedsStore'
  BY <1>3, <1>4, <1>5 DEF CleanIsSaved, DirtyNeedsStore
<1> QED BY <1>6, <1>7, <1>8, <1>9, <1>10 DEF Integrity

LEMMA IntegrityFetchFailed ==
  ASSUME NEW c \in Callers, Integrity, Typed', OneOperation', Step(c), FetchFailed(c)
  PROVE  Integrity'
<1> DEFINE asked == DOMAIN request[c]
<1>1. Typed /\ OneOperation /\ Untouched /\ AllGenuine(db) /\ StoreHonest
      /\ AvailableMeansStored /\ CleanIsSaved /\ DirtyNeedsStore
  BY DEF Integrity
<1>2. PICK blamed \in Blamed(asked), after \in RetryAfters, delay \in ListDelays(asked) :
        /\ EndFetch(c)
        /\ db' = [n \in Names |-> IF n \in blamed THEN NoList ELSE db[n]]
        /\ dirty' = (dirty \/ (HasStore /\ \E n \in blamed : Exists(db, n)))
        /\ status' = [n \in Selected |->
             IF n \in asked THEN Failed(status[n], n \in blamed, delay[n], after)
             ELSE status[n]]
  BY DEF FetchFailed, CallFailed
<1>3. asked \subseteq Selected
  BY <1>1, RequestType DEF Typed
<1>4. blamed \subseteq asked /\ Selected \subseteq Names
  BY ConfigAssumption DEF Blamed
<1>5. /\ initialized' = initialized /\ initialized
      /\ store' = store /\ pc'[c] = "presave"
  BY <1>1, <1>2 DEF EndFetch, Goto, Typed, Untouched
<1>6. AllGenuine(db)' /\ StoreHonest' /\ Untouched'
  BY <1>1, <1>2, <1>5 DEF AllGenuine, StoreHonest, Untouched
<1>7. AvailableMeansStored'
  <2> SUFFICES ASSUME NEW n \in Selected
               PROVE  status'[n].available <=> db'[n] # NoList
    BY <1>5 DEF AvailableMeansStored
  <2>1. status[n].available <=> db[n] # NoList
    BY <1>1, <1>5 DEF AvailableMeansStored
  <2> QED BY <1>2, <1>4, <2>1 DEF Failed, ListStatus
<1>8. SnapIsCurrent'
  BY <1>1, <1>5, Alone DEF SnapIsCurrent
<1>9. ~dirty' /\ HasStore => ~dirty /\ db' = db
  <2> SUFFICES ASSUME ~dirty', HasStore PROVE ~dirty /\ db' = db
    OBVIOUS
  <2>1. ~dirty /\ \A n \in blamed : db[n] = NoList
    BY <1>2 DEF Exists
  <2> QED BY <1>1, <1>2, <2>1 DEF Typed, Lists
<1>10. CleanIsSaved' /\ DirtyNeedsStore'
  BY <1>1, <1>2, <1>5, <1>9 DEF CleanIsSaved, DirtyNeedsStore
<1> QED BY <1>6, <1>7, <1>8, <1>10 DEF Integrity

LEMMA IntegrityFetchReturned ==
  ASSUME NEW c \in Callers, Integrity, Typed', OneOperation', Step(c),
         FetchReturned(c, Replies)
  PROVE  Integrity'
<1> DEFINE asked == DOMAIN request[c]
<1>1. Typed /\ OneOperation /\ Untouched /\ AllGenuine(db) /\ StoreHonest
      /\ AvailableMeansStored /\ CleanIsSaved /\ DirtyNeedsStore
  BY DEF Integrity
<1>2. PICK reply \in [asked -> Replies], delay \in ListDelays(asked) :
        Received(c, [n \in asked |-> Update(n, request[c][n], reply[n])], delay)
  BY DEF FetchReturned
<1> DEFINE u(n) == Update(n, request[c][n], reply[n])
           refused == {n \in asked : Refused(n, u(n), request[c][n])}
           told(n) == ListStatus(status[n].available, status[n].failures, Told(n, u(n)))
<1>3. /\ EndFetch(c)
      /\ db' = [n \in Names |->
           IF n \in refused THEN NoList
           ELSE IF n \in asked THEN Apply(db, Filled(u(n), n), now)[n]
           ELSE db[n]]
      /\ dirty' = (\/ dirty
                   \/ HasStore /\ (\/ asked # refused
                                   \/ \E n \in refused : Exists(db, n)))
      /\ status' = [n \in Selected |->
           IF n \in refused THEN Failed(told(n), TRUE, delay[n], 0)
           ELSE IF n \in asked THEN Succeeded(told(n))
           ELSE status[n]]
  BY <1>2 DEF Received
<1>4. asked \subseteq Selected /\ Selected \subseteq Names
  BY <1>1, RequestType, ConfigAssumption DEF Typed
<1>5. /\ initialized' = initialized /\ initialized
      /\ store' = store /\ pc'[c] = "presave"
  BY <1>1, <1>3 DEF EndFetch, Goto, Typed, Untouched
<1>6. ASSUME NEW n \in asked, n \notin refused
      PROVE  Genuine(n, db'[n]) /\ db'[n] # NoList
  <2>1. n \in Selected /\ n \in Names /\ reply[n] \in Replies
    BY <1>4
  <2>2. ~Refused(n, u(n), request[c][n])
    BY <1>6
  <2>3. Genuine(n, Apply(db, Filled(u(n), n), now)[n])
    BY <1>1, <2>1, <2>2, AppliedGenuine
  <2>4. db'[n] = Apply(db, Filled(u(n), n), now)[n]
    BY <1>3, <1>6, <2>1
  <2> QED BY <2>1, <2>3, <2>4, GenuineExists
<1>7. ASSUME NEW n \in Names, n \notin asked PROVE db'[n] = db[n]
  BY <1>3, <1>7
<1>8. ASSUME NEW n \in refused PROVE db'[n] = NoList
  BY <1>3, <1>4, <1>8
<1>9. AllGenuine(db)'
  <2> SUFFICES ASSUME NEW n \in Names
               PROVE  db'[n] = NoList \/ (n \in Selected /\ Genuine(n, db'[n]))
    BY DEF AllGenuine
  <2> QED BY <1>1, <1>4, <1>6, <1>7, <1>8 DEF AllGenuine
<1>10. StoreHonest' /\ Untouched'
  BY <1>1, <1>5 DEF StoreHonest, Untouched
<1>11. AvailableMeansStored'
  <2> SUFFICES ASSUME NEW n \in Selected
               PROVE  status'[n].available <=> db'[n] # NoList
    BY <1>5 DEF AvailableMeansStored
  <2>1. CASE n \in refused
    BY <1>3, <1>8, <2>1 DEF Failed, ListStatus
  <2>2. CASE n \in asked /\ n \notin refused
    BY <1>3, <1>6, <2>2 DEF Succeeded, ListStatus
  <2>3. CASE n \notin asked
    BY <1>1, <1>3, <1>4, <1>5, <1>7, <2>3 DEF AvailableMeansStored
  <2> QED BY <2>1, <2>2, <2>3
<1>12. SnapIsCurrent'
  BY <1>1, <1>5, Alone DEF SnapIsCurrent
<1>13. ~dirty' /\ HasStore => ~dirty /\ db' = db
  <2> SUFFICES ASSUME ~dirty', HasStore PROVE ~dirty /\ db' = db
    OBVIOUS
  <2>1. ~dirty /\ asked = refused /\ \A n \in refused : db[n] = NoList
    BY <1>3 DEF Exists
  <2>2. \A n \in Names : db'[n] = db[n]
    BY <1>7, <1>8, <2>1
  <2> QED BY <1>1, <1>3, <2>1, <2>2 DEF Typed, Lists
<1>14. CleanIsSaved' /\ DirtyNeedsStore'
  BY <1>1, <1>3, <1>5, <1>13 DEF CleanIsSaved, DirtyNeedsStore
<1> QED BY <1>9, <1>10, <1>11, <1>12, <1>14 DEF Integrity

LEMMA IntegritySave ==
  ASSUME NEW c \in Callers, Integrity, Typed', OneOperation', Step(c),
         BeginSave(c) \/ Saved(c) \/ SaveFailed(c) \/ Abort(c)
  PROVE  Integrity'
<1>1. Typed /\ OneOperation /\ Untouched /\ AllGenuine(db) /\ StoreHonest
      /\ AvailableMeansStored /\ SnapIsCurrent /\ CleanIsSaved /\ DirtyNeedsStore
  BY DEF Integrity
<1>2. /\ db' = db /\ initialized' = initialized
      /\ \A n \in Selected : status'[n] = status[n]
  BY DEF BeginSave, Saved, SaveFailed, EndSave, Abort, memory
<1>3. AllGenuine(db)' /\ AvailableMeansStored'
  BY <1>1, <1>2 DEF AllGenuine, AvailableMeansStored
<1>4. \A d \in Callers : d # c => pc'[d] = "idle"
  BY <1>1, Alone
<1>5. CASE BeginSave(c)
  <2> DEFINE should == dirty /\ now >= nextSave
  <2>1. /\ UNCHANGED <<store, dirty>> /\ initialized
        /\ pc'[c] = IF should THEN "save" ELSE "done"
        /\ should => snap'[c] = db
    BY <1>1, <1>5 DEF BeginSave, Goto, memory, Typed, Untouched
  <2>2. StoreHonest' /\ Untouched' /\ CleanIsSaved' /\ DirtyNeedsStore'
    BY <1>1, <1>2, <2>1 DEF StoreHonest, Untouched, CleanIsSaved, DirtyNeedsStore
  <2>3. SnapIsCurrent'
    BY <1>1, <1>2, <1>4, <2>1 DEF SnapIsCurrent, DirtyNeedsStore
  <2> QED BY <1>3, <2>2, <2>3 DEF Integrity
<1>6. ASSUME store' = store \/ (pc[c] = "save" /\ store' = Snapshot(snap[c]))
      PROVE  StoreHonest' /\ (store' = store \/ store' = Snapshot(db))
  <2>1. store' = Snapshot(db) => StoreHonest'
    BY <1>1, SavedHonest DEF Typed
  <2>2. store' = store => StoreHonest'
    BY <1>1 DEF StoreHonest
  <2> QED BY <1>1, <1>6, <2>1, <2>2 DEF SnapIsCurrent
<1>7. CASE Saved(c) \/ SaveFailed(c)
  <2>1. /\ pc[c] = "save" /\ pc'[c] = "done"
        /\ store' = store \/ store' = Snapshot(snap[c])
    BY <1>1, <1>7 DEF Saved, SaveFailed, EndSave, Goto, Typed
  <2>2. initialized /\ SnapIsCurrent'
    BY <1>1, <1>4, <2>1 DEF SnapIsCurrent, Untouched
  <2>3. ~dirty' => store' = Snapshot(db) \/ (~dirty /\ store' = store)
    <3>1. CASE Saved(c)
      BY <1>1, <2>1, <3>1 DEF Saved, SnapIsCurrent
    <3>2. CASE SaveFailed(c)
      BY <1>6, <2>1, <3>2 DEF SaveFailed
    <3> QED BY <1>7, <3>1, <3>2
  <2>4. CleanIsSaved'
    BY <1>1, <1>2, <2>2, <2>3 DEF CleanIsSaved, Snapshot, Stored
  <2>5. dirty' => dirty
    BY <1>7 DEF Saved, SaveFailed
  <2>6. DirtyNeedsStore'
    BY <1>1, <2>5 DEF DirtyNeedsStore
  <2> QED BY <1>2, <1>3, <1>6, <2>1, <2>2, <2>4, <2>6 DEF Integrity, Untouched
<1>8. CASE Abort(c)
  <2>1. /\ pc'[c] = "idle" /\ UNCHANGED memory
        /\ store' = store \/ (pc[c] = "save" /\ store' = Snapshot(snap[c]))
    BY <1>1, <1>8 DEF Abort, Leave, Typed
  <2>2. SnapIsCurrent' /\ Untouched' /\ DirtyNeedsStore'
    BY <1>1, <1>4, <2>1 DEF SnapIsCurrent, Untouched, DirtyNeedsStore, memory
  <2>3. CleanIsSaved'
    BY <1>1, <1>6, <2>1 DEF CleanIsSaved, Snapshot, Stored, memory
  <2> QED BY <1>3, <1>6, <2>1, <2>2, <2>3 DEF Integrity
<1> QED BY <1>5, <1>7, <1>8

LEMMA IntegrityCrash ==
  ASSUME Integrity, Typed', OneOperation', Crash PROVE Integrity'
<1>1. Typed /\ AllGenuine(db) /\ StoreHonest /\ SnapIsCurrent
  BY DEF Integrity
<1>2. store' = store \/ store' = Snapshot(db)
  BY <1>1 DEF Crash, SnapIsCurrent
<1>3. StoreHonest'
  <2>1. store' = Snapshot(db) => StoreHonest'
    BY <1>1, SavedHonest DEF Typed
  <2> QED BY <1>1, <1>2, <2>1 DEF StoreHonest
<1>4. ~initialized' /\ db' = Empty /\ ~dirty' /\ status' = Zeroed
      /\ pc' = [c \in Callers |-> "idle"]
  BY Zenon DEF Crash
<1>5. AllGenuine(db)'
  BY <1>4, EmptyGenuine DEF AllGenuine
<1>6. Untouched'
  BY <1>4 DEF Untouched, Zeroed, ListStatus
<1> QED
  BY <1>3, <1>4, <1>5, <1>6
  DEF Integrity, AvailableMeansStored, SnapIsCurrent, CleanIsSaved, DirtyNeedsStore

LEMMA IntegrityNext ==
  ASSUME Integrity, Typed', OneOperation', [Next]_vars PROVE Integrity'
<1>1. Typed /\ OneOperation /\ Untouched
  BY DEF Integrity
<1>2. CASE Tick
  BY <1>1, <1>2, QuietStep DEF Tick, locals, Untouched
<1>3. CASE Crash
  BY <1>3, IntegrityCrash
<1>4. ASSUME NEW c \in Callers, Step(c) PROVE Integrity'
  BY <1>4, IntegrityQuiet, IntegrityInitialize, IntegrityFetchFailed,
     IntegrityFetchReturned, IntegritySave DEF Step
<1>5. ASSUME NEW c \in Callers, Cancel(c) PROVE Integrity'
  BY <1>1, <1>5, QuietStep DEF Cancel, Untouched
<1>6. ASSUME NEW c \in Callers, NEW m \in {"update", "run"}, Enter(c, m)
      PROVE  Integrity'
  <2>1. \A d \in Callers : pc'[d] = pc[d] \/ pc'[d] = "init"
    BY <1>1, <1>6 DEF Enter, Goto, Typed
  <2>2. UNCHANGED <<store, memory, snap>>
    BY <1>6 DEF Enter
  <2> QED BY <1>1, <2>1, <2>2, QuietStep DEF Untouched
<1>7. CASE UNCHANGED vars
  BY <1>1, <1>7, QuietStep DEF vars, locals, Untouched
<1> QED BY <1>1, <1>2, <1>3, <1>4, <1>5, <1>6, <1>7 DEF Next
----
(* What follows from Integrity *)

\* The inductive invariant holds in every reachable state.
THEOREM IntegrityHolds == Spec => []Integrity
<1>1. Typed' /\ OneOperation' /\ Integrity /\ [Next]_vars => Integrity'
  BY IntegrityNext
<1> QED BY <1>1, IntegrityInit, TypedAlways, Exclusion, PTL DEF Spec

\* Genuine lists are usable ones with their content.
LEMMA GenuineUsable ==
  ASSUME NEW n \in Selected, NEW s, Genuine(n, s)
  PROVE  /\ s.hashes.width = Width[n] /\ s.meta /\ s.version # 0
         /\ s.version \in Versions(n) /\ s.hashes.data = Content[n][s.version]
BY ServiceAssumption DEF Genuine, HashList

\* The updater reports ready exactly about what can be looked up.
THEOREM ReadyTheorem == Spec => []ReadyMeansLoaded
<1>1. Integrity => ReadyMeansLoaded
  <2> SUFFICES ASSUME Integrity, initialized, NEW n \in Names
      PROVE IF n \in Selected /\ status[n].available
            THEN db[n].hashes.width = Width[n] /\ db[n].meta /\ db[n].version # 0
            ELSE db[n] = NoList
    BY DEF ReadyMeansLoaded
  <2>1. n \in Selected => (status[n].available <=> db[n] # NoList)
    BY DEF Integrity, AvailableMeansStored
  <2>2. db[n] = NoList \/ (n \in Selected /\ Genuine(n, db[n]))
    BY DEF Integrity, AllGenuine
  <2> QED BY <2>1, <2>2, GenuineUsable
<1> QED BY <1>1, IntegrityHolds, PTL

\* Whatever faulty answers, refusals, saves, crashes and restarts came before,
\* a list in the database is the service's at its version.
THEOREM ContentTheorem == Spec => []ListsMatchService
<1>1. Integrity => ListsMatchService
  <2> SUFFICES ASSUME Integrity, NEW n \in Selected, Exists(db, n)
      PROVE db[n].version \in Versions(n) /\ db[n].hashes.data = Content[n][db[n].version]
    BY DEF ListsMatchService
  <2>1. n \in Names
    BY ConfigAssumption
  <2>2. Genuine(n, db[n])
    BY <2>1 DEF Integrity, AllGenuine, Exists
  <2> QED BY <2>2, GenuineUsable
<1> QED BY <1>1, IntegrityHolds, PTL

\* What the updater takes for saved, a restart restores in full.
THEOREM CleanTheorem == Spec => []CleanMeansSaved
<1>1. Integrity => CleanMeansSaved
  <2> SUFFICES ASSUME Integrity PROVE CleanMeansSaved
    OBVIOUS
  <2>1. Restores(db)
    BY GenuineRestores DEF Integrity, Typed
  <2> QED BY <2>1 DEF Integrity, CleanIsSaved, CleanMeansSaved
<1> QED BY <1>1, IntegrityHolds, PTL

\* What a save in progress publishes, a restart would restore in full.
THEOREM SaveTheorem == Spec => []SavesRestorable
<1>1. Integrity => SavesRestorable
  <2> SUFFICES ASSUME Integrity PROVE SavesRestorable
    OBVIOUS
  <2>1. Restores(db)
    BY GenuineRestores DEF Integrity, Typed
  <2> QED BY <2>1 DEF Integrity, SnapIsCurrent, SavesRestorable
<1> QED BY <1>1, IntegrityHolds, PTL
----
(* Schedule: the invariant *)

InTime ==
  /\ now <= Horizon
  /\ \A n \in Names : store.lists[n].updatedAt <= Horizon
  /\ \A n \in Names : db[n].updatedAt <= Horizon

\* The next attempt is no sooner than the service allows, nor than the time
\* the list was stored with.
Spaced ==
  \A n \in Selected : /\ status[n].nextAttempt >= notBefore[n]
                      /\ status[n].nextAttempt >= db[n].updatedAt

\* A list being asked for is due; requests are of this cycle.
AskedAreDue ==
  \A c \in Callers : pc[c] = "fetch" =>
    \A n \in DOMAIN request[c] : now >= status[n].nextAttempt

SleepsUntilDue ==
  \A c \in Callers : pc[c] = "wait" =>
    \/ wake[c] <= now
    \/ /\ \A n \in Selected : wake[c] <= status[n].nextAttempt
       /\ dirty => wake[c] <= nextSave

\* A snapshot that cannot be read keeps the updater from starting.
UnreadableBlocks ==
  HasStore /\ store.kind \in {"newer", "oversized"} => ~initialized

Schedule == InTime /\ Spaced /\ AskedAreDue /\ SleepsUntilDue /\ UnreadableBlocks
----
(* Deadlines *)

LEMMA DeadlineMonotone ==
  ASSUME NEW s \in Nat, NEW t \in Nat, s <= t
  PROVE  Deadline(s) <= Deadline(t) /\ (s <= Horizon => s <= Deadline(t))
BY ConfigAssumption DEF Deadline

LEMMA FailedLater ==
  ASSUME NEW s \in Statuses, NEW invalidate, NEW delay \in Nat,
         NEW after \in Nat, now \in Nat
  PROVE  /\ Failed(s, invalidate, delay, after).nextAttempt >= s.nextAttempt
         /\ Failed(s, invalidate, delay, after).nextAttempt >= Deadline(now + after)
<1> DEFINE late == Later(now + delay, now + after)  next == Deadline(late)
<1>1. now + delay \in Nat /\ now + after \in Nat /\ s.nextAttempt \in Nat
  BY DEF Statuses
<1>2. late \in Nat /\ late >= now + after
  BY <1>1, LaterNat
<1> HIDE DEF late
<1>3. next \in Nat /\ Deadline(now + after) \in Nat
  BY <1>1, <1>2, DeadlineNat
<1>4. next >= Deadline(now + after)
  BY <1>1, <1>2, <1>3, DeadlineMonotone
<1> HIDE DEF next
<1>5. Later(s.nextAttempt, next) >= s.nextAttempt /\ Later(s.nextAttempt, next) >= next
      /\ Later(s.nextAttempt, next) \in Nat
  BY <1>1, <1>3, LaterNat
<1>6. Failed(s, invalidate, delay, after).nextAttempt = Later(s.nextAttempt, next)
  BY DEF Failed, ListStatus, next, late
<1> QED BY <1>1, <1>3, <1>4, <1>5, <1>6

\* The times of the lists that loading keeps are those of the snapshot.
LEMMA KeptTimes ==
  ASSUME NEW lists \in [Names -> ListStates(Int)],
         \A n \in Names : lists[n].updatedAt <= Horizon, Readable(lists)
  PROVE  \A n \in Names : Kept(Decoded(lists))[n].updatedAt <= Horizon
<1> SUFFICES ASSUME NEW n \in Names PROVE Kept(lists)[n].updatedAt <= Horizon
  BY ReadableDecoded
<1>1. [lists[n] EXCEPT !.meta = TRUE].updatedAt = lists[n].updatedAt
  BY DEF ListStates
<1> QED BY <1>1, ConfigAssumption DEF Kept, NoList, ListState
----
(* Schedule holds at first and every step keeps it *)

LEMMA EmptyTimes == \A n \in Names : Empty[n].updatedAt = 0
BY DEF Empty, NoLists, NoList, ListState

LEMMA ScheduleInit == Init => Schedule
<1> SUFFICES ASSUME Init PROVE Schedule
  OBVIOUS
<1>1. InTime
  BY EmptyTimes, ConfigAssumption, StoreAssumption DEF Init, InTime
<1>2. Spaced
  BY EmptyTimes, ConfigAssumption DEF Init, Spaced, Zeroed, ListStatus
<1> QED
  BY <1>1, <1>2
  DEF Init, Schedule, AskedAreDue, SleepsUntilDue, UnreadableBlocks

\* While nothing but the clock and the callers' places changes, only a new
\* request or a new timer matters.
LEMMA QuietSchedule ==
  ASSUME Integrity, Schedule, UNCHANGED <<store, memory>>,
         now' \in Nat, now' >= now, now' <= Horizon,
         \A c \in Callers : pc'[c] \in {"fetch", "wait"} =>
           pc'[c] = pc[c] /\ request'[c] = request[c] /\ wake'[c] = wake[c]
  PROVE  Schedule'
<1> USE DEF memory
<1>1. now \in Nat /\ wake \in [Callers -> Nat] /\ request \in [Callers -> Requests]
      /\ status \in [Selected -> Statuses]
  BY DEF Integrity, Typed
<1>2. \A n \in Selected : status[n].nextAttempt \in Nat
  BY <1>1 DEF Statuses
<1>3. InTime' /\ Spaced' /\ UnreadableBlocks'
  BY DEF Schedule, InTime, Spaced, UnreadableBlocks
<1>4. AskedAreDue'
  <2> SUFFICES ASSUME NEW c \in Callers, pc'[c] = "fetch", NEW n \in DOMAIN request'[c]
               PROVE  now' >= status[n].nextAttempt
    BY DEF AskedAreDue
  <2>1. pc[c] = "fetch" /\ n \in DOMAIN request[c]
    OBVIOUS
  <2>2. n \in Selected
    BY <1>1, <2>1, RequestType
  <2> QED BY <1>1, <1>2, <2>1, <2>2 DEF Schedule, AskedAreDue
<1>5. SleepsUntilDue'
  <2> SUFFICES ASSUME NEW c \in Callers, pc'[c] = "wait"
               PROVE  \/ wake[c] <= now'
                      \/ /\ \A n \in Selected : wake[c] <= status[n].nextAttempt
                         /\ dirty => wake[c] <= nextSave
    BY DEF SleepsUntilDue
  <2> QED BY <1>1 DEF Schedule, SleepsUntilDue
<1> QED BY <1>3, <1>4, <1>5 DEF Schedule

\* A step that leaves no caller asking or sleeping.
LEMMA AwakeSchedule ==
  ASSUME \A c \in Callers : pc'[c] \notin {"fetch", "wait"},
         InTime', Spaced', UnreadableBlocks'
  PROVE  Schedule'
BY DEF Schedule, AskedAreDue, SleepsUntilDue

LEMMA ScheduleInitialize ==
  ASSUME NEW c \in Callers, Integrity, Schedule, Step(c), Initialize(c)
  PROVE  Schedule'
<1>1. Typed /\ OneOperation /\ Untouched /\ InTime /\ Spaced
  BY DEF Integrity, Schedule
<1>2. store \in Stores
  BY <1>1 DEF Typed
<1>3. PICK lists \in Lists : /\ \E toSave : Publish(lists, toSave)
                             /\ \A n \in Names : lists[n].updatedAt <= Horizon
  <2>1. \A n \in Names : Empty[n].updatedAt <= Horizon
    BY EmptyTimes, ConfigAssumption
  <2>2. CASE Publish(Empty, FALSE) \/ Publish(Empty, TRUE)
    BY <2>1, <2>2, EmptyType
  <2>3. CASE /\ LoadError(store) = "none"
             /\ Publish(Kept(Decoded(store.lists)),
                        Kept(Decoded(store.lists)) # Decoded(store.lists))
    <3>1. store.lists \in [Names -> ListStates(Int)] /\ Readable(store.lists)
      BY <1>2, <2>3, LoadErrorIs DEF Stores
    <3>2. Kept(Decoded(store.lists)) \in Lists
      BY <3>1, DecodedType, KeptType
    <3>3. \A n \in Names : store.lists[n].updatedAt <= Horizon
      BY <1>1 DEF InTime
    <3>4. \A n \in Names : Kept(Decoded(store.lists))[n].updatedAt <= Horizon
      BY <3>1, <3>3, KeptTimes
    <3> QED BY <2>3, <3>2, <3>4
  <2> QED BY <2>2, <2>3 DEF Initialize, LoadErrors
<1>4. PICK toSave : Publish(lists, toSave)
  BY <1>3
<1>5. /\ pc'[c] = "cycle" /\ UNCHANGED <<now, store>> /\ db' = lists
  BY <1>1, <1>4 DEF Initialize, Goto, Typed, Publish
<1>6. InTime'
  BY <1>1, <1>3, <1>5 DEF InTime
<1>7. Spaced'
  <2> SUFFICES ASSUME NEW n \in Selected
               PROVE  /\ status'[n].nextAttempt >= notBefore'[n]
                      /\ status'[n].nextAttempt >= lists[n].updatedAt
    BY <1>5 DEF Spaced
  <2> DEFINE next == NextUpdate(lists[n])
  <2>1. n \in Names
    BY ConfigAssumption
  <2>2. lists[n].updatedAt \in Nat /\ next \in Nat /\ lists[n].updatedAt <= next
    BY <2>1 DEF Lists, ListStates, NextUpdate
  <2>3. Deadline(next) \in Nat /\ lists[n].updatedAt <= Deadline(next)
    BY <1>3, <2>1, <2>2, DeadlineNat, DeadlineMonotone
  <2>4. notBefore'[n] = Deadline(next)
    BY <1>4 DEF Publish
  <2>5. CASE Exists(lists, n)
    <3>1. status'[n].nextAttempt = Deadline(next)
      BY <1>4, <2>5 DEF Publish, ListStatus
    <3> QED BY <2>2, <2>3, <2>4, <3>1
  <2>6. CASE ~Exists(lists, n)
    <3>1. lists[n] = NoList /\ lists[n].updatedAt = 0 /\ next = 0
      BY <2>6 DEF Exists, NoList, ListState, NextUpdate
    <3>2. Deadline(next) = 0
      BY <3>1, ConfigAssumption DEF Deadline
    <3>3. status'[n] = status[n] /\ status[n].nextAttempt \in Nat
      BY <1>1, <1>4, <2>6 DEF Publish, Typed, Statuses
    <3> QED BY <2>4, <3>1, <3>2, <3>3
  <2> QED BY <2>5, <2>6
<1>8. UnreadableBlocks'
  <2> SUFFICES ASSUME HasStore, store.kind \in {"newer", "oversized"} PROVE FALSE
    BY <1>5 DEF UnreadableBlocks
  <2>1. LoadErrors \subseteq {"ErrUnsupportedSnapshot", "ErrSnapshotTooLarge", "ErrStorage"}
    BY DEF LoadErrors, LoadError
  <2> QED BY <2>1 DEF Initialize, Discarded
<1>9. \A d \in Callers : pc'[d] \notin {"fetch", "wait"}
  BY <1>1, <1>5, Alone
<1> QED BY <1>6, <1>7, <1>8, <1>9, AwakeSchedule

LEMMA ScheduleFetchFailed ==
  ASSUME NEW c \in Callers, Integrity, Schedule, Step(c), FetchFailed(c)
  PROVE  Schedule'
<1> DEFINE asked == DOMAIN request[c]
<1>1. Typed /\ OneOperation /\ InTime /\ Spaced /\ UnreadableBlocks /\ now \in Nat
  BY DEF Integrity, Schedule, Typed
<1>2. PICK blamed \in Blamed(asked), after \in RetryAfters, delay \in ListDelays(asked) :
        /\ EndFetch(c)
        /\ db' = [n \in Names |-> IF n \in blamed THEN NoList ELSE db[n]]
        /\ status' = [n \in Selected |->
             IF n \in asked THEN Failed(status[n], n \in blamed, delay[n], after)
             ELSE status[n]]
        /\ notBefore' = [n \in Selected |->
             IF n \in asked THEN Later(notBefore[n], Deadline(now + after))
             ELSE notBefore[n]]
  BY DEF FetchFailed, CallFailed
<1>3. after \in Nat /\ NoList.updatedAt = 0 /\ Selected \subseteq Names
  BY ServiceAssumption, ConfigAssumption DEF NoList, ListState
<1>4. /\ UNCHANGED <<now, store, initialized>> /\ pc'[c] = "presave"
  BY <1>1, <1>2 DEF EndFetch, Goto, Typed
<1>5. InTime' /\ UnreadableBlocks'
  BY <1>1, <1>2, <1>3, <1>4, ConfigAssumption DEF InTime, UnreadableBlocks
<1>6. Spaced'
  <2> SUFFICES ASSUME NEW n \in Selected
               PROVE  /\ status'[n].nextAttempt >= notBefore'[n]
                      /\ status'[n].nextAttempt >= db'[n].updatedAt
    BY DEF Spaced
  <2>1. /\ status[n] \in Statuses /\ status[n].nextAttempt \in Nat
        /\ notBefore[n] \in Nat /\ db[n].updatedAt \in Nat
    BY <1>1, <1>3 DEF Typed, Statuses, Lists, ListStates
  <2>2. status[n].nextAttempt >= notBefore[n] /\ status[n].nextAttempt >= db[n].updatedAt
    BY <1>1 DEF Spaced
  <2>3. db'[n].updatedAt \in {0, db[n].updatedAt}
    BY <1>2, <1>3
  <2>4. CASE n \in asked
    <3> DEFINE failed == Failed(status[n], n \in blamed, delay[n], after)
    <3>1. delay[n] \in Nat
      BY <2>4, ListDelayType
    <3>2. failed.nextAttempt >= status[n].nextAttempt
          /\ failed.nextAttempt >= Deadline(now + after)
      BY <1>1, <1>3, <2>1, <3>1, FailedLater
    <3>3. failed \in Statuses
      BY <1>1, <1>3, <2>1, <3>1, FailedType
    <3>4. failed.nextAttempt \in Nat
      BY <3>3 DEF Statuses
    <3>5. status'[n] = failed /\ notBefore'[n] = Later(notBefore[n], Deadline(now + after))
      BY <1>2, <2>4
    <3>6. Deadline(now + after) \in Nat
      BY <1>1, <1>3, DeadlineNat
    <3> HIDE DEF failed
    <3> QED BY <2>1, <2>2, <2>3, <3>2, <3>4, <3>5, <3>6 DEF Later
  <2>5. CASE n \notin asked
    BY <1>2, <2>1, <2>2, <2>3, <2>5
  <2> QED BY <2>4, <2>5
<1> QED BY <1>1, <1>4, <1>5, <1>6, Alone, AwakeSchedule

LEMMA ScheduleFetchReturned ==
  ASSUME NEW c \in Callers, Integrity, Schedule, Step(c), FetchReturned(c, Replies)
  PROVE  Schedule'
<1> DEFINE asked == DOMAIN request[c]
<1>1. Typed /\ OneOperation /\ InTime /\ Spaced /\ UnreadableBlocks /\ now \in Nat
  BY DEF Integrity, Schedule, Typed
<1>2. PICK reply \in [asked -> Replies], delay \in ListDelays(asked) :
        Received(c, [n \in asked |-> Update(n, request[c][n], reply[n])], delay)
  BY DEF FetchReturned
<1> DEFINE u(n) == Update(n, request[c][n], reply[n])
           refused == {n \in asked : Refused(n, u(n), request[c][n])}
           told(n) == ListStatus(status[n].available, status[n].failures, Told(n, u(n)))
<1>3. /\ EndFetch(c)
      /\ db' = [n \in Names |->
           IF n \in refused THEN NoList
           ELSE IF n \in asked THEN Apply(db, Filled(u(n), n), now)[n]
           ELSE db[n]]
      /\ status' = [n \in Selected |->
           IF n \in refused THEN Failed(told(n), TRUE, delay[n], 0)
           ELSE IF n \in asked THEN Succeeded(told(n))
           ELSE status[n]]
      /\ notBefore' = [n \in Selected |->
           IF n \in asked /\ u(n).wait >= 0 THEN Deadline(now + u(n).wait)
           ELSE notBefore[n]]
  BY <1>2 DEF Received
<1>4. asked \subseteq Selected /\ Selected \subseteq Names
  BY <1>1, RequestType, ConfigAssumption DEF Typed
<1>5. UNCHANGED <<now, store, initialized>> /\ pc'[c] = "presave"
  BY <1>1, <1>3 DEF EndFetch, Goto, Typed
<1>6. NoList.updatedAt = 0
  BY DEF NoList, ListState
<1>7. ASSUME NEW n \in asked, n \notin refused
      PROVE  db'[n].updatedAt = now /\ u(n).wait >= 0
  <2>1. n \in Selected /\ n \in Names /\ reply[n] \in Replies /\ db \in Lists
    BY <1>1, <1>4 DEF Typed
  <2>2. ApplyError(db, u(n), now) = "none"
    BY <1>7 DEF Refused
  <2>3. IsUpdate(u(n), n)
    BY <2>1, UpdateType
  <2>4. u(n).wait >= 0
    BY <1>1, <2>1, <2>2, <2>3, ApplyType
  <2> DEFINE f == Filled(u(n), n)
  <2>5. ApplyError(db, f, now) = "none" /\ f.name = n
    BY <2>1, <2>2, FilledError, FilledFields
  <2>6. Apply(db, f, now)[n].updatedAt = now
    BY <2>1, <2>5 DEF Apply, AppliedState, ListState, Lists
  <2> QED BY <1>3, <1>7, <2>1, <2>4, <2>6
<1>8. ASSUME NEW n \in refused PROVE db'[n].updatedAt = 0
  BY <1>3, <1>4, <1>6, <1>8
<1>9. ASSUME NEW n \in Names, n \notin asked PROVE db'[n] = db[n]
  BY <1>3, <1>9
<1>10. InTime' /\ UnreadableBlocks'
  BY <1>1, <1>5, <1>7, <1>8, <1>9, ConfigAssumption DEF InTime, UnreadableBlocks
<1>11. Spaced'
  <2> SUFFICES ASSUME NEW n \in Selected
               PROVE  /\ status'[n].nextAttempt >= notBefore'[n]
                      /\ status'[n].nextAttempt >= db'[n].updatedAt
    BY DEF Spaced
  <2>1. /\ status[n] \in Statuses /\ status[n].nextAttempt \in Nat
        /\ notBefore[n] \in Nat
    BY <1>1, <1>4 DEF Typed, Statuses
  <2>2. status[n].nextAttempt >= notBefore[n] /\ status[n].nextAttempt >= db[n].updatedAt
    BY <1>1 DEF Spaced
  <2>3. CASE n \in asked
    <3>1. reply[n] \in Replies /\ delay[n] \in Nat
      BY <2>3, ListDelayType
    <3>2. u(n).wait \in Int
      BY <3>1, UpdateType DEF IsUpdate
    <3>3. ASSUME u(n).wait >= 0
          PROVE  Deadline(now + u(n).wait) \in Nat /\ now <= Deadline(now + u(n).wait)
      <4>1. now + u(n).wait \in Nat /\ now <= now + u(n).wait
        BY <1>1, <3>2, <3>3
      <4> QED BY <1>1, <4>1, DeadlineNat, DeadlineMonotone DEF InTime
    <3>4. Told(n, u(n)) \in Nat /\ Told(n, u(n)) >= notBefore'[n]
      BY <1>3, <2>1, <2>2, <2>3, <3>3 DEF Told
    <3>5. notBefore'[n] \in Nat
      BY <1>3, <2>1, <2>3, <3>3
    <3>6. CASE n \in refused
      <4> DEFINE failed == Failed(told(n), TRUE, delay[n], 0)
      <4>1. told(n) \in Statuses /\ told(n).nextAttempt = Told(n, u(n))
        BY <2>1, <3>4 DEF ListStatus, Statuses
      <4>2. failed.nextAttempt >= told(n).nextAttempt
        BY <1>1, <3>1, <4>1, FailedLater
      <4>3. failed \in Statuses
        BY <1>1, <3>1, <4>1, FailedType
      <4>4. failed.nextAttempt \in Nat
        BY <4>3 DEF Statuses
      <4>5. status'[n] = failed
        BY <1>3, <3>6
      <4> HIDE DEF failed
      <4> QED BY <1>8, <3>4, <3>5, <3>6, <4>1, <4>2, <4>4, <4>5
    <3>7. CASE n \notin refused
      <4>1. u(n).wait >= 0 /\ db'[n].updatedAt = now
        BY <1>7, <2>3, <3>7
      <4>2. Told(n, u(n)) = Deadline(now + u(n).wait)
        BY <4>1 DEF Told
      <4>3. status'[n].nextAttempt = Told(n, u(n))
        BY <1>3, <2>3, <3>7 DEF Succeeded, ListStatus
      <4> QED BY <3>3, <3>4, <4>1, <4>2, <4>3
    <3> QED BY <3>6, <3>7
  <2>4. CASE n \notin asked
    BY <1>3, <1>4, <1>9, <2>2, <2>4
  <2> QED BY <2>3, <2>4
<1> QED BY <1>1, <1>5, <1>10, <1>11, Alone, AwakeSchedule

LEMMA ScheduleSave ==
  ASSUME NEW c \in Callers, Integrity, Schedule, Step(c),
         Saved(c) \/ SaveFailed(c) \/ Abort(c)
  PROVE  Schedule'
<1>1. Typed /\ OneOperation /\ Untouched /\ SnapIsCurrent /\ InTime /\ Spaced
      /\ UnreadableBlocks
  BY DEF Integrity, Schedule
<1>2. UNCHANGED <<now, db, status, notBefore, initialized>>
      /\ pc'[c] \in {"idle", "done"}
  BY <1>1 DEF Saved, SaveFailed, EndSave, Abort, Leave, Goto, memory, Typed
<1>3. store' = store \/ (pc[c] = "save" /\ store' = Snapshot(db))
  BY <1>1 DEF Saved, SaveFailed, EndSave, Abort, SnapIsCurrent
<1>4. InTime' /\ UnreadableBlocks'
  BY <1>1, <1>2, <1>3 DEF InTime, UnreadableBlocks, Snapshot, Stored
<1>5. Spaced'
  BY <1>1, <1>2 DEF Spaced
<1> QED BY <1>1, <1>2, <1>4, <1>5, Alone, AwakeSchedule

LEMMA ScheduleQuiet ==
  ASSUME NEW c \in Callers, Integrity, Schedule, Step(c),
         \/ AlreadyInitialized(c) \/ LoadFailed(c) \/ BeginSave(c)
         \/ UpdateReturns(c) \/ WakeUp(c)
  PROVE  Schedule'
<1>1. Typed /\ OneOperation /\ now \in Nat /\ now <= Horizon
  BY DEF Integrity, Typed, Schedule, InTime
<1>2. UNCHANGED <<now, store, memory>> /\ pc'[c] \notin {"fetch", "wait"}
  BY <1>1 DEF AlreadyInitialized, LoadFailed, BeginSave, UpdateReturns, WakeUp,
              Leave, Goto, Typed
<1> QED BY <1>1, <1>2, Alone, QuietSchedule

LEMMA ScheduleBeginCycle ==
  ASSUME NEW c \in Callers, Integrity, Schedule, Step(c), BeginCycle(c)
  PROVE  Schedule'
<1> DEFINE due == {n \in Selected : now >= status[n].nextAttempt}
<1>1. Typed /\ OneOperation /\ InTime /\ Spaced /\ UnreadableBlocks
  BY DEF Integrity, Schedule
<1>2. /\ UNCHANGED <<now, store, memory>> /\ pc'[c] # "wait"
      /\ request'[c] = [n \in due |-> db[n].version]
  BY <1>1 DEF BeginCycle, Goto, Typed
<1>3. InTime' /\ Spaced' /\ UnreadableBlocks'
  BY <1>1, <1>2 DEF InTime, Spaced, UnreadableBlocks, memory
<1>4. \A d \in Callers : d # c => pc'[d] = "idle"
  BY <1>1, Alone
<1>5. AskedAreDue'
  <2> SUFFICES ASSUME NEW d \in Callers, pc'[d] = "fetch", NEW n \in DOMAIN request'[d]
               PROVE  now >= status[n].nextAttempt
    BY <1>2 DEF AskedAreDue, memory
  <2>1. n \in due
    BY <1>2, <1>4
  <2> QED BY <2>1
<1>6. SleepsUntilDue'
  BY <1>2, <1>4 DEF SleepsUntilDue
<1> QED BY <1>3, <1>5, <1>6 DEF Schedule

LEMMA ScheduleSleep ==
  ASSUME NEW c \in Callers, Integrity, Schedule, Step(c), Sleep(c)
  PROVE  Schedule'
<1>1. Typed /\ OneOperation /\ InTime /\ Spaced /\ UnreadableBlocks /\ now \in Nat
  BY DEF Integrity, Schedule, Typed
<1>2. /\ UNCHANGED <<now, store, memory>> /\ pc'[c] = "wait" /\ wake'[c] = NextWake
  BY <1>1 DEF Sleep, Goto, Typed
<1>3. InTime' /\ Spaced' /\ UnreadableBlocks'
  BY <1>1, <1>2 DEF InTime, Spaced, UnreadableBlocks, memory
<1>4. \A d \in Callers : d # c => pc'[d] = "idle"
  BY <1>1, Alone
<1>5. AskedAreDue'
  BY <1>2, <1>4 DEF AskedAreDue
<1>6. SleepsUntilDue'
  <2> SUFFICES \/ NextWake <= now
               \/ /\ \A n \in Selected : NextWake <= status[n].nextAttempt
                  /\ dirty => NextWake <= nextSave
    BY <1>2, <1>4 DEF SleepsUntilDue, memory
  <2>1. NextWake = now => NextWake <= now
    BY <1>1
  <2> QED BY <1>1, <2>1, NextWakeType
<1> QED BY <1>3, <1>5, <1>6 DEF Schedule

LEMMA ScheduleCrash ==
  ASSUME Integrity, Schedule, Crash PROVE Schedule'
<1>1. Typed /\ SnapIsCurrent /\ InTime
  BY DEF Integrity, Schedule
<1>2. /\ store' = store \/ store' = Snapshot(db)
      /\ now' \in 1..now /\ now \in Nat
  BY <1>1 DEF Crash, SnapIsCurrent, Typed
<1>3. /\ ~initialized' /\ db' = Empty /\ status' = Zeroed
      /\ pc' = [c \in Callers |-> "idle"] /\ notBefore' = [n \in Selected |-> 0]
  BY Zenon DEF Crash
<1>4. InTime'
  <2>1. now' <= Horizon
    BY <1>1, <1>2, ConfigAssumption DEF InTime
  <2> QED BY <1>1, <1>2, <1>3, <2>1, EmptyTimes, ConfigAssumption
          DEF InTime, Snapshot, Stored
<1>5. Spaced'
  BY <1>3, EmptyTimes, ConfigAssumption DEF Spaced, Zeroed, ListStatus
<1> QED BY <1>3, <1>4, <1>5, AwakeSchedule DEF UnreadableBlocks

LEMMA ScheduleNext ==
  ASSUME Integrity, Schedule, [Next]_vars PROVE Schedule'
<1>1. Typed /\ now \in Nat /\ now <= Horizon
  BY DEF Integrity, Typed, Schedule, InTime
<1>2. CASE Tick
  <2>1. now' \in Nat /\ now' >= now /\ now' <= Horizon
    BY <1>1, <1>2, ConfigAssumption DEF Tick
  <2> QED BY <1>2, <2>1, QuietSchedule DEF Tick, locals
<1>3. CASE Crash
  BY <1>3, ScheduleCrash
<1>4. ASSUME NEW c \in Callers, Step(c) PROVE Schedule'
  BY <1>4, ScheduleQuiet, ScheduleInitialize, ScheduleBeginCycle, ScheduleSleep,
     ScheduleFetchFailed, ScheduleFetchReturned, ScheduleSave DEF Step
<1>5. ASSUME NEW c \in Callers, Cancel(c) PROVE Schedule'
  BY <1>1, <1>5, QuietSchedule DEF Cancel
<1>6. ASSUME NEW c \in Callers, NEW m \in {"update", "run"}, Enter(c, m)
      PROVE  Schedule'
  <2>1. \A d \in Callers : pc'[d] = pc[d] \/ pc'[d] = "init"
    BY <1>1, <1>6 DEF Enter, Goto, Typed
  <2>2. UNCHANGED <<now, store, memory, request, wake>>
    BY <1>6 DEF Enter
  <2> QED BY <1>1, <2>1, <2>2, QuietSchedule
<1>7. CASE UNCHANGED vars
  BY <1>1, <1>7, QuietSchedule DEF vars, locals
<1> QED BY <1>2, <1>3, <1>4, <1>5, <1>6, <1>7 DEF Next
----
(* What follows from Schedule *)

\* The scheduling invariant holds in every reachable state.
THEOREM ScheduleHolds == Spec => []Schedule
<1>1. Integrity /\ Schedule /\ [Next]_vars => Schedule'
  BY ScheduleNext
<1> QED BY <1>1, ScheduleInit, IntegrityHolds, PTL DEF Spec

\* An asked list is due, so no sooner than the service and its own time allow.
LEMMA AskedInTime ==
  ASSUME Integrity, Schedule, NEW c \in Callers, pc[c] = "fetch",
         NEW n \in DOMAIN request[c]
  PROVE  now >= notBefore[n] /\ now >= db[n].updatedAt
<1>1. request[c] \in Requests
  BY DEF Integrity, Typed
<1>2. n \in Selected /\ n \in Names
  BY <1>1, RequestType, ConfigAssumption
<1>3. /\ now \in Nat /\ status[n].nextAttempt \in Nat /\ notBefore[n] \in Nat
      /\ db[n].updatedAt \in Nat
  BY <1>2 DEF Integrity, Typed, Statuses, Lists, ListStates
<1> QED BY <1>2, <1>3 DEF Schedule, Spaced, AskedAreDue

\* No run of failures, refusals and restarts makes the updater ask for a list
\* sooner than the service's last answer about it allows.
THEOREM DeadlineTheorem == Spec => []ServerDeadlinesHonoured
<1>1. Integrity /\ Schedule => ServerDeadlinesHonoured
  BY AskedInTime DEF ServerDeadlinesHonoured
<1> QED BY <1>1, ScheduleHolds, IntegrityHolds, PTL

\* Nor sooner than the time it was stored with.
THEOREM PredatesTheorem == Spec => []NeverPredates
<1>1. Integrity /\ Schedule => NeverPredates
  BY AskedInTime DEF NeverPredates
<1> QED BY <1>1, ScheduleHolds, IntegrityHolds, PTL

\* Run never oversleeps a list or a save that is due.
THEOREM SleepTheorem == Spec => []NothingDueAsleep
<1>1. Integrity /\ Schedule => NothingDueAsleep
  <2> SUFFICES ASSUME Integrity, Schedule,
                      NEW c \in Callers, pc[c] = "wait", now < wake[c]
               PROVE  /\ \A n \in Selected : now < status[n].nextAttempt
                      /\ dirty => now < nextSave
    BY DEF NothingDueAsleep
  <2>1. now \in Nat /\ wake[c] \in Nat /\ nextSave \in Nat
        /\ \A n \in Selected : status[n].nextAttempt \in Nat
    BY DEF Integrity, Typed, Statuses
  <2> QED BY <2>1 DEF Schedule, SleepsUntilDue
<1> QED BY <1>1, ScheduleHolds, IntegrityHolds, PTL

\* Nothing the updater does overwrites a snapshot it cannot read.
THEOREM UnreadableTheorem == Spec => UnreadableKept
<1>1. Integrity /\ Schedule /\ [Next]_vars =>
        [store.kind \in {"newer", "oversized"} => store' = store]_vars
  <2> SUFFICES ASSUME Integrity, Schedule, Next, store.kind \in {"newer", "oversized"}
               PROVE  store' = store
    OBVIOUS
  <2>1. \A c \in Callers : pc[c] # "save"
    BY DEF Integrity, SnapIsCurrent, Schedule, UnreadableBlocks, Untouched
  <2>2. ASSUME NEW c \in Callers, Step(c) PROVE store' = store
    <3>1. CASE FetchFailed(c) \/ FetchReturned(c, Replies)
      <4>1. EndFetch(c)
        BY <3>1 DEF FetchFailed, CallFailed, FetchReturned, Received
      <4> QED BY <4>1 DEF EndFetch
    <3>2. CASE Saved(c) \/ SaveFailed(c)
      BY <2>1, <3>2 DEF Saved, SaveFailed, EndSave
    <3>3. CASE \/ AlreadyInitialized(c) \/ LoadFailed(c) \/ Initialize(c)
               \/ BeginCycle(c) \/ BeginSave(c) \/ UpdateReturns(c)
               \/ Sleep(c) \/ WakeUp(c)
      BY <3>3 DEF AlreadyInitialized, LoadFailed, Initialize, BeginCycle, BeginSave,
                  UpdateReturns, Sleep, WakeUp
    <3>4. CASE Abort(c)
      BY <2>1, <3>4 DEF Abort
    <3> QED BY <2>2, <3>1, <3>2, <3>3, <3>4 DEF Step
  <2>3. CASE Tick \/ Crash
    BY <2>1, <2>3 DEF Tick, Crash
  <2>4. ASSUME NEW c \in Callers, Cancel(c) PROVE store' = store
    BY <2>4 DEF Cancel
  <2>5. ASSUME NEW c \in Callers, NEW m \in {"update", "run"}, Enter(c, m)
        PROVE  store' = store
    BY <2>5 DEF Enter
  <2> QED BY <2>2, <2>3, <2>4, <2>5 DEF Next
<1> QED BY <1>1, ScheduleHolds, IntegrityHolds, PTL DEF Spec, UnreadableKept
----
(* Answers and the database *)

\* The versions of a request are those the database still has when the answer
\* comes: nothing else changes it meanwhile.
AskedAtVersion ==
  \A c \in Callers : pc[c] = "fetch" =>
    \A n \in DOMAIN request[c] : request[c][n] = db[n].version

LEMMA AskedAtVersionNext ==
  ASSUME Typed, OneOperation, AskedAtVersion, [Next]_vars PROVE AskedAtVersion'
<1> USE DEF AskedAtVersion
<1>1. CASE Tick
  BY <1>1 DEF Tick, locals, memory
<1>2. CASE Crash
  BY <1>2 DEF Crash
<1>3. ASSUME NEW c \in Callers, Step(c) PROVE AskedAtVersion'
  <2>1. \A d \in Callers : d # c => pc'[d] = "idle"
    BY <1>3, Alone
  <2>2. CASE BeginCycle(c)
    <3> SUFFICES ASSUME NEW n \in DOMAIN request'[c] PROVE request'[c][n] = db'[n].version
      BY <2>1
    <3> QED BY <2>2 DEF BeginCycle, Typed, memory
  <2>3. CASE ~BeginCycle(c)
    <3>1. pc'[c] # "fetch"
      BY <1>3, <2>3 DEF Step, AlreadyInitialized, LoadFailed, Initialize, FetchFailed,
         CallFailed, FetchReturned, Received, EndFetch, BeginSave, Saved, SaveFailed,
         EndSave, UpdateReturns, Sleep, WakeUp, Abort, Leave, Goto, Typed
    <3> QED BY <2>1, <3>1
  <2> QED BY <2>2, <2>3
<1>4. ASSUME NEW c \in Callers, Cancel(c) PROVE AskedAtVersion'
  BY <1>4 DEF Cancel, memory
<1>5. ASSUME NEW c \in Callers, NEW m \in {"update", "run"}, Enter(c, m)
      PROVE  AskedAtVersion'
  BY <1>5 DEF Enter, Goto, memory, Typed
<1>6. CASE UNCHANGED vars
  BY <1>6 DEF vars, locals, memory
<1> QED BY <1>1, <1>2, <1>3, <1>4, <1>5, <1>6 DEF Next

LEMMA AskedAtVersionAlways == Spec => []AskedAtVersion
<1>1. Init => AskedAtVersion
  BY DEF Init, AskedAtVersion
<1>2. Typed /\ OneOperation /\ AskedAtVersion /\ [Next]_vars => AskedAtVersion'
  BY AskedAtVersionNext
<1> QED BY <1>1, <1>2, TypedAlways, Exclusion, PTL DEF Spec
===========================================================================
