--------------------------- MODULE ListUpdater ---------------------------
(***************************************************************************)
(* updater.go: ListUpdater keeps the selected lists of a LocalDatabase up  *)
(* to date from an API and persists them in a SnapshotStore.               *)
(*                                                                         *)
(* Callers run Update (one cycle) or Run (cycles until cancellation). A    *)
(* step is a stretch of code between two points where another goroutine,   *)
(* the service, the store or the clock can be seen: the call of the API,   *)
(* the call of the store, the timer, and each acquisition of u.mu.         *)
(*                                                                         *)
(* Fields that only report (LastAttempt, LastSuccess, LastError, LoadError,*)
(* PersistenceError, LastSave, Running) and logging are left out.          *)
(***************************************************************************)
EXTENDS Snapshots, Services

CONSTANTS
  Names,         \* list names that may occur in a snapshot
  Selected,      \* UpdaterConfig.Lists
  Replies,       \* what the service may answer about one list
  RetryAfters,   \* values of a Retry-After header, as delays; 0 for none
  Callers,       \* goroutines that call Update or Run
  HasStore,      \* whether UpdaterConfig.Store is set
  InitialStores, \* what the store may hold at first
  RetryInitial, RetryMax,
  MaxFailures,   \* bound: failures above it are not told apart
  MaxTime,       \* bound: the clock stops here
  Horizon        \* bound: deadlines past it are not told apart

ListStates(waits) ==
  [hashes : [width : Nat, data : SUBSET Nat], version : Nat,
   checksum : {NoChecksum} \cup (Nat \X SUBSET Nat),
   wait : waits, updatedAt : Nat, meta : BOOLEAN]

Stores == [kind : {"absent", "snapshot", "corrupt", "newer", "newerShape",
                   "oversized"},
           lists : [Names -> ListStates(Int)]]

ASSUME ConfigAssumption ==
  /\ Selected \subseteq Names /\ Selected # {}
  /\ HasStore \in BOOLEAN
  /\ Width \in [Selected -> Widths]
  /\ RetryInitial \in Nat \ {0} /\ RetryMax \in Nat /\ RetryInitial <= RetryMax
  /\ MaxFailures \in Nat \ {0} /\ MaxTime \in Nat \ {0}
  /\ Horizon \in Nat /\ MaxTime <= Horizon

ASSUME ServiceAssumption ==
  /\ \A n \in Selected : /\ Versions(n) \subseteq Nat \ {0}
                         /\ Content[n] \in [Versions(n) -> SUBSET Nat]
                         /\ \A v \in Versions(n) : IsFiniteSet(Content[n][v])
  /\ BadHash \in Nat
  /\ RetryAfters \subseteq Nat
  /\ \A r \in Replies : /\ \A n \in Selected : r.version \in Versions(n)
                        /\ r.wait \in Nat
                        /\ r.full \in BOOLEAN /\ r.meta \in BOOLEAN
                        /\ r.fault \in {"none", "data", "base", "width",
                                        "wait", "index"}

\* The store is written by this program alone: a snapshot that passes
\* verification holds lists the service once served. Its times are told apart.
ASSUME StoreAssumption ==
  \A s \in InitialStores :
    /\ s \in Stores
    /\ s.kind # "snapshot" => s.lists = NoLists(Names)
    /\ \A n \in Names : s.lists[n].updatedAt <= Horizon
    /\ s.kind = "snapshot" /\ Readable(s.lists) =>
         \A n \in Selected : s.lists[n].hashes.width = Width[n] =>
           /\ s.lists[n].version \in Versions(n)
           /\ s.lists[n].hashes.data = Content[n][s.lists[n].version]

VARIABLES
  now,         \* the clock
  store,       \* what the SnapshotStore holds
  pc, mode, canceled,  \* of each caller: where it is, Run or Update, its ctx
  request,     \* the versions a caller sent with the API call in progress
  snap,        \* the lists a caller's Save in progress is writing
  wake,        \* when a caller's timer fires
  busy,        \* ListUpdater.busy
  initialized, db, status, dirty, saveFailures, nextSave,
  notBefore    \* history: the earliest time the service lets a list be asked
               \* for again, from its last answer about it

locals == <<pc, mode, canceled, request, snap, wake>>
memory == <<initialized, db, status, dirty, saveFailures, nextSave, notBefore>>
vars   == <<now, store, busy, locals, memory>>

NoRequest == << >>
Empty == NoLists(Names)
----
(* Deadlines and retries *)

Later(s, t) == IF s < t THEN t ELSE s
Earliest(T) == CHOOSE t \in T : \A s \in T : t <= s
Deadline(t) == IF t > Horizon THEN Horizon ELSE t

OneMore(failures) == IF failures < MaxFailures THEN failures + 1 ELSE failures

\* retryDelay before jitter: doubled for every failure after the first, until
\* doubling would pass RetryMax.
Backoff[f \in 1..MaxFailures] ==
  IF f = 1 THEN RetryInitial
  ELSE LET d == Backoff[f-1] IN
       IF d >= RetryMax THEN d
       ELSE IF d > RetryMax \div 2 THEN RetryMax ELSE 2 * d

\* The delays retryDelay may return: jitter keeps at least half.
Delays(failures) ==
  {d \in 0..RetryMax : Backoff[failures] \div 2 <= d /\ d <= Backoff[failures]}

\* One independently jittered delay for each of the lists ns.
ListDelays(ns) ==
  {f \in [ns -> 0..RetryMax] :
     \A n \in ns : f[n] \in Delays(OneMore(status[n].failures))}

ListStatus(available, failures, nextAttempt) ==
  [available |-> available, failures |-> failures, nextAttempt |-> nextAttempt]

FailedSooner(s, invalidate, delay, after) ==
  ListStatus(s.available /\ ~invalidate, OneMore(s.failures),
             Deadline(Later(now + delay, now + after)))
\* failLocked: the status of a list after a failure.
Failed(s, invalidate, delay, after) ==
  ListStatus(s.available /\ ~invalidate, OneMore(s.failures),
             Later(s.nextAttempt,
                   Deadline(Later(now + delay, now + after))))

\* The status of a list whose update was stored.
SucceededUnavailable(s) == ListStatus(s.available, 0, s.nextAttempt)
Succeeded(s) == ListStatus(TRUE, 0, s.nextAttempt)

\* nextDelay: the earliest deadline, or now if it has passed.
NextWakeUnsaved ==
  Later(now, Earliest({status[n].nextAttempt : n \in Selected}))
NextWakeLatest ==
  Later(now, CHOOSE t \in {status[n].nextAttempt : n \in Selected} :
               \A n \in Selected : status[n].nextAttempt <= t)
NextWake ==
  Later(now, Earliest({status[n].nextAttempt : n \in Selected}
                      \cup (IF dirty THEN {nextSave} ELSE {})))
----
(* Entering and leaving *)

\* Update and Run return: deferred leave, and the caller's locals are gone.
Leave(c) ==
  /\ busy' = FALSE
  /\ pc' = [pc EXCEPT ![c] = "idle"]
  /\ mode' = [mode EXCEPT ![c] = "update"]
  /\ canceled' = [canceled EXCEPT ![c] = FALSE]
  /\ request' = [request EXCEPT ![c] = NoRequest]
  /\ snap' = [snap EXCEPT ![c] = Empty]
  /\ wake' = [wake EXCEPT ![c] = 0]

Goto(c, label) == pc' = [pc EXCEPT ![c] = label]

\* enter: refused with ErrUpdaterRunning, and without effect, while busy.
EnterBusy(c, m) ==
  /\ pc[c] = "idle"
  /\ busy' = TRUE
  /\ Goto(c, "init")
  /\ mode' = [mode EXCEPT ![c] = m]
  /\ UNCHANGED <<now, store, canceled, request, snap, wake, memory>>
Enter(c, m) ==
  /\ pc[c] = "idle" /\ ~busy
  /\ busy' = TRUE
  /\ Goto(c, "init")
  /\ mode' = [mode EXCEPT ![c] = m]
  /\ UNCHANGED <<now, store, canceled, request, snap, wake, memory>>

\* A context that is done is noticed before the API call, when that call or
\* the store returns, and by the timer. A save given up may have published.
AbortNotAsleep(c) ==
  /\ pc[c] \notin {"idle", "wait"} /\ canceled[c]
  /\ \/ UNCHANGED store
     \/ pc[c] = "save" /\ store' = Snapshot(snap[c])
  /\ Leave(c)
  /\ UNCHANGED <<now, memory>>
Abort(c) ==
  /\ pc[c] # "idle" /\ canceled[c]
  /\ \/ UNCHANGED store
     \/ pc[c] = "save" /\ store' = Snapshot(snap[c])
  /\ Leave(c)
  /\ UNCHANGED <<now, memory>>
----
(* initialize *)

\* The loaded lists that are selected and have the configured width, with
\* metadata from the configuration where the snapshot had none.
KeptAnyWidth(lists) ==
  [n \in Names |->
     IF n \in Selected /\ Exists(lists, n)
     THEN [lists[n] EXCEPT !.meta = TRUE]
     ELSE NoList]
Kept(lists) ==
  [n \in Names |->
     IF n \in Selected /\ lists[n].hashes.width = Width[n]
     THEN [lists[n] EXCEPT !.meta = TRUE]
     ELSE NoList]

PublishUnscheduled(lists, toSave) ==
  /\ initialized' = TRUE
  /\ db' = lists
  /\ dirty' = (toSave /\ HasStore)
  /\ status' = [n \in Selected |->
       [status[n] EXCEPT !.available = Exists(lists, n)]]
  /\ notBefore' = [n \in Selected |-> Deadline(NextUpdate(lists[n]))]
  /\ UNCHANGED <<saveFailures, nextSave>>
Publish(lists, toSave) ==
  /\ initialized' = TRUE
  /\ db' = lists
  /\ dirty' = (toSave /\ HasStore)
  /\ status' = [n \in Selected |->
       IF Exists(lists, n)
       THEN ListStatus(TRUE, status[n].failures, Deadline(NextUpdate(lists[n])))
       ELSE status[n]]
  /\ notBefore' = [n \in Selected |-> Deadline(NextUpdate(lists[n]))]
  /\ UNCHANGED <<saveFailures, nextSave>>

\* What loading may come to; reading a store can always fail.
LoadErrors == IF HasStore THEN {LoadError(store), "ErrStorage"}
              ELSE {"ErrNotExist"}

\* The snapshots taken for corruption, which the updater starts over from: not
\* the ones it cannot read for another reason, nor a store that fails.
DiscardedUnsupported(err) == err \in {"ErrInvalidSnapshot", "ErrUnsupportedSnapshot"}
Discarded(err) == err = "ErrInvalidSnapshot"

AlreadyInitialized(c) ==
  /\ pc[c] = "init" /\ ~canceled[c] /\ initialized
  /\ Goto(c, "cycle")
  /\ UNCHANGED <<now, store, busy, mode, canceled, request, snap, wake, memory>>

LoadFailed(c) ==
  /\ pc[c] = "init" /\ ~canceled[c] /\ ~initialized
  /\ \E err \in LoadErrors \ {"none", "ErrNotExist"} : ~Discarded(err)
  /\ Leave(c)
  /\ UNCHANGED <<now, store, memory>>

Initialize(c) ==
  /\ pc[c] = "init" /\ ~canceled[c] /\ ~initialized
  /\ \E err \in LoadErrors :
       \/ err = "ErrNotExist" /\ Publish(Empty, FALSE)
       \/ Discarded(err) /\ Publish(Empty, TRUE)
       \/ err = "none" /\ LET loaded == Decoded(store.lists)
                          IN  Publish(Kept(loaded), Kept(loaded) # loaded)
  /\ Goto(c, "cycle")
  /\ UNCHANGED <<now, store, busy, mode, canceled, request, snap, wake>>
----
(* cycle *)

\* The due lists are asked for at their current versions, all in one call.
BeginCycle(c) ==
  LET due == {n \in Selected : now >= status[n].nextAttempt} IN
  /\ pc[c] = "cycle" /\ ~canceled[c]
  /\ request' = [request EXCEPT ![c] = [n \in due |-> db[n].version]]
  /\ Goto(c, IF due = {} THEN "presave" ELSE "fetch")
  /\ UNCHANGED <<now, store, busy, mode, canceled, snap, wake, memory>>

EndFetch(c) ==
  /\ pc[c] = "fetch" /\ ~canceled[c]
  /\ request' = [request EXCEPT ![c] = NoRequest]
  /\ Goto(c, "presave")
  /\ UNCHANGED <<now, store, busy, mode, canceled, snap, wake,
                 initialized, saveFailures, nextSave>>

\* The lists an error of the API call invalidates: none for an error of the
\* transport, the one a ListResponseError names, or else all that were asked.
Blamed(asked) == {{}, asked} \cup {{n} : n \in asked}

\* The call returned an error that invalidates the lists blamed, with the delay
\* of a Retry-After header or 0.
CallFailed(c, blamed, after) ==
  LET asked == DOMAIN request[c] IN
  \E delay \in ListDelays(asked) :
    /\ EndFetch(c)
    /\ db' = [n \in Names |-> IF n \in blamed THEN NoList ELSE db[n]]
    /\ dirty' = (dirty \/ (HasStore /\ \E n \in blamed : Exists(db, n)))
    /\ status' = [n \in Selected |->
         IF n \in asked THEN Failed(status[n], n \in blamed, delay[n], after)
         ELSE status[n]]
    /\ notBefore' = [n \in Selected |->
         IF n \in asked THEN Later(notBefore[n], Deadline(now + after))
         ELSE notBefore[n]]

FetchFailed(c) ==
  \E blamed \in Blamed(DOMAIN request[c]), after \in RetryAfters :
    /\ blamed # {} => after = 0
    /\ CallFailed(c, blamed, after)

\* What the updater stores for list n when update u arrives for version sent.
Refused(n, u, sent) ==
  \/ u.base # sent
  \/ u.additions.width # Width[n]
  \/ ApplyError(db, u, now) # "none"

Filled(u, n) == [u EXCEPT !.meta = @ \/ ~db[n].meta]

\* The service's wait counts even when its update is refused.
Told(n, u) == IF u.wait >= 0 THEN Deadline(now + u.wait) ELSE status[n].nextAttempt

\* One update per requested list, each accepted or refused on its own.
Received(c, update, delay) ==
  LET asked   == DOMAIN request[c]
      refused == {n \in asked : Refused(n, update[n], request[c][n])}
  IN /\ EndFetch(c)
     /\ db' = [n \in Names |->
          IF n \in refused THEN NoList
          ELSE IF n \in asked THEN Apply(db, Filled(update[n], n), now)[n]
          ELSE db[n]]
     /\ dirty' = (\/ dirty
                  \/ HasStore /\ (\/ asked # refused
                                  \/ \E n \in refused : Exists(db, n)))
     /\ status' = [n \in Selected |->
          LET told == ListStatus(status[n].available, status[n].failures,
                                 Told(n, update[n]))
          IN IF n \in refused THEN Failed(told, TRUE, delay[n], 0)
             ELSE IF n \in asked THEN Succeeded(told)
             ELSE status[n]]
     /\ notBefore' = [n \in Selected |->
          IF n \in asked /\ update[n].wait >= 0 THEN Deadline(now + update[n].wait)
          ELSE notBefore[n]]

FetchReturned(c, replies) ==
  \E reply \in [DOMAIN request[c] -> replies], delay \in ListDelays(DOMAIN request[c]) :
    Received(c, [n \in DOMAIN request[c] |-> Update(n, request[c][n], reply[n])],
             delay)
----
(* save, and what follows a cycle *)

BeginSave(c) ==
  LET should == dirty /\ now >= nextSave IN
  /\ pc[c] = "presave" /\ ~canceled[c]
  /\ Goto(c, IF should THEN "save" ELSE "done")
  /\ snap' = [snap EXCEPT ![c] = IF should THEN db ELSE Empty]
  /\ UNCHANGED <<now, store, busy, mode, canceled, request, wake, memory>>

EndSave(c) ==
  /\ pc[c] = "save" /\ ~canceled[c]
  /\ snap' = [snap EXCEPT ![c] = Empty]
  /\ Goto(c, "done")
  /\ UNCHANGED <<now, busy, mode, canceled, request, wake,
                 initialized, db, status, notBefore>>

SavedStaysDirty(c) ==
  /\ EndSave(c)
  /\ store' = Snapshot(snap[c])
  /\ saveFailures' = 0 /\ nextSave' = 0
  /\ UNCHANGED dirty
Saved(c) ==
  /\ EndSave(c)
  /\ store' = Snapshot(snap[c])
  /\ dirty' = FALSE /\ saveFailures' = 0 /\ nextSave' = 0

\* A store may fail before it publishes the snapshot, or after.
SaveFailedForgets(c) ==
  /\ EndSave(c)
  /\ store' \in {store, Snapshot(snap[c])}
  /\ saveFailures' = OneMore(saveFailures)
  /\ \E delay \in Delays(saveFailures') : nextSave' = Deadline(now + delay)
  /\ dirty' = FALSE
SaveFailed(c) ==
  /\ EndSave(c)
  /\ store' \in {store, Snapshot(snap[c])}
  /\ saveFailures' = OneMore(saveFailures)
  /\ \E delay \in Delays(saveFailures') : nextSave' = Deadline(now + delay)
  /\ UNCHANGED dirty

\* Update returns; Run computes its delay and sleeps.
UpdateReturns(c) ==
  /\ pc[c] = "done" /\ mode[c] = "update"
  /\ Leave(c)
  /\ UNCHANGED <<now, store, memory>>

Sleep(c) ==
  /\ pc[c] = "done" /\ mode[c] = "run" /\ ~canceled[c]
  /\ wake' = [wake EXCEPT ![c] = NextWake]
  /\ Goto(c, "wait")
  /\ UNCHANGED <<now, store, busy, mode, canceled, request, snap, memory>>

WakeUp(c) ==
  /\ pc[c] = "wait" /\ ~canceled[c] /\ now >= wake[c]
  /\ wake' = [wake EXCEPT ![c] = 0]
  /\ Goto(c, "cycle")
  /\ UNCHANGED <<now, store, busy, mode, canceled, request, snap, memory>>
----
(* The environment *)

Tick ==
  /\ now < MaxTime
  /\ now' = now + 1
  /\ UNCHANGED <<store, busy, locals, memory>>

Cancel(c) ==
  /\ pc[c] # "idle" /\ ~canceled[c]
  /\ canceled' = [canceled EXCEPT ![c] = TRUE]
  /\ UNCHANGED <<now, store, busy, pc, mode, request, snap, wake, memory>>

Zeroed == [n \in Selected |-> ListStatus(FALSE, 0, 0)]

\* The process dies and starts again with a new updater. A save in progress
\* may have published, and the wall clock may have been set back meanwhile.
Crash ==
  /\ store' \in {store} \cup {Snapshot(snap[c]) : c \in {d \in Callers : pc[d] = "save"}}
  /\ now' \in 1..now
  /\ busy' = FALSE
  /\ pc' = [c \in Callers |-> "idle"]
  /\ mode' = [c \in Callers |-> "update"]
  /\ canceled' = [c \in Callers |-> FALSE]
  /\ request' = [c \in Callers |-> NoRequest]
  /\ snap' = [c \in Callers |-> Empty]
  /\ wake' = [c \in Callers |-> 0]
  /\ initialized' = FALSE /\ db' = Empty /\ status' = Zeroed
  /\ dirty' = FALSE /\ saveFailures' = 0 /\ nextSave' = 0
  /\ notBefore' = [n \in Selected |-> 0]
----
Init ==
  /\ now = 1
  /\ store \in InitialStores
  /\ busy = FALSE
  /\ pc = [c \in Callers |-> "idle"]
  /\ mode = [c \in Callers |-> "update"]
  /\ canceled = [c \in Callers |-> FALSE]
  /\ request = [c \in Callers |-> NoRequest]
  /\ snap = [c \in Callers |-> Empty]
  /\ wake = [c \in Callers |-> 0]
  /\ initialized = FALSE /\ db = Empty /\ status = Zeroed
  /\ dirty = FALSE /\ saveFailures = 0 /\ nextSave = 0
  /\ notBefore = [n \in Selected |-> 0]

Step(c) ==
  \/ AlreadyInitialized(c) \/ LoadFailed(c) \/ Initialize(c)
  \/ BeginCycle(c) \/ FetchFailed(c) \/ FetchReturned(c, Replies)
  \/ BeginSave(c) \/ Saved(c) \/ SaveFailed(c)
  \/ UpdateReturns(c) \/ Sleep(c) \/ WakeUp(c)
  \/ Abort(c)

Next ==
  \/ Tick \/ Crash
  \/ \E c \in Callers :
       Step(c) \/ Cancel(c) \/ \E m \in {"update", "run"} : Enter(c, m)

Spec == Init /\ [][Next]_vars

\* The scheduler runs every goroutine that can run, and time passes. That the
\* service sooner or later answers a caller that keeps asking, and the store
\* completes a save that is retried for ever, is assumed of them.
Honest == {r \in Replies : r.fault = "none"}

Fairness ==
  /\ WF_vars(Tick)
  /\ \A c \in Callers : /\ WF_vars(Step(c))
                        /\ SF_vars(FetchReturned(c, Honest))
                        /\ SF_vars(Saved(c))

FairSpec == Spec /\ Fairness
----
(* Properties *)

Lists == [Names -> ListStates(Nat)]
Statuses == [available : BOOLEAN, failures : 0..MaxFailures, nextAttempt : Nat]
Labels == {"idle", "init", "cycle", "fetch", "presave", "save", "done", "wait"}

\* Every variable has its type.
TypeOK ==
  /\ now \in Nat \ {0}
  /\ store \in Stores
  /\ busy \in BOOLEAN
  /\ pc \in [Callers -> Labels]
  /\ mode \in [Callers -> {"update", "run"}]
  /\ canceled \in [Callers -> BOOLEAN]
  /\ \A c \in Callers : /\ DOMAIN request[c] \subseteq Selected
                        /\ \A n \in DOMAIN request[c] : request[c][n] \in Nat
  /\ snap \in [Callers -> Lists]
  /\ wake \in [Callers -> Nat]
  /\ initialized \in BOOLEAN
  /\ db \in Lists
  /\ status \in [Selected -> Statuses]
  /\ dirty \in BOOLEAN
  /\ saveFailures \in 0..MaxFailures
  /\ nextSave \in Nat
  /\ notBefore \in [Selected -> Nat]

\* The updater runs one Update or Run at a time, whoever calls and however
\* they return, and is busy exactly then (enter and leave).
OneOperation ==
  /\ \A c, d \in Callers : pc[c] # "idle" /\ pc[d] # "idle" => c = d
  /\ busy <=> \E c \in Callers : pc[c] # "idle"

\* What readyLocked reads, the Available flags, says what the database holds:
\* a selected list is available exactly when it is there with the configured
\* width and with metadata, and no other list is there (initialize, cycle,
\* failLocked).
ReadyMeansLoaded ==
  initialized =>
    \A n \in Names :
      IF n \in Selected /\ status[n].available
      THEN db[n].hashes.width = Width[n] /\ db[n].meta /\ db[n].version # 0
      ELSE db[n] = NoList

\* A list that can be looked up holds what the service has at its version,
\* whatever faulty updates and damaged snapshots came (Apply, ApplyUpdate,
\* decodeDatabase).
ListsMatchService ==
  \A n \in Selected : Exists(db, n) =>
    /\ db[n].version \in Versions(n)
    /\ db[n].hashes.data = Content[n][db[n].version]

\* While nothing is dirty, a restart would get from the store the database
\* there is now, and would keep all of it (save, initialize). And what a save
\* in progress publishes would be restored in full.
Restores(lists) == Readable(lists) /\ Decoded(lists) = lists /\ Kept(lists) = lists

CleanMeansSaved ==
  HasStore /\ initialized /\ ~dirty =>
    \/ store.kind = "absent" /\ db = Empty
    \/ store.kind = "snapshot" /\ store.lists = db /\ Restores(db)

SavesRestorable ==
  \A c \in Callers : pc[c] = "save" => Restores(snap[c])

\* A list is never asked for before the time the service's last answer about
\* it set, by its wait or by a Retry-After (Update's promise never to bypass
\* server deadlines), across failures, refusals and restarts.
ServerDeadlinesHonoured ==
  \A c \in Callers : pc[c] = "fetch" =>
    \A n \in DOMAIN request[c] : now >= notBefore[n]

\* A list is never asked for at a time before the one it was stored with, so
\* Apply cannot refuse the answer for predating it, though the clock may have
\* been set back since the snapshot was written.
NeverPredates ==
  \A c \in Callers : pc[c] = "fetch" =>
    \A n \in DOMAIN request[c] : now >= db[n].updatedAt

\* While Run sleeps, no list is due and no unsaved state may be saved
\* (nextDelay against the conditions of cycle and save).
NothingDueAsleep ==
  \A c \in Callers : pc[c] = "wait" /\ now < wake[c] =>
    /\ \A n \in Selected : now < status[n].nextAttempt
    /\ dirty => now < nextSave

\* A snapshot of a format this program does not read, or one too large to
\* read, is never overwritten (ErrUnsupportedSnapshot's doc).
UnreadableKept ==
  [][store.kind \in {"newer", "oversized"} => store' = store]_vars

\* The same of a format whose JSON does not fit persistedSnapshot.
NewerFormatKept == [][store.kind = "newerShape" => store' = store]_vars

Ready == initialized /\ \A n \in Selected : status[n].available
Running(c) == pc[c] # "idle" /\ mode[c] = "run" /\ ~canceled[c]

\* A canceled caller returns.
CancelStops == \A c \in Callers : canceled[c] ~> pc[c] = "idle"

\* Under a Run that goes on for ever, the updater is ready again and again,
\* whatever faulty answers come in between.
RunGetsReady == \A c \in Callers : <>[]Running(c) => []<>Ready

\* Under a Run that goes on for ever, unsaved state is saved again and again.
RunSaves == \A c \in Callers : <>[]Running(c) => []<>~dirty
==========================================================================
