------------------------ MODULE ConcurrentDatabase ------------------------
(***************************************************************************)
(* database.go and persistence.go: one LocalDatabase shared by goroutines  *)
(* that update it, invalidate its lists and save it.                       *)
(*                                                                         *)
(* Get, Apply, Invalidate and Lists hold db.mu throughout and are one step *)
(* each. Save is several: it waits for saveMu, takes a snapshot, and then  *)
(* the store reads from a pipe what an encoder goroutine writes to it.     *)
(* Sizes: a snapshot is Chunks reads long.                                 *)
(***************************************************************************)
EXTENDS Services, TLC

CONSTANTS
  Names,       \* the lists
  Writers,     \* goroutines that call Get, then Apply or Invalidate
  Savers,      \* goroutines that call Save
  Loaded,      \* what the database, and the store, may hold at first
  Chunks,      \* bound: reads it takes to consume an encoded snapshot
  MaxTime,     \* bound: the times updates are received at
  MaxChanges   \* bound: the changes made to the database

ListStates ==
  [hashes : [width : Nat, data : SUBSET Nat], version : Nat,
   checksum : {NoChecksum} \cup (Nat \X SUBSET Nat),
   wait : Nat, updatedAt : Nat, meta : BOOLEAN]
States == [Names -> ListStates]

\* A list that is there holds what the service has at its version.
Genuine(l) ==
  \A n \in Names : Exists(l, n) =>
    /\ l[n].version \in Versions(n)
    /\ l[n].hashes = HashList(Width[n], Content[n][l[n].version])

ASSUME DatabaseAssumption ==
  /\ Names # {} /\ Width \in [Names -> Widths]
  /\ \A n \in Names : /\ Versions(n) \subseteq Nat \ {0}
                      /\ Content[n] \in [Versions(n) -> SUBSET Nat]
  /\ BadHash \in Nat
  /\ \A l \in Loaded : l \in States /\ Genuine(l)
  /\ Chunks \in Nat \ {0} /\ MaxTime \in Nat /\ MaxChanges \in Nat

VARIABLES
  lists,    \* LocalDatabase.lists
  changes,  \* history: how many changes have been made to lists
  writer,   \* of each writer: the list and version it read
  saver,    \* of each call of Save: see Idle
  holder,   \* who holds saveMu
  store     \* what the store has published: lists, and as of which change

vars == <<lists, changes, writer, saver, holder, store>>

Nobody == "nobody"
ASSUME NobodyAssumption == Nobody \notin Savers

Unread == [reading |-> FALSE, name |-> CHOOSE n \in Names : TRUE, version |-> 0]

\* pc: where Save is. canceled: its ctx. taken: the change its snapshot was
\* taken at. encoder: "none" before it starts; "writing" with left chunks to go;
\* "ok" or "failed" when it has sent its error. open: whether the store's end of
\* the pipe is. err: what store.Save returned; result: what Save returned, with
\* since, history, the change at which it was called.
Nothing == [n \in Names |-> NoList]
Idle == [pc |-> "idle", canceled |-> FALSE, snap |-> Nothing, taken |-> 0,
         encoder |-> "none", left |-> 0, open |-> FALSE, err |-> FALSE,
         result |-> "none", since |-> 0]

Set(s, state) == saver' = [saver EXCEPT ![s] = state]
----
(* Writers *)

Read(w) ==
  /\ ~writer[w].reading
  /\ \E n \in Names :
       writer' = [writer EXCEPT ![w] = [reading |-> TRUE, name |-> n,
                                        version |-> lists[n].version]]
  /\ UNCHANGED <<lists, changes, saver, holder, store>>

Change(w, new) ==
  /\ lists' = new
  /\ changes' = IF new = lists THEN changes ELSE changes + 1
  /\ changes < MaxChanges
  /\ writer' = [writer EXCEPT ![w] = Unread]
  /\ UNCHANGED <<saver, holder, store>>

\* Any update the service may send to who has the version that was read: never
\* to an older one.
Answers(n, base) ==
  {Update(n, base, [version |-> v, wait |-> 0, full |-> full, meta |-> TRUE, fault |-> "none"]) :
     v \in {x \in Versions(n) : x >= base}, full \in BOOLEAN}

\* Others may have changed the list since the version was read.
ApplyStep(w) ==
  /\ writer[w].reading
  /\ \E u \in Answers(writer[w].name, writer[w].version), at \in 1..MaxTime :
       Change(w, Apply(lists, u, at))

InvalidateStep(w) ==
  /\ writer[w].reading
  /\ Change(w, Invalidate(lists, writer[w].name, writer[w].version))
----
(* LocalDatabase.Save *)

\* Save returns, and unlocks saveMu if it holds it.
Return(s, err) ==
  /\ Set(s, IF err THEN [Idle EXCEPT !.result = "error"]
            ELSE [Idle EXCEPT !.result = "nil", !.since = saver[s].since])
  /\ holder' = IF holder = s THEN Nobody ELSE holder

\* A context that is done is noticed before saveMu is waited for, and again once
\* it is held, but not meanwhile.
Call(s) ==
  /\ saver[s].pc = "idle"
  /\ \/ Set(s, [Idle EXCEPT !.pc = "lock", !.since = changes])
     \/ Set(s, [Idle EXCEPT !.result = "error"])
  /\ UNCHANGED <<lists, changes, writer, holder, store>>

GiveUp(s) ==
  /\ saver[s].pc = "locked" /\ saver[s].canceled
  /\ Return(s, TRUE)
  /\ UNCHANGED <<lists, changes, writer, store>>

LockNot(s) ==
  /\ saver[s].pc = "lock"
  /\ holder' = s
  /\ Set(s, [saver[s] EXCEPT !.pc = "locked"])
  /\ UNCHANGED <<lists, changes, writer, store>>
Lock(s) ==
  /\ saver[s].pc = "lock" /\ holder = Nobody
  /\ holder' = s
  /\ Set(s, [saver[s] EXCEPT !.pc = "locked"])
  /\ UNCHANGED <<lists, changes, writer, store>>

\* The lists are copied, and the encoder starts to write them to the pipe.
Take(s) ==
  /\ saver[s].pc = "locked" /\ ~saver[s].canceled
  /\ Set(s, [saver[s] EXCEPT !.pc = "store", !.snap = lists, !.taken = changes,
               !.encoder = "writing", !.left = Chunks, !.open = TRUE])
  /\ UNCHANGED <<lists, changes, writer, holder, store>>

\* A write to the pipe waits for a read, or for the pipe to be closed.
ReadChunk(s) ==
  /\ saver[s].pc = "store" /\ saver[s].encoder = "writing" /\ saver[s].left > 0
  /\ ~saver[s].canceled
  /\ Set(s, [saver[s] EXCEPT !.left = @ - 1])
  /\ UNCHANGED <<lists, changes, writer, holder, store>>

\* Everything is written, so the pipe is closed and the encoder is done.
EncoderEnds(s) ==
  /\ saver[s].encoder = "writing" /\ saver[s].left = 0
  /\ Set(s, [saver[s] EXCEPT !.encoder = "ok"])
  /\ UNCHANGED <<lists, changes, writer, holder, store>>

\* A list that cannot be encoded: nothing of it is written.
EncodingFails(s) ==
  /\ saver[s].encoder = "writing" /\ saver[s].left = Chunks
  /\ Set(s, [saver[s] EXCEPT !.encoder = "failed"])
  /\ UNCHANGED <<lists, changes, writer, holder, store>>

\* The pipe was closed before everything was read from it.
WriteFails(s) ==
  /\ saver[s].encoder = "writing" /\ saver[s].left > 0 /\ ~saver[s].open
  /\ Set(s, [saver[s] EXCEPT !.encoder = "failed"])
  /\ UNCHANGED <<lists, changes, writer, holder, store>>

\* store.Save returned, and the pipe is closed whatever it has read. Nobody looks
\* at the context or the snapshot any more.
StoreReturnsOpen(s, err) ==
  Set(s, [saver[s] EXCEPT !.pc = "join", !.err = err, !.canceled = FALSE,
            !.snap = Nothing, !.taken = 0])
StoreReturns(s, err) ==
  Set(s, [saver[s] EXCEPT !.pc = "join", !.err = err, !.canceled = FALSE,
            !.snap = Nothing, !.taken = 0, !.open = FALSE])

\* A store publishes what it has read to the end, and may fail afterwards.
Publish(s) ==
  /\ saver[s].pc = "store" /\ saver[s].encoder = "ok"
  /\ store' = [lists |-> saver[s].snap, taken |-> saver[s].taken]
  /\ \E err \in BOOLEAN : StoreReturns(s, err)
  /\ UNCHANGED <<lists, changes, writer, holder>>

\* Or it returns without publishing: with an error at any time, its own or that
\* of a read; and should it stop reading early, perhaps without one.
StopReading(s) ==
  /\ saver[s].pc = "store"
  /\ \E err \in BOOLEAN : (saver[s].left > 0 \/ err) /\ StoreReturns(s, err)
  /\ UNCHANGED <<lists, changes, writer, holder, store>>

\* The encoder is joined, and the store's error goes before the encoder's.
ResultOfStore(s) == saver[s].err
Result(s) == saver[s].err \/ saver[s].encoder = "failed"

Join(s) ==
  /\ saver[s].pc = "join" /\ saver[s].encoder \in {"ok", "failed"}
  /\ Return(s, Result(s))
  /\ UNCHANGED <<lists, changes, writer, store>>

Cancel(s) ==
  /\ saver[s].pc \in {"lock", "locked", "store"} /\ ~saver[s].canceled
  /\ Set(s, [saver[s] EXCEPT !.canceled = TRUE])
  /\ UNCHANGED <<lists, changes, writer, holder, store>>
----
Init ==
  /\ lists \in Loaded /\ changes = 0
  /\ writer = [w \in Writers |-> Unread]
  /\ saver = [s \in Savers |-> Idle]
  /\ holder = Nobody
  /\ store = [lists |-> lists, taken |-> 0]

StoreStep(s) == ReadChunk(s) \/ Publish(s) \/ StopReading(s)
EncoderStep(s) == EncoderEnds(s) \/ WriteFails(s)
SaveStep(s) == GiveUp(s) \/ Take(s) \/ Join(s)

Next ==
  \/ \E w \in Writers : Read(w) \/ ApplyStep(w) \/ InvalidateStep(w)
  \/ \E s \in Savers :
       \/ Call(s) \/ Lock(s) \/ SaveStep(s) \/ StoreStep(s)
       \/ EncoderStep(s) \/ EncodingFails(s) \/ Cancel(s)

Spec == Init /\ [][Next]_vars

\* The scheduler runs every goroutine that can run, sync.Mutex lets no one wait
\* for ever, and the store sooner or later returns.
FairSpec ==
  /\ Spec
  /\ \A s \in Savers : /\ SF_vars(Lock(s))
                       /\ WF_vars(SaveStep(s))
                       /\ WF_vars(StoreStep(s))
                       /\ WF_vars(EncoderStep(s))
----
(* Properties *)

SaverStates ==
  [pc : {"idle", "lock", "locked", "store", "join"}, canceled : BOOLEAN,
   snap : States, taken : Nat, encoder : {"none", "writing", "ok", "failed"},
   left : 0..Chunks, open : BOOLEAN, err : BOOLEAN,
   result : {"none", "nil", "error"}, since : Nat]

\* Every variable has its type.
TypeOK ==
  /\ lists \in States /\ changes \in Nat
  /\ writer \in [Writers -> [reading : BOOLEAN, name : Names, version : Nat]]
  /\ saver \in [Savers -> SaverStates]
  /\ holder \in Savers \cup {Nobody}
  /\ store \in [lists : States, taken : Nat]

\* A list holds what the service has at its version, however goroutines that
\* read its version earlier race (Apply's check of the base version).
ListsMatchService == Genuine(lists)

\* While it is there, a list never goes back to an older version, nor to one
\* received earlier, whichever of several answers is applied last (Apply).
NeverBack ==
  [][\A n \in Names : Exists(lists, n) /\ Exists(lists', n) =>
       /\ lists'[n].version >= lists[n].version
       /\ lists'[n].updatedAt >= lists[n].updatedAt]_vars

\* "Concurrent saves on this database are serialized so an older snapshot cannot
\* finish after a newer one" (Save).
NeverOlder == [][store'.taken >= store.taken]_vars

\* A Save that returned nil has published a snapshot that holds whatever the
\* database held when it was called, though the store failed, stopped reading
\* or was overtaken by another Save (Save).
AckedSaves == \A s \in Savers : saver[s].result = "nil" => store.taken >= saver[s].since

\* Every Save returns, though the store stops reading with the encoder in the
\* middle of a write ("Always close and join the producer").
SavesReturn == \A s \in Savers : saver[s].pc # "idle" ~> saver[s].pc = "idle"
===========================================================================
