-------------------- MODULE ConcurrentDatabaseProofs --------------------
(***************************************************************************)
(* Theorems about ConcurrentDatabase for every value of its constants.     *)
(***************************************************************************)
EXTENDS ConcurrentDatabase, TLAPS
----
(* Applying an answer, to whatever the list has become since it was asked for *)

Packed == [width : Nat, data : SUBSET Nat]
Sums == {NoChecksum} \cup (Nat \X SUBSET Nat)

\* The answers of the service, by what they are made of.
Answer(n, base, v, full) ==
  Update(n, base, [version |-> v, wait |-> 0, full |-> full, meta |-> TRUE, fault |-> "none"])

LEMMA ChecksumInjective ==
  ASSUME NEW w \in Widths, NEW d, NEW e,
         Checksum(HashList(w, d)) = Checksum(HashList(w, e))
  PROVE  d = e
BY DEF Checksum, HashList, Widths

LEMMA AnswerNames ==
  ASSUME NEW n, NEW base, NEW v, NEW full
  PROVE  Answer(n, base, v, full).name = n /\ Answer(n, base, v, full).base = base
BY DEF Answer, Update

LEMMA AnswerVersion ==
  ASSUME NEW n, NEW base, NEW v, NEW full
  PROVE  Answer(n, base, v, full).version = v
BY DEF Answer, Update

LEMMA AnswerWait ==
  ASSUME NEW n, NEW base, NEW v, NEW full
  PROVE  Answer(n, base, v, full).wait = 0
BY DEF Answer, Update

LEMMA AnswerMeta ==
  ASSUME NEW n, NEW base, NEW v, NEW full
  PROVE  Answer(n, base, v, full).meta = TRUE
BY DEF Answer, Update

LEMMA ContentType ==
  ASSUME NEW n \in Names, NEW v \in Versions(n)
  PROVE  v \in Nat \ {0} /\ Content[n][v] \in SUBSET Nat /\ Width[n] \in Widths /\ Widths \subseteq Nat
BY DatabaseAssumption DEF Versions, Widths

LEMMA AnswerSums ==
  ASSUME NEW n \in Names, NEW base, NEW v \in Versions(n), NEW full
  PROVE  /\ Answer(n, base, v, full).additions.width = Width[n]
         /\ Answer(n, base, v, full).additions \in Packed
         /\ Answer(n, base, v, full).checksum \in
              {NoChecksum, Checksum(HashList(Width[n], Content[n][v]))}
         /\ Answer(n, base, v, full).checksum \in Sums
<1> DEFINE partial == ~full /\ base \in Versions(n)
           new == Content[n][v]
           old == IF partial THEN Content[n][base] ELSE {}
           u == Answer(n, base, v, full)
<1>1. /\ u.additions = HashList(Width[n], (new \ old) \cup {})
      /\ u.checksum = IF partial /\ new = old THEN NoChecksum
                      ELSE Checksum(HashList(Width[n], new))
  BY DEF Answer, Update
<1>2. HashList(Width[n], new) \in Packed /\ HashList(Width[n], (new \ old) \cup {}) \in Packed
  BY ContentType DEF HashList, Packed
<1>3. Checksum(HashList(Width[n], new)) \in Nat \X SUBSET Nat
  BY <1>2 DEF Checksum, Packed
<1>4. HashList(Width[n], (new \ old) \cup {}).width = Width[n]
  BY DEF HashList
<1> QED BY <1>1, <1>2, <1>3, <1>4 DEF Sums

LEMMA AnswerUnsummed ==
  ASSUME NEW n \in Names, NEW base, NEW v \in Versions(n), NEW full,
         Answer(n, base, v, full).checksum = NoChecksum
  PROVE  /\ Answer(n, base, v, full).partial = TRUE
         /\ base \in Versions(n) /\ Content[n][v] = Content[n][base]
<1>1. Checksum(HashList(Width[n], Content[n][v])) # NoChecksum
  BY DEF Checksum, NoChecksum
<1> QED BY <1>1 DEF Answer, Update

\* What Apply stores is what the service has at the version of the answer, though
\* the list may no longer be at the version the answer was made for.
LEMMA AppliedGenuine ==
  ASSUME lists \in States, Genuine(lists), NEW n \in Names, NEW base,
         NEW v \in Versions(n), NEW full, NEW at \in Nat,
         ApplyError(lists, Answer(n, base, v, full), at) = "none"
  PROVE  LET got == AppliedState(lists[n], Answer(n, base, v, full), at) IN
         /\ got \in ListStates
         /\ got.version = v /\ got.updatedAt = at
         /\ got.hashes = HashList(Width[n], Content[n][v])
<1> DEFINE u == Answer(n, base, v, full)
           p == lists[n]
           new == Content[n][v]
           got == AppliedState(p, u, at)
           merged == Merged(p.hashes, u)
<1>1. /\ u.name = n /\ u.version = v /\ u.meta = TRUE /\ u.wait = 0
      /\ u.base = base /\ u.additions.width = Width[n] /\ u.additions \in Packed
      /\ u.checksum = NoChecksum \/ u.checksum = Checksum(HashList(Width[n], new))
      /\ u.checksum = NoChecksum => u.partial = TRUE /\ base \in Versions(n) /\ new = Content[n][base]
      /\ u.checksum \in Sums
  <2>1. u.name = n /\ u.base = base
    BY AnswerNames
  <2>2. u.version = v
    BY AnswerVersion
  <2>3. u.wait = 0
    BY AnswerWait
  <2>4. u.meta = TRUE
    BY AnswerMeta
  <2>5. /\ u.additions.width = Width[n] /\ u.additions \in Packed
        /\ u.checksum = NoChecksum \/ u.checksum = Checksum(HashList(Width[n], new))
        /\ u.checksum \in Sums
    BY AnswerSums
  <2>6. u.checksum = NoChecksum => u.partial = TRUE /\ base \in Versions(n) /\ new = Content[n][base]
    <3>1. SUFFICES ASSUME u.checksum = NoChecksum
                   PROVE  u.partial = TRUE /\ base \in Versions(n) /\ new = Content[n][base]
      OBVIOUS
    <3>2. Answer(n, base, v, full).checksum = NoChecksum
      BY <3>1
    <3>3. /\ Answer(n, base, v, full).partial = TRUE
          /\ base \in Versions(n) /\ Content[n][v] = Content[n][base]
      BY <3>2, AnswerUnsummed
    <3> QED BY <3>3
  <2> HIDE DEF u
  <2> QED BY <2>1, <2>2, <2>3, <2>4, <2>5, <2>6
<1>2. p \in ListStates /\ p.hashes \in Packed /\ p.checksum \in Sums /\ v \in Nat
  BY ContentType DEF States, ListStates, Packed, Sums
<1>3. /\ got.hashes = merged /\ got.version = v /\ got.updatedAt = at
      /\ got.checksum = IF u.checksum = NoChecksum THEN p.checksum ELSE u.checksum
      /\ got.wait = 0 /\ got.meta = TRUE
      /\ got = ListState(got.hashes, got.version, got.checksum, got.wait, got.updatedAt, got.meta)
  BY <1>1 DEF AppliedState, ListState
<1> HIDE DEF u, got
<1>4. p.version = base /\ UpdateError(p.hashes, u) = "none"
  BY <1>1 DEF ApplyError, u
<1>5. ~Malformed(p.hashes, u) /\ u.checksum \in {NoChecksum, Checksum(merged)}
  BY <1>4 DEF UpdateError
<1>6. merged = HashList(Width[n], merged.data) /\ merged \in Packed
  <2>1. p.hashes.width = Width[n] \/ ~u.partial
    BY <1>1, <1>5 DEF Malformed, MalformedPartial
  <2> QED BY <1>1, <1>2, <2>1 DEF Merged, HashList, Packed, Survivors
<1>7. merged = HashList(Width[n], new)
  <2>1. CASE u.checksum # NoChecksum
    <3>1. Checksum(HashList(Width[n], merged.data)) = Checksum(HashList(Width[n], new))
      BY <1>1, <1>5, <1>6, <2>1
    <3>2. merged.data = new
      BY <3>1, ChecksumInjective, ContentType
    <3> QED BY <3>2, <1>6
  \* Only an update that changes nothing may omit the checksum, and it is
  \* applied to the version it was made for.
  <2>2. CASE u.checksum = NoChecksum
    <3>1. u.partial /\ base \in Versions(n) /\ new = Content[n][base]
      BY <1>1, <2>2
    <3>2. u.removals = << >> /\ u.additions.data = {}
      BY <1>5, <2>2, <3>1 DEF Malformed, MalformedPartial
    <3>3. Survivors(p.hashes.data, u.removals) = p.hashes.data
      BY <3>2 DEF Survivors
    <3>4. p # NoList
      BY <1>4, <3>1, ContentType DEF NoList, ListState
    <3>5. p.hashes = HashList(Width[n], new)
      BY <1>4, <3>1, <3>4 DEF Genuine, Exists
    <3>6. p.hashes.width = Width[n] /\ p.hashes.data = new
      BY <3>5 DEF HashList
    <3> QED BY <3>1, <3>2, <3>3, <3>6 DEF Merged
  <2> QED BY <2>1, <2>2
<1>8. got \in ListStates
  <2>1. got.checksum \in Sums
    BY <1>1, <1>2, <1>3
  <2>2. got = ListState(merged, v, got.checksum, 0, at, TRUE)
    BY <1>3
  <2> HIDE DEF merged
  <2>3. merged \in [width : Nat, data : SUBSET Nat]
        /\ got.checksum \in {NoChecksum} \cup (Nat \X SUBSET Nat)
    BY <1>6, <2>1 DEF Packed, Sums
  <2> DEFINE sum == got.checksum
  <2>4. got = [hashes |-> merged, version |-> v, checksum |-> sum,
               wait |-> 0, updatedAt |-> at, meta |-> TRUE]
    BY <2>2 DEF ListState
  <2> HIDE DEF sum
  <2>5. sum \in {NoChecksum} \cup (Nat \X SUBSET Nat)
    BY <2>3 DEF sum
  <2> QED BY <1>2, <2>3, <2>4, <2>5 DEF ListStates
<1>9. QED BY <1>3, <1>7, <1>8 DEF u, got
----
(* The steps of a writer *)

LEMMA NothingType == Nothing \in States /\ NoList \in ListStates
BY DEF Nothing, States, ListStates, NoList, ListState, InvalidList, HashList, NoChecksum

\* What a step may do to the lists.
Advanced(old, new) ==
  \A n \in Names : Exists(old, n) /\ Exists(new, n) =>
    new[n].version >= old[n].version /\ new[n].updatedAt >= old[n].updatedAt

LEMMA ApplyAdvances ==
  ASSUME lists \in States, Genuine(lists), NEW n \in Names, NEW base \in Nat,
         NEW v \in Versions(n), v >= base, NEW full, NEW at \in Nat
  PROVE  LET new == Apply(lists, Answer(n, base, v, full), at) IN
         new \in States /\ Genuine(new) /\ Advanced(lists, new)
<1> DEFINE u == Answer(n, base, v, full)
           got == AppliedState(lists[n], u, at)
           new == Apply(lists, u, at)
<1>1. u.name = n /\ u.base = base
  BY AnswerNames
<1>2. \A m \in Names : lists[m].version \in Nat /\ lists[m].updatedAt \in Nat
  BY DEF States, ListStates
<1>3. CASE ApplyError(lists, u, at) = "none"
  <2>1. /\ got \in ListStates /\ got.version = v /\ got.updatedAt = at
        /\ got.hashes = HashList(Width[n], Content[n][v])
    BY <1>3, AppliedGenuine
  <2>2. lists[n].version = base
        /\ (lists[n] # NoList => ~(at < lists[n].updatedAt))
    BY <1>1, <1>3 DEF ApplyError, Incompatible
  <2> HIDE DEF got, u
  <2>3. new = [lists EXCEPT ![n] = got]
    BY <1>1, <1>3 DEF Apply, got
  <2>4. new \in States
    BY <2>1, <2>3 DEF States
  <2>5. \A m \in Names : new[m] = IF m = n THEN got ELSE lists[m]
    BY <2>3 DEF States
  <2>6. Genuine(new)
    BY <2>1, <2>5 DEF Genuine, Exists
  <2>7. Advanced(lists, new)
    BY <2>1, <2>2, <2>5, <1>2 DEF Advanced, Exists
  <2> QED BY <2>4, <2>6, <2>7 DEF u
<1>4. CASE ApplyError(lists, u, at) # "none"
  BY <1>2, <1>4 DEF Apply, Advanced
<1> QED BY <1>3, <1>4

LEMMA InvalidateAdvances ==
  ASSUME lists \in States, Genuine(lists), NEW n \in Names, NEW version
  PROVE  LET new == Invalidate(lists, n, version) IN
         new \in States /\ Genuine(new) /\ Advanced(lists, new)
<1> DEFINE new == Invalidate(lists, n, version)
<1>1. \A m \in Names : lists[m].version \in Nat /\ lists[m].updatedAt \in Nat
  BY DEF States, ListStates
<1>2. new \in States
  BY NothingType DEF Invalidate, States
<1>3. \A m \in Names : new[m] = lists[m] \/ new[m] = NoList
  BY DEF Invalidate, States
<1> HIDE DEF new
<1>4. Genuine(new) /\ Advanced(lists, new)
  BY <1>1, <1>3 DEF Genuine, Advanced, Exists
<1> QED BY <1>2, <1>4 DEF new
----
(* The inductive invariant *)

Held == {"locked", "store", "join"}

\* saveMu is held by the Save that is past it, and by no other.
Exclusive == \A s \in Savers : saver[s].pc \in Held <=> holder = s

\* Of a Save in state v, when the store holds what was taken at change st, and c
\* changes have been made: its snapshot is no older than its call nor than what
\* the store holds, and a store that returned nil has published it or left
\* something in the pipe, for which the encoder will fail.
Ordered(v, st, c) ==
  /\ v.since <= c
  /\ v.pc = "store" => v.since <= v.taken /\ v.taken <= c /\ st <= v.taken
  /\ v.encoder # "none" => v.pc \in {"store", "join"}
  /\ v.encoder = "ok" => v.left = 0
  /\ v.pc = "join" /\ v.err = FALSE => v.since <= st \/ v.left > 0
  /\ v.result = "nil" => v.pc = "idle" /\ v.since <= st

Inv ==
  /\ TypeOK /\ Genuine(lists) /\ Exclusive
  /\ store.taken <= changes
  /\ \A s \in Savers : Ordered(saver[s], store.taken, changes)

LEMMA IdleType == Idle \in SaverStates /\ Unread \in [reading : BOOLEAN, name : Names, version : Nat]
<1>1. Nothing \in States /\ (CHOOSE n \in Names : TRUE) \in Names
  BY NothingType, DatabaseAssumption
<1> HIDE DEF Nothing
<1>2. 0 \in 0..Chunks
  BY DatabaseAssumption
<1> QED BY <1>1, <1>2 DEF Idle, Unread, SaverStates

\* A step of one Save keeps the invariant when the Save it leads to is in order,
\* and what it publishes, if anything, is published under saveMu.
LEMMA SaveSteps ==
  ASSUME Inv, NEW s \in Savers, NEW v \in SaverStates, Set(s, v),
         UNCHANGED <<lists, changes, writer>>,
         store' \in [lists : States, taken : Nat],
         store'.taken >= store.taken, store'.taken <= changes,
         store' = store \/ saver[s].pc \in Held,
         holder' = IF v.pc \in Held THEN s ELSE IF holder = s THEN Nobody ELSE holder,
         v.pc \in Held => holder \in {s, Nobody},
         Ordered(v, store'.taken, changes)
  PROVE  Inv'
<1>1. saver' = [saver EXCEPT ![s] = v] /\ saver \in [Savers -> SaverStates]
  BY DEF Set, Inv, TypeOK
<1>2. /\ saver' \in [Savers -> SaverStates] /\ saver'[s] = v
      /\ \A t \in Savers : t # s => saver'[t] = saver[t]
  BY <1>1
<1>3. holder' \in Savers \cup {Nobody}
  BY DEF Inv, TypeOK
<1>4. TypeOK'
  BY <1>2, <1>3 DEF Inv, TypeOK
<1>5. Exclusive'
  <2> SUFFICES ASSUME NEW t \in Savers PROVE saver'[t].pc \in Held <=> holder' = t
    BY DEF Exclusive
  <2>1. CASE t = s
    BY <2>1, <1>2, NobodyAssumption
  <2>2. CASE t # s
    <3>1. saver'[t] = saver[t] /\ (saver[t].pc \in Held <=> holder = t)
      BY <2>2, <1>2 DEF Inv, Exclusive
    <3> QED BY <2>2, <3>1, NobodyAssumption
  <2> QED BY <2>1, <2>2
<1>6. \A t \in Savers : Ordered(saver'[t], store'.taken, changes')
  <2> SUFFICES ASSUME NEW t \in Savers PROVE Ordered(saver'[t], store'.taken, changes)
    OBVIOUS
  <2>1. CASE t = s
    BY <2>1, <1>2
  <2>2. CASE t # s
    <3>1. saver'[t] = saver[t] /\ Ordered(saver[t], store.taken, changes)
      BY <2>2, <1>2 DEF Inv
    <3>2. store' = store \/ saver[t].pc # "store"
      BY <2>2 DEF Inv, Exclusive, Held
    <3>3. /\ store.taken \in Nat /\ store'.taken \in Nat /\ saver[t].since \in Nat
      BY DEF Inv, TypeOK, SaverStates
    <3> QED BY <3>1, <3>2, <3>3 DEF Ordered
  <2> QED BY <2>1, <2>2
<1> QED BY <1>4, <1>5, <1>6 DEF Inv, Genuine, Versions, Exists

\* A step of a writer keeps it when the lists it leaves are genuine.
LEMMA WriterSteps ==
  ASSUME Inv, UNCHANGED <<saver, holder, store>>,
         lists' \in States, Genuine(lists'), changes' \in Nat, changes' >= changes,
         writer' \in [Writers -> [reading : BOOLEAN, name : Names, version : Nat]]
  PROVE  Inv'
<1>1. TypeOK' /\ Genuine(lists)' /\ Exclusive'
  BY DEF Inv, TypeOK, Exclusive, Genuine, Versions, Exists
<1>2. \A s \in Savers : Ordered(saver[s], store.taken, changes')
  <2> SUFFICES ASSUME NEW s \in Savers PROVE Ordered(saver[s], store.taken, changes')
    OBVIOUS
  <2>1. /\ saver[s].since \in Nat /\ saver[s].taken \in Nat /\ changes \in Nat
        /\ store.taken \in Nat
    BY DEF Inv, TypeOK, SaverStates
  <2> QED BY <2>1 DEF Inv, Ordered
<1>3. store'.taken <= changes'
  BY DEF Inv, TypeOK
<1> QED BY <1>1, <1>2, <1>3 DEF Inv

LEMMA ReadKeeps ==
  ASSUME Inv, NEW w \in Writers, Read(w)
  PROVE  Inv'
<1>1. PICK n \in Names :
        writer' = [writer EXCEPT ![w] = [reading |-> TRUE, name |-> n, version |-> lists[n].version]]
  BY DEF Read
<1>2. lists[n].version \in Nat
  BY DEF Inv, TypeOK, States, ListStates
<1>3. writer' \in [Writers -> [reading : BOOLEAN, name : Names, version : Nat]]
  BY <1>1, <1>2 DEF Inv, TypeOK
<1> QED BY <1>3, WriterSteps DEF Read, Inv, TypeOK

\* What a change of the lists does.
LEMMA ChangeKeeps ==
  ASSUME Inv, NEW w \in Writers, NEW new, Change(w, new),
         new \in States, Genuine(new)
  PROVE  Inv'
<1>1. writer' \in [Writers -> [reading : BOOLEAN, name : Names, version : Nat]]
  BY IdleType DEF Change, Inv, TypeOK
<1>2. changes' \in Nat /\ changes' >= changes
  BY DEF Change, Inv, TypeOK
<1> QED BY <1>1, <1>2, WriterSteps DEF Change

LEMMA ApplyKeeps ==
  ASSUME Inv, NEW w \in Writers, ApplyStep(w)
  PROVE  Inv' /\ Advanced(lists, lists')
<1> DEFINE n == writer[w].name
           base == writer[w].version
<1>1. n \in Names /\ base \in Nat
  BY DEF Inv, TypeOK
<1>2. PICK u \in Answers(n, base), at \in 1..MaxTime : Change(w, Apply(lists, u, at))
  BY DEF ApplyStep
<1>3. PICK v \in {x \in Versions(n) : x >= base}, full \in BOOLEAN : u = Answer(n, base, v, full)
  BY <1>2 DEF Answers, Answer
<1>4. at \in Nat
  BY <1>2, DatabaseAssumption
<1>5. lists \in States /\ Genuine(lists)
  BY DEF Inv, TypeOK
<1> HIDE DEF n, base
<1>6. LET new == Apply(lists, u, at) IN new \in States /\ Genuine(new) /\ Advanced(lists, new)
  BY <1>1, <1>3, <1>4, <1>5, ApplyAdvances
<1>7. lists' = Apply(lists, u, at)
  BY <1>2 DEF Change
<1> QED BY <1>2, <1>6, <1>7, ChangeKeeps

LEMMA InvalidateKeeps ==
  ASSUME Inv, NEW w \in Writers, InvalidateStep(w)
  PROVE  Inv' /\ Advanced(lists, lists')
<1> DEFINE new == Invalidate(lists, writer[w].name, writer[w].version)
<1>1. writer[w].name \in Names /\ lists \in States /\ Genuine(lists)
  BY DEF Inv, TypeOK
<1>2. new \in States /\ Genuine(new) /\ Advanced(lists, new)
  BY <1>1, InvalidateAdvances
<1>3. Change(w, new)
  BY DEF InvalidateStep
<1> HIDE DEF new
<1> QED BY <1>2, <1>3, ChangeKeeps DEF Change
----
(* The steps of a Save *)

LEMMA SaverFacts ==
  ASSUME Inv, NEW s \in Savers
  PROVE  /\ saver[s] \in SaverStates /\ Ordered(saver[s], store.taken, changes)
         /\ saver[s].since \in Nat /\ saver[s].taken \in Nat /\ saver[s].left \in Nat
         /\ changes \in Nat /\ store.taken \in Nat /\ store.taken <= changes
         /\ store \in [lists : States, taken : Nat]
         /\ saver[s].pc \in Held <=> holder = s
         /\ holder \in Savers \cup {Nobody} /\ s # Nobody
BY NobodyAssumption, DatabaseAssumption DEF Inv, TypeOK, SaverStates, Exclusive

LEMMA SaverNumbers ==
  ASSUME Inv, NEW s \in Savers
  PROVE  /\ saver[s].since \in Nat /\ saver[s].taken \in Nat /\ saver[s].left \in Nat
         /\ changes \in Nat /\ store.taken \in Nat
         /\ saver[s].since <= changes /\ store.taken <= changes
BY SaverFacts DEF Ordered

LEMMA ReturnKeeps ==
  ASSUME Inv, NEW s \in Savers, NEW err \in BOOLEAN, Return(s, err),
         UNCHANGED <<lists, changes, writer, store>>,
         ~err => saver[s].since <= store.taken
  PROVE  Inv'
<1> DEFINE v == IF err THEN [Idle EXCEPT !.result = "error"]
                ELSE [Idle EXCEPT !.result = "nil", !.since = saver[s].since]
<1>1. v \in SaverStates
  BY IdleType, SaverFacts DEF SaverStates
<1>2. /\ v.pc = "idle" /\ v.encoder = "none"
      /\ v.since \in {0, saver[s].since}
      /\ v.result = "nil" => v.since <= store.taken
  BY DEF Idle
<1>3. Set(s, v) /\ holder' = IF holder = s THEN Nobody ELSE holder
  BY DEF Return
<1> HIDE DEF v
<1>4. Ordered(v, store.taken, changes)
  BY <1>2, SaverNumbers DEF Ordered
<1>5. v.pc \notin Held
  BY <1>2 DEF Held
<1> QED BY <1>1, <1>3, <1>4, <1>5, SaverFacts, SaveSteps

LEMMA CallKeeps ==
  ASSUME Inv, NEW s \in Savers, Call(s)
  PROVE  Inv'
<1>1. PICK v \in {[Idle EXCEPT !.pc = "lock", !.since = changes], [Idle EXCEPT !.result = "error"]} :
        Set(s, v)
  BY DEF Call
<1>2. v \in SaverStates
  BY <1>1, IdleType, SaverFacts DEF SaverStates
<1>3. /\ v.pc \in {"idle", "lock"} /\ v.encoder = "none"
      /\ v.since \in {0, changes} /\ v.result # "nil"
  BY <1>1 DEF Idle
<1>4. Ordered(v, store.taken, changes)
  BY <1>3, SaverNumbers DEF Ordered
<1>5. v.pc \notin Held /\ saver[s].pc \notin Held
  BY <1>3 DEF Held, Call
<1> QED BY <1>1, <1>2, <1>4, <1>5, SaverFacts, SaveSteps DEF Call

LEMMA GiveUpKeeps ==
  ASSUME Inv, NEW s \in Savers, GiveUp(s)
  PROVE  Inv'
BY ReturnKeeps DEF GiveUp

LEMMA JoinKeeps ==
  ASSUME Inv, NEW s \in Savers, Join(s)
  PROVE  Inv'
<1>1. saver[s].pc = "join" /\ saver[s].encoder \in {"ok", "failed"} /\ Return(s, Result(s))
  BY DEF Join
<1>2. saver[s].err \in BOOLEAN
  BY SaverFacts DEF SaverStates
<1>3. Result(s) \in BOOLEAN
  BY DEF Result
<1>4. ~Result(s) => saver[s].since <= store.taken
  <2>1. SUFFICES ASSUME ~Result(s) PROVE saver[s].since <= store.taken
    OBVIOUS
  <2>2. saver[s].err = FALSE /\ saver[s].encoder = "ok"
    BY <1>1, <1>2, <2>1 DEF Result
  <2>3. Ordered(saver[s], store.taken, changes)
    BY SaverFacts
  <2> QED BY <1>1, <2>2, <2>3, SaverNumbers DEF Ordered
<1> QED BY <1>1, <1>3, <1>4, ReturnKeeps DEF Join

\* A step that leaves the store and saveMu alone.
LEMMA QuietStep ==
  ASSUME Inv, NEW s \in Savers, NEW v \in SaverStates, Set(s, v),
         UNCHANGED <<lists, changes, writer, holder, store>>,
         v.pc \in Held <=> saver[s].pc \in Held,
         Ordered(v, store.taken, changes)
  PROVE  Inv'
<1>1. saver[s].pc \in Held <=> holder = s
  BY SaverFacts
<1>2. /\ store \in [lists : States, taken : Nat]
      /\ store.taken <= changes /\ store.taken \in Nat
  BY SaverFacts
<1>3. store' = store /\ holder' = holder /\ UNCHANGED <<lists, changes, writer>>
  OBVIOUS
<1>4. store'.taken >= store.taken
  BY <1>2, <1>3
<1>5. holder' = IF v.pc \in Held THEN s ELSE IF holder = s THEN Nobody ELSE holder
  BY <1>1, <1>3
<1> QED BY <1>1, <1>2, <1>3, <1>4, <1>5, SaveSteps

LEMMA ReadChunkKeeps ==
  ASSUME Inv, NEW s \in Savers, ReadChunk(s)
  PROVE  Inv'
<1> DEFINE v == [saver[s] EXCEPT !.left = @ - 1]
<1>1. saver[s] \in SaverStates /\ Ordered(saver[s], store.taken, changes)
  BY SaverFacts
<1>2. v \in SaverStates
  BY <1>1, SaverFacts, DatabaseAssumption DEF ReadChunk, SaverStates
<1>3. v.pc \in Held <=> saver[s].pc \in Held
  BY <1>1 DEF ReadChunk, SaverStates, Held
<1>4. Ordered(v, store.taken, changes)
  BY <1>1, SaverNumbers DEF ReadChunk, SaverStates, Ordered
<1>5. Set(s, v) /\ UNCHANGED <<lists, changes, writer, holder, store>>
  BY DEF ReadChunk
<1> HIDE DEF v
<1> QED BY <1>2, <1>3, <1>4, <1>5, QuietStep

LEMMA EncoderEndsKeeps ==
  ASSUME Inv, NEW s \in Savers, EncoderEnds(s)
  PROVE  Inv'
<1> DEFINE v == [saver[s] EXCEPT !.encoder = "ok"]
<1>1. saver[s] \in SaverStates /\ Ordered(saver[s], store.taken, changes)
  BY SaverFacts
<1>2. v \in SaverStates
  BY <1>1, SaverFacts, DatabaseAssumption DEF EncoderEnds, SaverStates
<1>3. v.pc \in Held <=> saver[s].pc \in Held
  BY <1>1 DEF EncoderEnds, SaverStates, Held
<1>4. Ordered(v, store.taken, changes)
  BY <1>1, SaverNumbers DEF EncoderEnds, SaverStates, Ordered
<1>5. Set(s, v) /\ UNCHANGED <<lists, changes, writer, holder, store>>
  BY DEF EncoderEnds
<1> HIDE DEF v
<1> QED BY <1>2, <1>3, <1>4, <1>5, QuietStep

LEMMA EncodingFailsKeeps ==
  ASSUME Inv, NEW s \in Savers, EncodingFails(s)
  PROVE  Inv'
<1> DEFINE v == [saver[s] EXCEPT !.encoder = "failed"]
<1>1. saver[s] \in SaverStates /\ Ordered(saver[s], store.taken, changes)
  BY SaverFacts
<1>2. v \in SaverStates
  BY <1>1, SaverFacts, DatabaseAssumption DEF EncodingFails, SaverStates
<1>3. v.pc \in Held <=> saver[s].pc \in Held
  BY <1>1 DEF EncodingFails, SaverStates, Held
<1>4. Ordered(v, store.taken, changes)
  BY <1>1, SaverNumbers DEF EncodingFails, SaverStates, Ordered
<1>5. Set(s, v) /\ UNCHANGED <<lists, changes, writer, holder, store>>
  BY DEF EncodingFails
<1> HIDE DEF v
<1> QED BY <1>2, <1>3, <1>4, <1>5, QuietStep

LEMMA WriteFailsKeeps ==
  ASSUME Inv, NEW s \in Savers, WriteFails(s)
  PROVE  Inv'
<1> DEFINE v == [saver[s] EXCEPT !.encoder = "failed"]
<1>1. saver[s] \in SaverStates /\ Ordered(saver[s], store.taken, changes)
  BY SaverFacts
<1>2. v \in SaverStates
  BY <1>1, SaverFacts, DatabaseAssumption DEF WriteFails, SaverStates
<1>3. v.pc \in Held <=> saver[s].pc \in Held
  BY <1>1 DEF WriteFails, SaverStates, Held
<1>4. Ordered(v, store.taken, changes)
  BY <1>1, SaverNumbers DEF WriteFails, SaverStates, Ordered
<1>5. Set(s, v) /\ UNCHANGED <<lists, changes, writer, holder, store>>
  BY DEF WriteFails
<1> HIDE DEF v
<1> QED BY <1>2, <1>3, <1>4, <1>5, QuietStep

LEMMA CancelKeeps ==
  ASSUME Inv, NEW s \in Savers, Cancel(s)
  PROVE  Inv'
<1> DEFINE v == [saver[s] EXCEPT !.canceled = TRUE]
<1>1. saver[s] \in SaverStates /\ Ordered(saver[s], store.taken, changes)
  BY SaverFacts
<1>2. v \in SaverStates
  BY <1>1, SaverFacts, DatabaseAssumption DEF Cancel, SaverStates
<1>3. v.pc \in Held <=> saver[s].pc \in Held
  BY <1>1 DEF Cancel, SaverStates, Held
<1>4. Ordered(v, store.taken, changes)
  BY <1>1, SaverNumbers DEF Cancel, SaverStates, Ordered
<1>5. Set(s, v) /\ UNCHANGED <<lists, changes, writer, holder, store>>
  BY DEF Cancel
<1> HIDE DEF v
<1> QED BY <1>2, <1>3, <1>4, <1>5, QuietStep

LEMMA LockKeeps ==
  ASSUME Inv, NEW s \in Savers, Lock(s)
  PROVE  Inv'
<1> DEFINE v == [saver[s] EXCEPT !.pc = "locked"]
<1>1. saver[s] \in SaverStates /\ Ordered(saver[s], store.taken, changes)
  BY SaverFacts
<1>2. v \in SaverStates /\ v.pc = "locked"
  BY <1>1 DEF SaverStates
<1>3. Ordered(v, store.taken, changes)
  BY <1>1, SaverNumbers DEF Lock, SaverStates, Ordered
<1>4. /\ Set(s, v) /\ UNCHANGED <<lists, changes, writer>>
      /\ store' = store /\ holder' = s /\ holder = Nobody
  BY DEF Lock
<1>5. /\ store \in [lists : States, taken : Nat]
      /\ store.taken <= changes /\ store.taken \in Nat
  BY SaverFacts
<1>6. v.pc \in Held
  BY <1>2 DEF Held
<1> HIDE DEF v
<1>7. store'.taken >= store.taken
  BY <1>4, <1>5
<1> QED BY <1>2, <1>3, <1>4, <1>5, <1>6, <1>7, SaveSteps

LEMMA TakeKeeps ==
  ASSUME Inv, NEW s \in Savers, Take(s)
  PROVE  Inv'
<1> DEFINE v == [saver[s] EXCEPT !.pc = "store", !.snap = lists, !.taken = changes,
                   !.encoder = "writing", !.left = Chunks, !.open = TRUE]
<1>1. saver[s] \in SaverStates /\ Ordered(saver[s], store.taken, changes)
  BY SaverFacts
<1>2. lists \in States /\ changes \in Nat /\ Chunks \in 0..Chunks
  BY DatabaseAssumption DEF Inv, TypeOK
<1>3. v \in SaverStates
  BY <1>1, <1>2 DEF SaverStates
<1>4. v.pc \in Held /\ saver[s].pc \in Held
  BY <1>1 DEF Take, SaverStates, Held
<1>5. Ordered(v, store.taken, changes)
  BY <1>1, SaverNumbers DEF Take, SaverStates, Ordered
<1>6. Set(s, v) /\ UNCHANGED <<lists, changes, writer, holder, store>>
  BY DEF Take
<1> HIDE DEF v
<1> QED BY <1>3, <1>4, <1>5, <1>6, QuietStep

\* What becomes of a Save whose store has returned.
LEMMA Returned ==
  ASSUME Inv, NEW s \in Savers, saver[s].pc = "store", NEW err \in BOOLEAN,
         StoreReturns(s, err), NEW st \in Nat, st >= store.taken,
         ~err => saver[s].since <= st \/ saver[s].left > 0
  PROVE  \E v \in SaverStates :
           Set(s, v) /\ v.pc = "join" /\ Ordered(v, st, changes)
<1> DEFINE v == [saver[s] EXCEPT !.pc = "join", !.err = err, !.canceled = FALSE,
                   !.snap = Nothing, !.taken = 0, !.open = FALSE]
<1>1. saver[s] \in SaverStates /\ Ordered(saver[s], store.taken, changes)
  BY SaverFacts
<1>2. Nothing \in States
  BY NothingType
<1> HIDE DEF Nothing
<1>3. v \in SaverStates /\ v.pc = "join"
  BY <1>1, <1>2 DEF SaverStates
<1>4. Ordered(v, st, changes)
  BY <1>1, SaverNumbers DEF SaverStates, Ordered
<1>5. Set(s, v)
  BY DEF StoreReturns
<1> HIDE DEF v
<1> QED BY <1>3, <1>4, <1>5

LEMMA StopReadingKeeps ==
  ASSUME Inv, NEW s \in Savers, StopReading(s)
  PROVE  Inv'
<1>1. PICK err \in BOOLEAN : (saver[s].left > 0 \/ err) /\ StoreReturns(s, err)
  BY DEF StopReading
<1>2. saver[s].pc = "store" /\ store.taken \in Nat
  BY SaverFacts DEF StopReading
<1>3. PICK v \in SaverStates :
        Set(s, v) /\ v.pc = "join" /\ Ordered(v, store.taken, changes)
  BY <1>1, <1>2, Returned
<1>4. v.pc \in Held /\ saver[s].pc \in Held
  BY <1>2, <1>3 DEF Held
<1> QED BY <1>3, <1>4, QuietStep DEF StopReading

\* Only the Save that holds saveMu publishes, and nothing older than before.
LEMMA PublishKeeps ==
  ASSUME Inv, NEW s \in Savers, Publish(s)
  PROVE  Inv' /\ store'.taken >= store.taken
<1>1. /\ saver[s].pc = "store" /\ store' = [lists |-> saver[s].snap, taken |-> saver[s].taken]
      /\ UNCHANGED <<lists, changes, writer, holder>>
  BY DEF Publish
<1>2. PICK err \in BOOLEAN : StoreReturns(s, err)
  BY DEF Publish
<1>3. /\ saver[s] \in SaverStates /\ Ordered(saver[s], store.taken, changes)
      /\ saver[s].pc \in Held <=> holder = s
  BY SaverFacts
<1>4. store' \in [lists : States, taken : Nat] /\ store'.taken = saver[s].taken
  BY <1>1, <1>3 DEF SaverStates
<1>5. /\ store'.taken >= store.taken /\ store'.taken <= changes
      /\ saver[s].since <= store'.taken /\ store'.taken \in Nat
  BY <1>1, <1>3, <1>4, SaverNumbers DEF Ordered
<1>6. PICK v \in SaverStates :
        Set(s, v) /\ v.pc = "join" /\ Ordered(v, store'.taken, changes)
  BY <1>1, <1>2, <1>5, Returned
<1>7. v.pc \in Held /\ saver[s].pc \in Held
  BY <1>1, <1>6 DEF Held
<1>8. holder = s /\ holder' = s
  BY <1>1, <1>3, <1>7
<1>9. Inv'
  BY <1>1, <1>4, <1>5, <1>6, <1>7, <1>8, SaveSteps
<1> QED BY <1>5, <1>9
----
(* The invariant holds, and what follows from it *)

LEMMA InvInit == Init => Inv
<1> SUFFICES ASSUME Init PROVE Inv
  OBVIOUS
<1>1. lists \in States /\ Genuine(lists) /\ changes = 0 /\ holder = Nobody
  BY DatabaseAssumption DEF Init
<1>2. store = [lists |-> lists, taken |-> 0]
  BY DEF Init
<1>3. writer \in [Writers -> [reading : BOOLEAN, name : Names, version : Nat]]
  BY IdleType DEF Init
<1>4. saver \in [Savers -> SaverStates] /\ \A s \in Savers : saver[s] = Idle
  BY IdleType DEF Init
<1>5. TypeOK
  BY <1>1, <1>2, <1>3, <1>4 DEF TypeOK
<1>6. Exclusive
  BY <1>1, <1>4, NobodyAssumption DEF Exclusive, Idle, Held
<1>7. Ordered(Idle, 0, 0)
  BY DEF Ordered, Idle
<1>8. \A s \in Savers : Ordered(saver[s], store.taken, changes)
  BY <1>1, <1>2, <1>4, <1>7
<1> QED BY <1>1, <1>2, <1>5, <1>6, <1>8 DEF Inv

\* What any step keeps.
LEMMA InvNext ==
  ASSUME Inv, [Next]_vars
  PROVE  Inv' /\ Advanced(lists, lists') /\ store'.taken >= store.taken
<1>1. Advanced(lists, lists)
  <2>1. \A n \in Names : lists[n].version \in Nat /\ lists[n].updatedAt \in Nat
    BY DEF Inv, TypeOK, States, ListStates
  <2> QED BY <2>1 DEF Advanced
<1>2. store.taken >= store.taken
  BY DEF Inv, TypeOK
<1>3. CASE UNCHANGED vars
  <2>1. UNCHANGED <<saver, holder, store>> /\ lists' = lists /\ changes' = changes
        /\ writer' = writer
    BY <1>3 DEF vars
  <2>2. lists \in States /\ Genuine(lists) /\ changes \in Nat
        /\ writer \in [Writers -> [reading : BOOLEAN, name : Names, version : Nat]]
    BY DEF Inv, TypeOK
  <2>3. Inv'
    BY <2>1, <2>2, WriterSteps
  <2> QED BY <1>1, <1>2, <2>1, <2>3
<1>4. ASSUME NEW w \in Writers, Read(w) \/ ApplyStep(w) \/ InvalidateStep(w)
      PROVE  Inv' /\ Advanced(lists, lists') /\ store'.taken >= store.taken
  <2>1. store' = store
    BY <1>4 DEF Read, ApplyStep, InvalidateStep, Change
  <2>2. CASE Read(w)
    <3>1. lists' = lists
      BY <2>2 DEF Read
    <3> QED BY <1>1, <1>2, <2>1, <2>2, <3>1, ReadKeeps
  <2>3. CASE ApplyStep(w)
    BY <1>2, <2>1, <2>3, ApplyKeeps
  <2>4. CASE InvalidateStep(w)
    BY <1>2, <2>1, <2>4, InvalidateKeeps
  <2> QED BY <1>4, <2>2, <2>3, <2>4
<1>5. ASSUME NEW s \in Savers,
             \/ Call(s) \/ Lock(s) \/ SaveStep(s) \/ StoreStep(s)
             \/ EncoderStep(s) \/ EncodingFails(s) \/ Cancel(s)
      PROVE  Inv' /\ Advanced(lists, lists') /\ store'.taken >= store.taken
  <2>1. lists' = lists
    BY <1>5 DEF Call, Lock, SaveStep, StoreStep, EncoderStep, EncodingFails, Cancel,
       GiveUp, Take, Join, ReadChunk, Publish, StopReading, EncoderEnds, WriteFails
  <2>2. CASE Publish(s)
    BY <1>1, <2>1, <2>2, PublishKeeps
  <2>3. CASE ~Publish(s)
    <3>1. store' = store
      BY <1>5, <2>3 DEF Call, Lock, SaveStep, StoreStep, EncoderStep, EncodingFails, Cancel,
         GiveUp, Take, Join, ReadChunk, StopReading, EncoderEnds, WriteFails
    <3>2. Inv'
      BY <1>5, <2>3, CallKeeps, LockKeeps, GiveUpKeeps, TakeKeeps, JoinKeeps,
         ReadChunkKeeps, StopReadingKeeps, EncoderEndsKeeps, WriteFailsKeeps,
         EncodingFailsKeeps, CancelKeeps DEF SaveStep, StoreStep, EncoderStep
    <3> QED BY <1>1, <1>2, <2>1, <3>1, <3>2
  <2> QED BY <2>2, <2>3
<1> QED BY <1>3, <1>4, <1>5 DEF Next

LEMMA Invariance == Spec => []Inv
<1>1. Inv /\ [Next]_vars => Inv'
  BY InvNext
<1> QED BY <1>1, InvInit, PTL DEF Spec

\* Every variable keeps its type (LocalDatabase).
THEOREM DatabaseTypes == Spec => []TypeOK
<1>1. Inv => TypeOK
  BY DEF Inv
<1> QED BY <1>1, Invariance, PTL

\* However goroutines race to change the database, a list holds what the service
\* has at its version (Apply's check of the base version).
THEOREM RacingApplies == Spec => []ListsMatchService
<1>1. Inv => ListsMatchService
  BY DEF Inv, ListsMatchService
<1> QED BY <1>1, Invariance, PTL

\* While it is there, no list goes back to an older version or an earlier time of
\* receipt, whichever of several answers is applied last (Apply).
THEOREM NoListGoesBack == Spec => NeverBack
<1> DEFINE Step == \A n \in Names : Exists(lists, n) /\ Exists(lists', n) =>
       /\ lists'[n].version >= lists[n].version
       /\ lists'[n].updatedAt >= lists[n].updatedAt
<1>1. Inv /\ [Next]_vars => [Step]_vars
  BY InvNext DEF Advanced
<1> HIDE DEF Step
<1>2. Spec => [][Step]_vars
  BY <1>1, Invariance, PTL DEF Spec
<1> QED BY <1>2 DEF Step, NeverBack

\* However many goroutines save at once, the store's snapshot is never replaced
\* by one taken earlier (Save, saveMu).
THEOREM SavesInOrder == Spec => NeverOlder
<1>1. Inv /\ [Next]_vars => [store'.taken >= store.taken]_vars
  BY InvNext
<1> QED BY <1>1, Invariance, PTL DEF Spec, NeverOlder

\* A Save that returns nil has left in the store all that the database held when
\* it was called (Save, which joins the encoder and reports its error).
THEOREM AckedSavesPublished == Spec => []AckedSaves
<1>1. Inv => AckedSaves
  BY SaverNumbers DEF Inv, Ordered, AckedSaves, TypeOK
<1> QED BY <1>1, Invariance, PTL
==========================================================================
