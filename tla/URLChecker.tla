---------------------------- MODULE URLChecker ----------------------------
(***************************************************************************)
(* checker.go: concurrent SearchURLs requests that share one prefix cache, *)
(* a source of local lists and a service of full hashes.                   *)
(*                                                                         *)
(* A step is a stretch of code between two points where another goroutine  *)
(* or the service can be seen: reading the lists, a get or a put of the    *)
(* cache, and the call of the service. Validation, diagnostics and logging *)
(* are left out, and a threat is a threat: its types are not told apart.   *)
(***************************************************************************)
EXTENDS PrefixCaches

CONSTANTS
  Hashes,        \* the full hashes of URL expressions
  Prefix,        \* Prefix[h]: the 4-byte prefix of hash h
  Expressions,   \* Expressions[u]: the hashes of URL u, in their order
  Requests,      \* calls of SearchURLs
  UrlLists,      \* the URLs a call may be given, without repetitions
  Modes,         \* subset of {"local-list", "real-time"}
  ListVersions,  \* what Lists may answer: [ready, threat, global]
  CacheCapacity,
  BatchSize,     \* prefixes sent in one call of the service, 30 in the code
  MaxTtl,        \* bound: the longest CacheDuration
  MaxLatency,    \* bound: the longest call of the service
  Changing,      \* bound: the hashes the service may change its mind about
  Canceling,     \* bound: the requests whose context may be canceled
  MaxTime        \* bound: the clock stops here

Prefixes == {Prefix[h] : h \in Hashes}
Urls == DOMAIN Expressions
HashesOf(u) == {Expressions[u][i] : i \in DOMAIN Expressions[u]}

ASSUME CheckerAssumption ==
  /\ \A u \in Urls : Expressions[u] \in Seq(Hashes)
  /\ UrlLists \subseteq Seq(Urls)
  /\ Modes \subseteq {"local-list", "real-time"}
  /\ ListVersions \subseteq
       [ready : BOOLEAN, threat : SUBSET Prefixes, global : SUBSET Hashes]
  /\ CacheCapacity \in Int /\ BatchSize \in Nat \ {0}
  /\ MaxTtl \in Nat \ {0} /\ MaxLatency \in Nat
  /\ Changing \subseteq Hashes /\ Canceling \subseteq Requests

VARIABLES
  now,
  bad,       \* the hashes the service has as threats now
  since,     \* history: when the service last changed its mind about a hash
  lists,     \* what Lists answers: whether every threat list is valid, the
             \* prefixes in them, and the hashes in the global cache
  cache,     \* prefixCache
  req        \* the state of each request

vars == <<now, bad, since, lists, cache, req>>

\* Before anything that may be remembered at first.
LongAgo == 0 - MaxTtl - MaxLatency - 1

Min2(a, b) == IF a < b THEN a ELSE b

Idle ==
  [pc |-> "idle", canceled |-> FALSE, result |-> "none",
   mode |-> "real-time", urls |-> << >>, lists |-> [ready |-> FALSE, threat |-> {}, global |-> {}],
   local |-> FALSE, left |-> << >>, wanted |-> << >>, waiting |-> {}, batch |-> << >>,
   answer |-> {}, expires |-> 0,
   memo |-> << >>, found |-> FALSE, threats |-> {},
   \* History: what was asked and when, and how each URL came to its verdict.
   asked |-> << >>, started |-> 0, calledAt |-> 0, answered |-> {},
   checkedLocally |-> {}, failedOpen |-> {}]

Set(r, state) == req' = [req EXCEPT ![r] = state]

\* A request that has returned keeps what its caller sees, and the history.
Return(r, state, result) ==
  Set(r, [Idle EXCEPT !.pc = "done", !.result = result,
            !.threats = state.threats, !.asked = state.asked,
            !.started = state.started, !.lists = state.lists,
            !.checkedLocally = state.checkedLocally, !.failedOpen = state.failedOpen])
----
(* SearchURLs *)

\* check begins.
BeginLook(r, state, local) ==
  LET url == Head(state.urls) IN
  Set(r, [state EXCEPT !.pc = "look", !.local = local, !.left = Expressions[url],
            !.wanted = << >>, !.waiting = {}, !.batch = << >>, !.answer = {},
            !.calledAt = 0, !.checkedLocally = IF local THEN @ \cup {url} ELSE @])

\* A check of the local lists needs every one of them.
BeginCheckUnready(r, state, local) == BeginLook(r, state, local)
BeginCheck(r, state, local) ==
  IF local /\ ~state.lists.ready THEN Return(r, state, "ErrNotReady")
  ELSE BeginLook(r, state, local)

\* The next URL, if the context is not done, is checked against the local lists
\* when asked to, or when the global cache has one of its hashes.
NextUrl(r, state) ==
  IF state.canceled THEN Return(r, state, "canceled")
  ELSE IF state.urls = << >> THEN Return(r, state, "ok")
  ELSE BeginCheck(r, [state EXCEPT !.found = FALSE],
                  \/ state.mode = "local-list"
                  \/ HashesOf(Head(state.urls)) \cap state.lists.global # {})

\* The lists are read once, and the whole request keeps to what it read.
Start(r) ==
  /\ req[r].pc = "idle"
  /\ \E urls \in UrlLists, mode \in Modes :
       NextUrl(r, [Idle EXCEPT !.urls = urls, !.mode = mode, !.lists = lists,
                               !.asked = urls, !.started = now])
  /\ UNCHANGED <<now, bad, since, lists, cache>>

\* A context that is done by the time a call returns.
Stop(r) ==
  /\ req[r].pc = "call" /\ req[r].canceled
  /\ Return(r, req[r], "canceled")
  /\ UNCHANGED <<now, bad, since, lists, cache>>
----
(* check *)

\* The verdict on one hash of matches for its prefix (collectThreats).
CollectPrefix(state, h, matches) == [state EXCEPT !.found = @ \/ matches # {}]
Collect(state, h, matches) == [state EXCEPT !.found = @ \/ h \in matches]

Known(state, p) == p \in DOMAIN state.memo

\* One hash: known from this request, or from the cache, or to be asked for
\* unless the local lists do not have its prefix.
Look(r) ==
  LET state == req[r]
      h     == Head(state.left)
      p     == Prefix[h]
      rest  == [state EXCEPT !.left = Tail(@)]
      hit   == Hit(cache, p, now)
      again == \E i \in DOMAIN state.wanted : state.wanted[i] = p
  IN /\ state.pc = "look" /\ state.left # << >>
     /\ IF Known(state, p)
        THEN /\ Set(r, Collect(rest, h, state.memo[p]))
             /\ UNCHANGED cache
        ELSE /\ cache' = AfterGet(cache, p, now)
             /\ Set(r, IF hit
                       THEN Collect([rest EXCEPT !.memo = With(@, p, cache.entries[p].matches)],
                                    h, cache.entries[p].matches)
                       ELSE IF state.local /\ p \notin state.lists.threat
                       THEN rest
                       ELSE [rest EXCEPT !.waiting = @ \cup {h},
                                         !.wanted = IF again THEN @ ELSE Append(@, p)])
     /\ UNCHANGED <<now, bad, since, lists>>

\* The verdict on a URL is reached when nothing is left to ask.
EndCheck(r) ==
  LET state == req[r] IN
  /\ state.pc = "look" /\ state.left = << >> /\ state.wanted = << >>
  /\ NextUrl(r, [state EXCEPT !.urls = Tail(@),
                   !.threats = IF state.found THEN @ \cup {Head(state.urls)} ELSE @])
  /\ UNCHANGED <<now, bad, since, lists, cache>>

\* A batch of the prefixes is sent; the service answers as of some time before
\* the call returns, the earliest of which is taken.
Call(r) ==
  LET state == req[r]
      n     == Min2(BatchSize, Len(state.wanted))
      batch == SubSeq(state.wanted, 1, n)
  IN /\ state.pc = "look" /\ state.left = << >> /\ state.wanted # << >>
     /\ Set(r, [state EXCEPT !.pc = "call", !.batch = batch,
                  !.wanted = SubSeq(@, n + 1, Len(@)), !.calledAt = now,
                  !.answer = {h \in bad : \E i \in DOMAIN batch : batch[i] = Prefix[h]}])
     /\ UNCHANGED <<now, bad, since, lists, cache>>

Batch(state) == {state.batch[i] : i \in DOMAIN state.batch}
Grouped(state, p) == {h \in state.answer : Prefix[h] = p}

\* The results are kept for the rest of the request even with a zero duration.
RememberedPositive(state, ttl) ==
  IF ttl = 0 THEN state.memo
  ELSE [p \in Batch(state) \cup DOMAIN state.memo |->
          IF p \in Batch(state) THEN Grouped(state, p) ELSE state.memo[p]]
Remembered(state, ttl) ==
  [p \in Batch(state) \cup DOMAIN state.memo |->
     IF p \in Batch(state) THEN Grouped(state, p) ELSE state.memo[p]]

Returned(r) ==
  LET state  == req[r]
      found  == state.waiting \cap state.answer
  IN /\ state.pc = "call" /\ ~state.canceled
     /\ \E ttl \in 0..MaxTtl :
          Set(r, [state EXCEPT !.pc = IF ttl > 0 THEN "put" ELSE "look",
                    !.memo = Remembered(state, ttl), !.found = @ \/ found # {},
                    !.expires = IF ttl > 0 THEN now + ttl ELSE 0,
                    !.calledAt = 0, !.waiting = {h \in @ : Prefix[h] \notin Batch(state)},
                    !.answered = @ \cup Batch(state),
                    !.batch = IF ttl > 0 THEN @ ELSE << >>,
                    !.answer = IF ttl > 0 THEN @ ELSE {}])
     /\ UNCHANGED <<now, bad, since, lists, cache>>

\* Each prefix of the batch is cached on its own.
PutOne(r) ==
  LET state == req[r]
      p     == Head(state.batch)
  IN /\ state.pc = "put"
     /\ cache' = Put(cache, p, Entry(Grouped(state, p), state.expires), CacheCapacity)
     /\ Set(r, [state EXCEPT !.batch = Tail(@),
                  !.pc = IF Len(state.batch) = 1 THEN "look" ELSE "put",
                  !.answer = IF Len(state.batch) = 1 THEN {} ELSE @,
                  !.expires = IF Len(state.batch) = 1 THEN 0 ELSE @])
     /\ UNCHANGED <<now, bad, since, lists>>

FailedRetries(r) ==
  LET state == req[r] IN
  /\ state.pc = "call" /\ ~state.canceled
  /\ IF state.local
     THEN Set(r, [state EXCEPT !.pc = "look", !.batch = << >>, !.answer = {}, !.calledAt = 0,
                    !.failedOpen = @ \cup Batch(state)])
     ELSE BeginCheck(r, state, FALSE)
  /\ UNCHANGED <<now, bad, since, lists, cache>>
\* An error, or an answer that makes no sense: a real-time check starts over
\* with the local lists, and a local one goes on without the batch.
Failed(r) ==
  LET state == req[r] IN
  /\ state.pc = "call" /\ ~state.canceled
  /\ IF state.local
     THEN Set(r, [state EXCEPT !.pc = "look", !.batch = << >>, !.answer = {}, !.calledAt = 0,
                    !.failedOpen = @ \cup Batch(state)])
     ELSE BeginCheck(r, state, TRUE)
  /\ UNCHANGED <<now, bad, since, lists, cache>>
----
(* The environment *)

\* No call of the service outlasts its timeout.
Tick ==
  /\ now < MaxTime
  /\ \A r \in Requests : req[r].pc = "call" => now < req[r].calledAt + MaxLatency
  /\ now' = now + 1
  /\ UNCHANGED <<bad, since, lists, cache, req>>

\* The service changes its mind about a hash, once at most.
ChangeMind(h) ==
  /\ since[h] = LongAgo
  /\ bad' = IF h \in bad THEN bad \ {h} ELSE bad \cup {h}
  /\ since' = [since EXCEPT ![h] = now]
  /\ UNCHANGED <<now, lists, cache, req>>

UpdateLists ==
  /\ lists' \in ListVersions
  /\ UNCHANGED <<now, bad, since, cache, req>>

Cancel(r) ==
  /\ req[r].pc \notin {"idle", "done"} /\ ~req[r].canceled
  /\ Set(r, [req[r] EXCEPT !.canceled = TRUE])
  /\ UNCHANGED <<now, bad, since, lists, cache>>
----
Init ==
  /\ now = 0
  /\ bad \in SUBSET Hashes
  /\ since = [h \in Hashes |-> LongAgo]
  /\ lists \in ListVersions
  /\ cache = EmptyCache
  /\ req = [r \in Requests |-> Idle]

Step(r) ==
  \/ Stop(r) \/ Look(r) \/ EndCheck(r) \/ Call(r) \/ Returned(r) \/ PutOne(r) \/ Failed(r)

Next ==
  \/ Tick \/ UpdateLists
  \/ \E h \in Changing : ChangeMind(h)
  \/ \E r \in Requests : Start(r) \/ Step(r)
  \/ \E r \in Canceling : Cancel(r)

Spec == Init /\ [][Next]_vars

\* The scheduler runs every goroutine that can run; a call of the service ends
\* with an answer, an error or its timeout.
FairSpec == Spec /\ \A r \in Requests : WF_vars(Step(r))
----
(* Properties *)

Given(s) == {s[i] : i \in DOMAIN s}

\* The map and the list of the cache hold the same prefixes, once each, and no
\* more than its capacity (get and put of prefixCache).
CacheAgrees ==
  /\ DOMAIN cache.entries = Given(cache.lru)
  /\ \A i, j \in DOMAIN cache.lru : cache.lru[i] = cache.lru[j] => i = j
  /\ Len(cache.lru) <= IF CacheCapacity < 0 THEN 0 ELSE CacheCapacity

\* What the service has thought of a hash since before anything a request used
\* could have been said: its start, less the longest duration an answer may be
\* cached and the longest a call may have taken.
Settled(r, h) == since[h] + MaxTtl + MaxLatency <= req[r].started

\* Why a threat may go unreported: the local lists do not have its prefix, and
\* they were all there; or the service failed to confirm it (fail-open).
Excused(r, u, h) ==
  \/ /\ u \in req[r].checkedLocally /\ req[r].lists.ready
     /\ Prefix[h] \notin req[r].lists.threat
  \/ Prefix[h] \in req[r].failedOpen

Succeeded(r) == req[r].pc = "done" /\ req[r].result = "ok"

\* A URL that has been a threat all along is reported, whatever other requests
\* leave in the cache, however slow their calls were, and through every
\* fallback (SearchURLs, check, prefixCache).
ThreatsReported ==
  \A r \in Requests : Succeeded(r) =>
    \A u \in Given(req[r].asked) : \A h \in HashesOf(u) :
      h \in bad /\ Settled(r, h) /\ ~Excused(r, u, h) => u \in req[r].threats

\* And only a URL that has been a threat is reported: not one that shares a
\* prefix with a threat, nor on an answer that has expired.
ThreatsReal ==
  \A r \in Requests : Succeeded(r) =>
    \A u \in req[r].threats : \E h \in HashesOf(u) : h \in bad \/ ~Settled(r, h)

\* A request does not ask again for what the service has answered it, though
\* the answer may not be cached (the memo of SearchURLs).
AskedOnce ==
  \A r \in Requests : req[r].pc = "call" => Batch(req[r]) \cap req[r].answered = {}

\* Every request that starts returns.
Answered == \A r \in Requests : req[r].pc # "idle" ~> req[r].pc = "done"
==========================================================================
