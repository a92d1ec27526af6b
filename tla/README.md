# Verification of gosafe5

TLA+ modules that model gosafe5, TLC configurations that check them on small
instances, and TLAPS proofs of the main results for every instance. Everything
is translated from the Go sources; where a comment and the code differ, the
code is what is modelled.

## The system

gosafe5 keeps local copies of Google Safe Browsing lists up to date and answers
whether URLs are threats.

```
            cmd/sbserver serve ──starts and joins── HTTP server
                  │                                     │ one goroutine per request
                  ▼ Run                                 ▼
  service ◄── ListUpdater ──Apply──► LocalDatabase   Handler ──► URLChecker ──► service
                  │                    │  ▲              reads Lists() │ get, put
                  └──────Save──────────┘  └───────────────────────────┘  ▼
                        │ snapshot                                prefixCache
                        ▼
                    SnapshotStore (FileStore)
```

| component | state | operations | what makes it hard | what makes it correct |
|---|---|---|---|---|
| `HashList` (hashlist.go) | width and sorted entries, immutable | NewHashList, Matches, Checksum, ApplyUpdate | removal indices into the base, omitted checksums, wrong base | an accepted update gives exactly the list its checksum is of |
| `LocalDatabase` (database.go) | lists by name, under `mu`; `saveMu` | Apply, Invalidate, Get, Lists, DueLists, Lookup | optimistic versions, time that goes backwards | an error changes nothing; a list is what was verified |
| persistence (persistence.go) | one snapshot | Save, LoadDatabase | formats and versions, corruption, size limit, streaming through a pipe | what is saved can be loaded in full; what cannot be read is not overwritten |
| `FileStore` (filestore.go) | a file, a temporary sibling, the directory | Load, Save | failure, death of the process, loss of power at every step | old snapshot or new, whole; an acknowledged save stays |
| `ListUpdater` (updater.go) | database, status per list, dirty, next save, busy, under `mu` | Run, Update, Status, Lists | API and store called without the lock, cancellation, retries against server deadlines, restarts | one operation at a time; Ready tells the truth; deadlines honoured; nothing lost, nothing slept through |
| `prefixCache` (search_cache.go) | map and LRU list, under `mu` | get, put | expiry, capacity | the two agree; nothing stale is returned |
| `URLChecker` (checker.go) | the cache; per request a memo | SearchURLs | requests share the cache, late answers, fallback from real-time to local, fail-open | threats are reported, and only threats; no question twice; every request ends |
| `HTTPAPI` (api_http.go, api_decode.go) | none | BatchGetHashLists, SearchHashes, ... | one bad list fails its batch; attributes it does not know | what it returns is what was asked for and what Apply accepts or refuses |
| Rice (rice.go) | none | decodeRice, decodeRemovals | edges of widths, padding | inverse of the encoding |
| URLs (urls.go, hash.go) | none | Canonicalize, Expressions, URLHashes | order and limits | the expressions the protocol asks for |
| handler (httpserver) | none | ServeHTTP | deadline of the request | errors mapped to statuses |
| serve (cmd/sbserver) | two goroutines | serve | three events that race | both joined, the right error |

The updater calls the service and the store, and is the database's only writer.
The checker reads one coherent copy of the lists for each request and calls the
service; the two share nothing else.

## Modules

| module | models | notes |
|---|---|---|
| `HashLists` | hashlist.go | pure operators on sets of entries |
| `Merging` | the loops of hashlist.go | on sequences, against `HashLists` |
| `Databases` | database.go | pure operators on the map of lists |
| `Snapshots` | persistence.go | what a store holds, and decoding |
| `Services` | api.go | what a service has at each version, and the updates it answers with |
| `ListUpdater` | updater.go | state machine; extends `Snapshots` and `Services` |
| `Responses` | api_decode.go | what decodeList makes of a list in a response |
| `WireUpdater` | api_http.go under updater.go | `ListUpdater` with `BatchGetHashLists` for its API; implements `ListUpdater` |
| `ConcurrentDatabase` | database.go, persistence.go | state machine: many goroutines apply, invalidate and save |
| `SnapshotStore` | the interface in persistence.go | abstract specification |
| `FileStore` | filestore.go | state machine; implements `SnapshotStore` |
| `PrefixCaches` | search_cache.go | pure operators |
| `URLChecker` | checker.go | state machine; extends `PrefixCaches` |
| `SearchAnswers` | api_http.go, checker.go | which threats an answer of the service confirms |
| `URLs` | urls.go | canonicalization and expressions, on bytes |
| `Rice` | rice.go | the decoder, on bits |
| `Backoffs` | retryDelay in updater.go | in machine integers of a small width |
| `Serve` | cmd/sbserver/main.go, httpserver/handler.go | state machine: the processes of the server |
| `Loops` | | a loop as the rounds of its body, or over the elements of a sequence |
| `MC*` | | instances for TLC; `MCAlgorithms` checks the pure algorithms |
| `ListUpdaterProofs`, `FileStoreProofs`, `WireUpdaterProofs`, `ConcurrentDatabaseProofs`, `URLCheckerProofs`, `ServeProofs`, `AlgorithmProofs`, `URLProofs` | | theorems |

Operators whose names describe a mistake (`SyncNot`, `HitForever`,
`FailedSooner`, `AccusedAll`, ...) stand just before the definition they
distort. They are not used by any specification: substituting one shows that
the property about it can fail.

### HashLists, Databases, Snapshots

An entry is a natural number, so a strictly increasing packed byte string is a
finite set, and index *i* is the element with *i* smaller ones. SHA-256 is
taken as injective, except that an empty list has the same sum at every width,
as in the code. Versions are positive numbers, 0 for the empty one; times are
positive, 0 for the zero `time.Time`. A name that is not in the Go map maps to
`NoList`, the zero value that indexing the Go map yields. `ApplyError` makes
the checks of `Apply` in their order, `UpdateError` those of `ApplyUpdate`,
`Readable` those of `decodeDatabase`, which re-applies each stored list as a
full update. Snapshots are told apart as far as decoding can: absent, corrupt,
of another format or version (whose JSON fits `persistedSnapshot` or not), too
large, or a well-formed set of lists.

### ListUpdater

`Callers` are goroutines that call `Update` or `Run`. A step is the code
between two points where something else can be seen: the API call (`fetch`),
the store call (`save`), the timer (`wait`), and each acquisition of `u.mu`.

| code | actions |
|---|---|
| enter, leave | `Enter`, `Leave` |
| initialize | `Initialize`, `LoadFailed`, `AlreadyInitialized` |
| cycle up to the API call | `BeginCycle` |
| the API call returns | `FetchReturned` (an update for each list, each accepted or refused), `FetchFailed` (an error, naming a list or none) |
| save | `BeginSave`, `Saved`, `SaveFailed` (before or after publishing) |
| Update returns; Run sleeps, wakes | `UpdateReturns`; `Sleep`, `WakeUp` |
| ctx done | `Cancel` (by the caller), `Abort` (noticed) |
| outside | `Tick`; `Crash`: the process dies, a save in progress has published or not, the clock may be set back before the restart |

The service holds fixed contents at each version. Its reply to a list may be
full or partial, with or without metadata, with any wait, and may be faulty:
wrong data, base version, width, wait or removal index. `notBefore` is history:
the earliest time the service allows the list to be asked for again.

Jitter: `retryDelay` may return anything from half the delay to the delay. The
clock never goes back while the process lives (Go compares readings of one
process by the monotonic clock); a loaded time has only its wall reading, and
`Crash` is where the wall clock may be set back. The deadline history of a list
starts over with what the snapshot says of it, so a list that was invalidated,
and is therefore not in the snapshot, may be asked for at once after a restart.

### Responses and WireUpdater

`ListUpdater` is written over any `ListAPI`. `WireUpdater` puts `HTTPAPI` under it:
a response holds a list for each one asked for, `Sent` is that list as the
service sends it, with or without one of `WireFaults` (a wrong name, a negative
duration, conflicting metadata, another width, a Rice block that does not
decode, no checksum, or data and indices that are well-formed and wrong), and
`Decodes` and `DecodedUpdate` are decodeList. `Batched` decodes all of them or
fails with a `ListResponseError` naming the first that does not decode, in the
order of the requests; `GetFailed` is a failed exchange, with or without
Retry-After, `ResponseInvalid` a response that is not one. Every other step is
`ListUpdater`'s, and `Implements` is that the two together are still a
`ListUpdater`, so that all that is shown there holds here. `faulty` and
`heldUntil` are history. How a fault shows in the bytes is left out, as is which
check of decodeList refuses first: all give the same error.

### ConcurrentDatabase

A public `LocalDatabase` may be shared by more than the updater. A writer reads a
list's version (`Read`) and later applies or invalidates at that version
(`ApplyStep`, `InvalidateStep`), by when others may have changed it. A saver
waits for `saveMu` (`Lock`) or gives up when its context is done, takes the
snapshot (`Take`), and is then two processes: the store, which reads the pipe in
`Chunks`, publishes, fails or stops reading early (`ReadChunk`, `Publish`,
`StopReading`), and the encoder goroutine (`EncoderEnds`, `WriteFails`,
`EncodingFails`), which `Join` waits for. `changes` numbers the states of the
database, and `taken` says which a snapshot is of.

### Serve

`main` is where serve stands: its `select` over signal, updater and server, then
cancel, shutdown, and the two joins. The updater (`UpdaterLoads`, `UpdaterFails`,
`UpdaterStops`) and the HTTP server (`StartServing`, `AcceptFails`) send one error
each to a channel of capacity one. A request is accepted, served by the handler
and answered with a status; Shutdown waits for open ones until its timeout,
which may pass at any time (`EndDrain`, `CloseServer`). Time is left out.

### Rice, Merging, URLs, SearchAnswers, Backoffs

Sequential code without state, as operators: bits for decodeRice, with entries
of a few small bytes; the two-pointer merge of ApplyUpdate and the binary search
of Matches with their indices; Canonicalize and Expressions on bytes; the
filtering of details in SearchHashes and collectThreats; retryDelay in integers
that wrap at `MaxInt`. A loop is `Repeated(Body, start, n)`: `n` rounds of an operator
on its variables, which leaves them alone when the loop has ended; `n` is a number of
rounds that is enough. A loop over the elements of a sequence, one after the other, is
`Folded(Body, start, s)`.
`MCAlgorithms` has one action for each that chooses an input, and compares what
the code computes with a definition that says what it is for.

### SnapshotStore and FileStore

`SnapshotStore` says what the interface's comment promises: a Save that
returned nil is what is found from then on, one that failed or was cut off may
have published or not, and a reader gets one complete snapshot. `found` is a
set, because a loss of power may take back what was published and not
acknowledged. In `FileStore` a file is its contents and whether they are on the
disk; `older` holds the files that `Path` may name again until the directory is
synced. Errors are possible at every call (`Fail`), the process may stop
(`ProcessStops`) and the power may go (`PowerLoss`) at any point; unsynced
contents may then be torn, and an unsynced rename undone. The temporary file a
killed process leaves behind is not modelled: nothing reads it. After the death
of the process between the rename and the sync of the directory, a program that
starts again may load the new snapshot and a later loss of power may bring the
old one back; the specification allows this, as the interface promises nothing
of a Save that did not return.

### URLChecker and PrefixCaches

`Requests` are concurrent calls of `SearchURLs`; the steps are reading the
lists (`Start`), one look at memo and cache for each hash (`Look`), a call of
the service with a batch of prefixes (`Call`; `Returned`, `Failed`, `Stop`),
one `PutOne` for each prefix, and the verdict on a URL (`EndCheck`). The
environment changes the lists between requests (`UpdateLists`), changes the
service's mind about a hash (`ChangeMind`, once for each, which is what a bound
on the age of evidence needs), cancels (`Cancel`) and lets time pass.

A verdict may rest on an answer given when its call began, cached for its
duration from when the call returned. So evidence is at most `MaxTtl +
MaxLatency` old when the request starts, and the properties speak of hashes
about which the service has not changed its mind for that long (`Settled`).
Invalid modes and URLs are refused before anything modelled happens; repeated
URLs are skipped by the code and are not given to the model. Threat types and
attributes are reduced to whether a hash is an enforceable threat.

## Runs

| run | instance | what it shows |
|---|---|---|
| `updater_store` | one list of 4-byte prefixes and an unselected one, two callers, every kind of initial snapshot, every fault | all ten safety properties of the updater |
| `updater_live` | one list, one caller, fair | a canceled call returns; a Run that goes on gets ready, and saves, again and again |
| `updater_newer` | a snapshot of another format with another shape | violation, see Findings |
| `updater_lists` | two lists of different widths in one batch over HTTPAPI, every wire fault | HTTPAPI under the updater implements `ListUpdater`; one list's fault never costs another its contents; deadlines and sleep with two lists |
| `updater_wire` | the same | violation, see Findings |
| `database` | two writers, two savers, three versions of one list, two changes, a snapshot of one read, fair | races on one database lose nothing, go nowhere back, save in order, and every Save returns |
| `filestore` | three snapshots | `NeverTorn`, and `Promise`: FileStore implements SnapshotStore |
| `checker_fresh` | two real-time requests, a cache of one prefix, three hashes of which two share a prefix, one that changes | the cache agrees with itself; threats and only threats are reported, whatever expires or comes late |
| `checker_modes` | two requests of two URLs, both modes, lists that come and go, batches of one prefix | the same through fallback, fail-open and ErrNotReady; no question is asked twice |
| `checker_live` | two real-time requests, one that may be canceled, fair | every request returns, its fallback to the local lists included |
| `serve` | three requests, fair | serve joins both workers, returns the right error, and returns |
| `algorithms` | every input up to the bounds below | the pure algorithms compute what they should |

Bounds. `MaxTime` is where the clock stops (4 in `updater_store`: a load, a
failure with its retry, a success with its wait, a save with its retry);
deadlines may lie beyond it, up to `Horizon`, where they are no longer told
apart. `Horizon` is 9 there, beyond `MaxTime` plus the longest wait and delay,
so it never truncates a deadline that the run compares. In `updater_live` both are 3:
every deadline must be reached by a clock that stops, or retries would wait for
ever for a reason the code does not have. Failures are counted up
to `MaxFailures` = 2, where the delay has reached `RetryMax`. Three versions of a
list are enough for an answer that changes it, one that does not, and one
against a version no longer current. In the checker `MaxTtl` and `MaxLatency`
are 1 and `MaxTime` is 2: an entry can be cached by a call that began before a
change, be found, expire and be replaced. In `checker_modes` time stands still,
since neither modes nor fallback depend on it, and nothing expires. In `database`
two changes are enough for a writer that has read a version before both, and two
savers for one that overtakes; one read of the pipe distinguishes a store that
stops before it, after it and at its end. In `algorithms` a Rice block has up to
`MaxBits` = 8 bits in bytes of 2, entries of 4 bits and quotients of 3 bits, so that
sums, quotients and padding reach the edge of their width; `MaxRaw` = 4 varying
bytes of a URL hold an escape of an escape's first byte, `MaxPath` = 10 bytes five
directories, one more than the limit; `MaxInt` = 31 makes a doubled delay
overflow within the failures tried. The theorems do not depend on any of these
bounds.

Deadlock. The clock of `ListUpdater` can stop but a crash or a call is always
possible, so TLC checks for deadlock there and in `FileStore`. In `URLChecker`
each request is made once: when all have returned and the time is up nothing
is left to do, and the runs do not check for deadlock. Nor do `serve`, which ends
when serve returns, and `algorithms`, whose behaviours are one choice long.

Fairness. For a caller of the updater, `WF(Step(c))`: Go runs every goroutine
that can run, and API and store calls are bounded by `RequestTimeout`. `WF(Tick)`:
time passes. `SF(FetchReturned(c, Honest))` and `SF(Saved(c))` are assumptions about
the outside: a service asked for ever sometimes answers without a fault, and a
store that is tried for ever sometimes works; without them no code could get
ready. The code's part is that it keeps asking and keeps trying. For the checker
only `WF(Step(r))` is assumed: a call ends, with whatever outcome, at the latest
by the HTTP client's timeout (30 s by default) or the handler's. `ConcurrentDatabase`
has `SF(Lock(s))`, since a sync.Mutex in starvation mode is handed to the longest
waiter, and weak fairness of the saver, the store and the encoder. `Serve` has weak
fairness of serve's own steps, of the start of the server and of its end once it
is shutting down, and of `UpdaterStops`, which is what `CancelStops` shows of the
updater; nothing is assumed of searches.

## Properties

ListUpdater

- `TypeOK`: types, the one type invariant.
- `OneOperation`: one Run or Update at a time, and busy exactly then.
- `ReadyMeansLoaded`: a list is `Available` exactly when the database has it, with the configured width and with metadata; no other list is there.
- `ListsMatchService`: a list is what the service has at its version.
- `CleanMeansSaved`: while not dirty, a restart would restore the database as it is.
- `SavesRestorable`: so would it what a save in progress publishes.
- `ServerDeadlinesHonoured`: no list is asked for before the time the service set.
- `NeverPredates`: nor before the time it was stored, clock set back or not.
- `NothingDueAsleep`: while Run sleeps nothing is due, neither list nor save.
- `UnreadableKept`: a snapshot that cannot be read, without being corrupt, stays.
- `CancelStops`, `RunGetsReady`, `RunSaves`: liveness.

WireUpdater

- `Implements`: a refinement of `ListUpdater`.
- `OnlyFaultyInvalidated`: a running updater drops a list only for something wrong with that list's own part of a response, or with all of it.
- `WaitsHonoured`: violated, see Findings.

ConcurrentDatabase

- `ListsMatchService`: as for the updater, with racing writers.
- `NeverBack`: no list goes back to an older version or an earlier time.
- `NeverOlder`: an older snapshot never replaces a newer one.
- `AckedSaves`: a Save that returned nil has published what there was when it was called, or something newer.
- `SavesReturn`: liveness, through a store that stops reading.

FileStore: `NeverTorn` (readers and restarts see whole snapshots), `Promise`
(refinement of `SnapshotStore`).

URLChecker

- `CacheAgrees`: map and list of the cache hold the same, once, within capacity.
- `ThreatsReported`: a settled threat that nothing excuses is reported.
- `ThreatsReal`: what is reported is, or has lately been, a threat.
- `AskedOnce`: no prefix is sent again after an answer.
- `Answered`: liveness.

Serve

- `Joined`: both workers have ended when serve returns, and open requests unless Shutdown timed out.
- `StoppedOnRequest`: nil only after a signal.
- `UpdaterFailureReported`: an initialization failure is never lost.
- `ServeReturns`: liveness.

Algorithms: `RiceInverse`, `MergeAgrees`, `SpellingIgnored`, `ExpressionsComplete`,
`Enforced`, `BackoffDoubles`.

## Proofs

All are checked by TLAPS for any constants that satisfy the assumptions named in
the modules: any lists, contents, replies, callers, initial stores, requests,
URLs, capacities, delays and bounds.

The assumptions. `ConfigAssumption`: what `NewListUpdater` enforces.
`ServiceAssumption`: the types of the service's contents, which are finite, and replies.
`StoreAssumption`: a snapshot in the store at first, if it passes verification
and has the configured width, holds what the service has at its version: a
checksum that the file itself carries cannot tell a forged file from a true
one. `SnapshotAssumption`: the markers for absence are not snapshots.
`WireAssumption`: what survives decoding of a wire reply is a reply of
`ListUpdater`'s. `DatabaseAssumption`: what the database starts with is genuine.
`CheckerAssumption`: types, a batch of one prefix at least, and a longest cache
duration of one at least.

The safety invariants of the updater are not inductive alone. They are proved
in three layers, each a conjunction of named parts:

1. `Typed`: `TypeOK`, with requests typed as functions.
   `OneOperation` is inductive on top of it, and is what makes the later layers
   local: while one caller is in a step, no other caller changes anything.
2. `Integrity`: the four properties about contents
   need one another. `ListsMatchService` needs that every list that an update is
   applied to is genuine (`AllGenuine`), which after a restart needs that the
   store is honest (`StoreHonest`), which needs it of the lists a save is
   writing. `CleanMeansSaved` needs that the lists being saved are still those of
   the database when the save returns (`SnapIsCurrent`). `ReadyMeansLoaded` needs
   that before initialization nothing is available (`Untouched`).
3. `Schedule`: deadlines. `InTime` bounds a list's stored
   time by the clock or by its next attempt, `Spaced` puts the next attempt at
   or after `notBefore`, `AskedAreDue` says a request in flight was due when it
   was made, `SleepsUntilDue` that the timer fires no later than the first
   deadline, `UnreadableBlocks` that over an unreadable snapshot the updater
   never gets initialized.

`UnreadableTheorem` is an action property; the others are invariants. They
cover all ten properties that the run `updater_store` checks.

`FileStoreProofs` proves `TornTheorem` from an invariant `Inv` (only whole and
synced files are ever at `Path`, or may come back; the file to be renamed is the
snapshot being saved), and `PromiseTheorem`, the refinement, from the same
invariant: a rename publishes, the sync of the directory succeeds, losing older
files settles what may be found.

`WireUpdaterProofs`: `WireImplements` maps each step over HTTPAPI to one of
`ListUpdater`; the step that matters is `Batched`, where a decoded list is an
honest or silently faulty update (`Carried`), or one of its checks has failed the
call. Deadlines and contents over HTTPAPI follow from it and the theorems about
`ListUpdater`.

`OnlyFaultyDropped` is the action property `OnlyFaultyInvalidated`: while the updater
runs, only a fault in a list's own part of a response, or a response that is none,
drops the list. It has two halves. A list that is accused is one that does not
decode, and an honest part does. And a list that is applied is applied to the
version it was asked for (`AskedAtVersion`, with `OneOperation`), so an honest update
has the right base, width and removals, and passes every check of `cycle` and
`Apply`. A service whose contents were infinite would have no list to send, so
`ServiceAssumption` says they are finite.

`ConcurrentDatabaseProofs`: `Inv` is `TypeOK` with `Genuine` (of the lists, of every
snapshot being saved and of the store), `Exclusive` (only the holder of `saveMu` is
past it) and `Ordered` (the store's snapshot is no newer than the one being saved,
that one no newer than the database, and it was taken after its Save was called).
Without `Exclusive` an older snapshot could be published last; without `Ordered` an
acknowledged one could be of the state before the call.

`ServeProofs`: `Channels` (an error is in its channel or was received, once),
`Stopping` (past the select something has happened, and how far the shutdown of
the HTTP server is) and `Results` (which error `main` holds for what has ended),
with the type invariant.

`URLCheckerProofs`: all four safety properties of the checker, from one `Inv`:

- `CacheGood`: every cached answer is right as of `Window` = `MaxTtl` + `MaxLatency`
  before it expires, where `Right(m, p, t)` says that `m` differs from what the
  service has now only in hashes it changed its mind about later than `Window`
  before `t`;
- `Kept`: so is the memo of a request, as of its start, and every URL it is done
  with has its verdict;
- `Open`: during a check every hash that decides the URL has been found, is still
  to be looked at, or waits for a prefix that is wanted or asked for. This is what
  a lost hash would break, in a batch, after a failed one or in the fallback;
- `Calling`, `Putting`: an answer on its way is right as of when its call began, and
  for as long as it will be cached.

`Tick` moves the clock toward expiry only, and `ChangeMind` (`ChangeMindKeeps`) keeps
`Right` for every `t` that is less than `Window` ahead, which is why nothing may be
cached for longer than the service said. That the entries of the list are
distinct is proved along (`TakenOut`, `PutInFront`).

`AlgorithmProofs` and `URLProofs`: the pure algorithms, for inputs of any length and
for machine integers, entries and bytes of any width. The theorems about operators
(`DelaysDouble`, `SearchFinds`, `MergesAll`, `ExpressionsAll`, `NoEscapeLeft`,
`RiceInverts`, `DecodedSame`, `EscapedSame`, `CleanedAgain`, `HostFixed`, `SpellingsAgree`,
`CanonicalAgain`) do not mention the bounds of the run; those named `...Safe`, and
`EnforcedOnly`, conclude that the run's invariants hold for any bounds.

- A proof about a loop has three parts: an invariant of the values of its variables
  that a round keeps (`Narrows`, `MergesOn`, `SearchesOn`, `PassesOn`, `ReadsOn`,
  `DecodesOn`), the induction over the rounds (the lemmas ending in `Rounds`), and that
  after the rounds it is given the loop has ended. The induction is in the form of a
  set, `Induction`: a set of numbers that holds 0 and with each number the next holds
  all; it follows from `NatLessThanWellFounded` by the least number that is missing
  (`Least`).
- `MergesOn` keeps that what was written is the survivors among the entries and the
  additions seen so far, in order, that the index into the removals counts the
  removed entries seen, and that every addition below the next entry has been
  written. `MergesAll` says of the end that the merge is the update `HashLists`
  describes, or that an addition survives in the base.
- `NoEscapeLeft`: a pass that meets an escape shortens the string by two bytes for
  each (`PassShortens`), so as many passes as the string has bytes leave none.
- `RiceInverts` goes both ways. Every sorted list decodes from its encoding: a delta
  is its quotient in unary and its bits (`BitsOf`, `RemainderOf`), a code read at its
  place is read whole (`CodeIsRead`), and with `j` entries decoded the reader stands
  after the codes of `j` deltas (`RoundsDecode`). And what is decoded is strictly
  increasing, fits its width, and encodes to the very data it was decoded from
  (`RoundsEncode`), since no code but one stands at a place (`ReadIsCode`) and the
  padding is zeros and shorter than a byte (`PaddingIs`): no two blocks are accepted
  for one list. `RiceAssumption` and `WidthAssumption` ask for bytes of at least one bit
  and entries with room for the quotients; the code's bytes of 8 bits, widths of 4,
  8, 16 and 32 bytes and `QuotientBits` satisfy them.
- `SpellingsAgree` and `CanonicalAgain` are about every string of bytes. A fold has no
  equation that a prover sees, so each loop of urls.go gets one first (`EscapedEquation`,
  `CutEquation`, `StackEquation`, ...: what it makes of nothing, and of a sequence with one
  element more), from a function that does its steps (`FoldIs`) and is the only one
  (`FoldAgrees`); after that, induction is over the set of the strings for which a
  statement holds (`AppendInduction`, `LengthInduction`).
  - Escapes: `Decoded(s, i)` is `s` with the one escape at `i` decoded. Two escapes of a
    string do not overlap, so either may go first (`EitherFirst`), and since each makes the
    string shorter, all orders end in one string without escapes (`DecodedSame`); a pass of
    unescapeRepeated is one of the orders (`PassDecodes`). Hence a byte may be written as
    an escape anywhere, inside another escape too (`EncodedSame`), and what escapeCanonical
    prints is decoded (`EscapedSame`).
  - Paths: splitting what was joined gives the parts again (`JoinSplit`, `SplitConcat`), and
    parts that cancel leave the stack as it was (`StackAfter`, `CleanedSlashes`). The stack
    holds no "", "." or "..", so a clean path is kept (`CleanedAgain`).
  - Hosts: lowering keeps the labels apart (`LoweredJoin`), the four numbers in decimal are
    read as themselves (`DecimalIs`, `IPv4Of`), so canonicalHost keeps what it returns
    (`HostFixed`), which holds no delimiter, and so is found whole when the URL is taken
    apart again (`SpelledApart`).
  - `Bare`, the hypothesis of `SpellingsAgree`, says that the URL holds no blank that is
    stripped and no fragment: both would be gone before it matters how they are spelled.
    `CanonicalAgain` has no such hypothesis.

Only model-checked: the liveness properties (`CancelStops`, `RunGetsReady`, `RunSaves`,
`SavesReturn`, `Answered`, `ServeReturns`), since fairness and ENABLED are beyond TLAPS.
Every invariant and every action property of the passing runs is proved.

## Findings

`updater_newer`. persistence.go:31-32 says that `ErrUnsupportedSnapshot`, a format
or version this package cannot read, "must not trigger an overwrite". But
`decodeDatabase` decodes the document into `persistedSnapshot` before it looks at
format and version, so a document of another version in which some field has
another type is an `ErrInvalidSnapshot` alone. The updater takes it for corrupt,
starts over and overwrites it with its next save. `UnreadableKept` shows that a
newer snapshot whose JSON does decode is kept.

`updater_wire`. updater.go:391-392 says that "even an invalid update cannot make the
scheduler fetch before a valid server wait duration supplied in that response".
That holds for an update that does not apply. But `BatchGetHashLists`
(api_http.go:241) returns an error for the whole response at the first list that
does not decode, so the waits of the lists that do are dropped with it, and
those lists are asked for again after the retry delay. `ServerDeadlinesHonoured`
shows that a wait that reaches the scheduler is honoured.

## Not modelled

- Generated protobuf code (sbproto): third-party output without logic of its own.
- Flags, configuration, logging and the wiring of the commands: no state.
- The requests HTTPAPI builds, `GetHashList`, `ListHashLists` and the size
  constraints: single exchanges whose checks are those of `Responses`; the byte
  grammar of protobuf, of JSON and of the query string.
- In URLs: the scheme (checked, not hashed), IPv6 literals, international names and
  the public suffix list, which are libraries; a host with one of those is refused
  by `URLs`, and the registrable domain is an input. SHA-256 is injective.
- Bounds of the standard library (file sizes, header sizes, timeouts of
  connections) beyond the errors they cause, which any step of I/O may have.
- The composition of `ListUpdater` and `FileStore` in one state space: the updater
  sees of a store what `SnapshotStore` promises, and FileStore is proved to keep
  that promise.
