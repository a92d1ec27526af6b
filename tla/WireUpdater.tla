--------------------------- MODULE WireUpdater ---------------------------
(***************************************************************************)
(* ListUpdater over HTTPAPI: the one call of a cycle is BatchGetHashLists  *)
(* (api_http.go), which sends one request for all the due lists, decodes   *)
(* the lists of the response in order and gives up at the first that does  *)
(* not decode. Everything else is ListUpdater's.                           *)
(***************************************************************************)
EXTENDS ListUpdater, Responses

CONSTANTS
  WireReplies,  \* what a response may hold for one list
  Position      \* Position[n]: the place of list n in UpdaterConfig.Lists

\* What survives decoding is what ListUpdater expects of an API.
Carried(r) == [r EXCEPT !.fault = IF @ \in SilentFaults THEN @ ELSE "none"]

ASSUME WireAssumption ==
  /\ 0 \in RetryAfters
  /\ Position \in [Selected -> Nat]
  /\ \A r \in WireReplies : r.fault \in WireFaults /\ Carried(r) \in Replies

VARIABLES
  faulty,    \* history: the lists that had something wrong in the response the
             \* last step took; none when it took none
  heldUntil  \* history: the earliest time for list n, by the last valid wait
             \* that any response had for it

wireVars == <<vars, faulty, heldUntil>>
----
\* get fails: the transport, a status with or without Retry-After, or more
\* bytes than allowed.
GetFailed(c) ==
  /\ \E after \in RetryAfters : CallFailed(c, {}, after)
  /\ faulty' = {}
  /\ UNCHANGED heldUntil

\* The response as a whole is not one: its content type, its bytes or the
\* number of its lists.
ResponseInvalid(c) ==
  /\ CallFailed(c, DOMAIN request[c], 0)
  /\ faulty' = DOMAIN request[c]
  /\ UNCHANGED heldUntil

\* The lists the ListResponseError of a batch may name: the first, in the order
\* of the requests, of those that do not decode.
AccusedAll(asked, bad) == {asked}
Accused(asked, bad) ==
  {{n} : n \in {m \in bad : \A k \in bad : Position[m] <= Position[k]}}

\* BatchGetHashLists: all the lists decode and are handed on, or none is.
Batched(c) ==
  LET asked == DOMAIN request[c] IN
  \E reply \in [asked -> WireReplies] :
    LET sent == [n \in asked |-> Sent(n, request[c][n], reply[n])]
        bad  == {n \in asked : ~Decodes(n, request[c][n], sent[n])}
    IN /\ \/ bad # {} /\ \E blamed \in Accused(asked, bad) : CallFailed(c, blamed, 0)
          \/ bad = {} /\ \E delay \in ListDelays(asked) :
               Received(c, [n \in asked |-> DecodedUpdate(n, request[c][n], sent[n])], delay)
       /\ faulty' = {n \in asked : reply[n].fault # "none"}
       /\ heldUntil' = [n \in Selected |->
            IF n \in asked /\ sent[n].wait >= 0 THEN Deadline(now + sent[n].wait)
            ELSE heldUntil[n]]
----
WireInit == Init /\ faulty = {} /\ heldUntil = [n \in Selected |-> 0]

\* The steps of ListUpdater that do not end a call.
Local(c) ==
  \/ AlreadyInitialized(c) \/ LoadFailed(c) \/ Initialize(c) \/ BeginCycle(c)
  \/ BeginSave(c) \/ Saved(c) \/ SaveFailed(c)
  \/ UpdateReturns(c) \/ Sleep(c) \/ WakeUp(c) \/ Abort(c)
  \/ Cancel(c) \/ \E m \in {"update", "run"} : Enter(c, m)

\* A restarted program knows nothing of what it was told.
WireNext ==
  \/ \E c \in Callers : GetFailed(c) \/ ResponseInvalid(c) \/ Batched(c)
  \/ /\ Tick \/ \E c \in Callers : Local(c)
     /\ faulty' = {} /\ UNCHANGED heldUntil
  \/ /\ Crash
     /\ faulty' = {} /\ heldUntil' = [n \in Selected |-> 0]

WireSpec == WireInit /\ [][WireNext]_wireVars
----
(* Properties *)

\* Over HTTPAPI the updater does what ListUpdater allows it over any API: so
\* whatever is shown of ListUpdater holds of the two together. What decodeList
\* lets through is a good update, or one that Apply refuses (decodeList,
\* BatchGetHashLists, cycle).
Implements == Spec

\* A running updater drops a list only when the response had something wrong
\* with that very list, or was no response: never for what is wrong with another
\* list of the batch (the scoped error in cycle), nor on an honest update from
\* the version it was asked for.
OnlyFaultyInvalidated ==
  [][initialized' =>
       \A n \in Names : Exists(db, n) /\ ~Exists(db', n) => n \in faulty']_wireVars

\* "Even an invalid update cannot make the scheduler fetch before a valid server
\* wait duration supplied in that response" (cycle), of every list of a response.
WaitsHonoured ==
  \A c \in Callers : pc[c] = "fetch" =>
    \A n \in DOMAIN request[c] : now >= heldUntil[n]
==========================================================================
