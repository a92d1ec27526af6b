------------------------------- MODULE Serve -------------------------------
(***************************************************************************)
(* cmd/sbserver/main.go and httpserver/handler.go: serve runs the updater  *)
(* and the HTTP server in goroutines of their own, stops both as soon as   *)
(* a signal arrives or one of them ends, and joins them.                   *)
(*                                                                         *)
(* Time is left out: the timeout of the shutdown, and those of a search    *)
(* and of a connection, may pass at any time.                              *)
(***************************************************************************)
EXTENDS Naturals

CONSTANT Requests  \* the requests, or connections, clients may make

VARIABLES
  signaled,    \* ctx is done: SIGINT or SIGTERM has arrived
  canceled,    \* cancel has been called
  main,        \* serve: where it is, its variables, whether Shutdown timed out
  updater,     \* updater.Run: "loading", "looping", or the error it returned
  updateDone,  \* whether that error is in the channel
  http,        \* server.Serve: "starting", "accepting", or its error
  httpDone,    \* whether that error is in the channel
  closing,     \* the server is shutting down
  request      \* ServeHTTP for each request, and the status it answered

vars == <<signaled, canceled, main, updater, updateDone, http, httpDone, closing, request>>

Set(state) == main' = state
WorkerDone == signaled \/ canceled  \* workerCtx
----
(* serve *)

SelectSignal ==
  /\ main.pc = "select" /\ signaled
  /\ Set([main EXCEPT !.pc = "cancel"])
  /\ UNCHANGED <<signaled, canceled, updater, updateDone, http, httpDone, closing, request>>

SelectUpdaterQuietly ==
  /\ main.pc = "select" /\ updateDone
  /\ updateDone' = FALSE
  /\ Set([main EXCEPT !.pc = "cancel", !.updaterStopped = TRUE])
  /\ UNCHANGED <<signaled, canceled, updater, http, httpDone, closing, request>>
SelectUpdater ==
  /\ main.pc = "select" /\ updateDone
  /\ updateDone' = FALSE
  /\ Set([main EXCEPT !.pc = "cancel", !.result = updater, !.updaterStopped = TRUE])
  /\ UNCHANGED <<signaled, canceled, updater, http, httpDone, closing, request>>

SelectHTTP ==
  /\ main.pc = "select" /\ httpDone
  /\ httpDone' = FALSE
  /\ Set([main EXCEPT !.pc = "cancel", !.result = http, !.httpStopped = TRUE])
  /\ UNCHANGED <<signaled, canceled, updater, updateDone, http, closing, request>>

CancelNothing ==
  /\ main.pc = "cancel"
  /\ Set([main EXCEPT !.pc = "shutdown"])
  /\ UNCHANGED <<signaled, canceled, updater, updateDone, http, httpDone, closing, request>>
CancelWorkers ==
  /\ main.pc = "cancel"
  /\ canceled' = TRUE
  /\ Set([main EXCEPT !.pc = "shutdown"])
  /\ UNCHANGED <<signaled, updater, updateDone, http, httpDone, closing, request>>

\* Shutdown closes the listener, waits for Serve to let go of it, and then for
\* the requests.
BeginShutdown ==
  /\ main.pc = "shutdown"
  /\ closing' = TRUE
  /\ Set([main EXCEPT !.pc = "drain"])
  /\ UNCHANGED <<signaled, canceled, updater, updateDone, http, httpDone, request>>

Serving == {r \in Requests : request[r] = "serving"}

EndDrain ==
  /\ main.pc = "drain" /\ http # "accepting" /\ Serving = {}
  /\ Set([main EXCEPT !.pc = "joinUpdater"])
  /\ UNCHANGED <<signaled, canceled, updater, updateDone, http, httpDone, closing, request>>

\* After five seconds the connections are closed, with their handlers running.
CloseServer ==
  /\ main.pc = "drain" /\ http # "accepting" /\ Serving # {}
  /\ Set([main EXCEPT !.pc = "joinUpdater", !.timedOut = TRUE,
            !.result = IF @ = "nil" THEN "timeout" ELSE @])
  /\ UNCHANGED <<signaled, canceled, updater, updateDone, http, httpDone, closing, request>>

\* An error is kept if it is the first, and not the one a stop brings about.
Kept(err, expected) ==
  IF main.result = "nil" /\ err # expected THEN err ELSE main.result

JoinUpdaterQuietly ==
  /\ main.pc = "joinUpdater" /\ (main.updaterStopped \/ updateDone)
  /\ updateDone' = FALSE
  /\ Set([main EXCEPT !.pc = "joinHTTP"])
  /\ UNCHANGED <<signaled, canceled, updater, http, httpDone, closing, request>>
JoinUpdater ==
  /\ main.pc = "joinUpdater" /\ (main.updaterStopped \/ updateDone)
  /\ updateDone' = FALSE
  /\ Set([main EXCEPT !.pc = "joinHTTP",
            !.result = IF main.updaterStopped THEN @ ELSE Kept(updater, "canceled")])
  /\ UNCHANGED <<signaled, canceled, updater, http, httpDone, closing, request>>

\* serve returns; being stopped is no error.
Returned(err) == IF err \in {"canceled", "closed"} THEN "nil" ELSE err

JoinHTTPLater ==
  /\ main.pc = "joinHTTP"
  /\ Set([main EXCEPT !.pc = "returned", !.result = Returned(@)])
  /\ UNCHANGED <<signaled, canceled, updater, updateDone, http, httpDone, closing, request>>
JoinHTTP ==
  /\ main.pc = "joinHTTP" /\ (main.httpStopped \/ httpDone)
  /\ httpDone' = FALSE
  /\ Set([main EXCEPT !.pc = "returned",
            !.result = Returned(IF main.httpStopped THEN @ ELSE Kept(http, "closed"))])
  /\ UNCHANGED <<signaled, canceled, updater, updateDone, http, closing, request>>
----
(* The updater: see ListUpdater *)

UpdaterEnds(err) ==
  /\ updater' = err /\ updateDone' = TRUE
  /\ UNCHANGED <<signaled, canceled, main, http, httpDone, closing, request>>

UpdaterLoads ==
  /\ updater = "loading"
  /\ updater' = "looping"
  /\ UNCHANGED <<signaled, canceled, main, updateDone, http, httpDone, closing, request>>

\* Only initialization fails; a context that is done goes before its error.
UpdaterFails == updater = "loading" /\ ~WorkerDone /\ UpdaterEnds("failed")
UpdaterStops == updater \in {"loading", "looping"} /\ WorkerDone /\ UpdaterEnds("canceled")
----
(* The HTTP server *)

HTTPEnds(err) ==
  /\ http' = err /\ httpDone' = TRUE
  /\ UNCHANGED <<signaled, canceled, main, updater, updateDone, closing, request>>

StartServing ==
  /\ http = "starting"
  /\ IF closing THEN HTTPEnds("closed")
     ELSE /\ http' = "accepting"
          /\ UNCHANGED <<signaled, canceled, main, updater, updateDone, httpDone, closing, request>>

\* The listener fails, or was closed by Shutdown.
AcceptFails == http = "accepting" /\ HTTPEnds(IF closing THEN "closed" ELSE "broken")

\* A connection may have been accepted just before Shutdown.
Accept(r) ==
  /\ http = "accepting" /\ request[r] = "none"
  /\ request' = [request EXCEPT ![r] = "serving"]
  /\ UNCHANGED <<signaled, canceled, main, updater, updateDone, http, httpDone, closing>>

\* ServeHTTP: a request that is not a search, or not a valid one, is refused;
\* a search ends with a result or an error, "canceled" only if its context is.
SearchResults == {"rejected", "ok", "ErrInvalidAPIRequest", "ErrNotReady", "deadline", "failed"}

Status(result) ==
  CASE result = "ok" -> "200"
    [] result \in {"rejected", "ErrInvalidAPIRequest"} -> "4xx"
    [] result = "deadline" -> "504"
    [] result \in {"ErrNotReady", "canceled", "failed"} -> "503"

ServeHTTP(r) ==
  /\ request[r] = "serving"
  /\ \E result \in SearchResults \cup {x \in {"canceled"} : WorkerDone} :
       request' = [request EXCEPT ![r] = Status(result)]
  /\ UNCHANGED <<signaled, canceled, main, updater, updateDone, http, httpDone, closing>>
----
Signal ==
  /\ ~signaled /\ signaled' = TRUE
  /\ UNCHANGED <<canceled, main, updater, updateDone, http, httpDone, closing, request>>

Starting == [pc |-> "select", result |-> "nil", updaterStopped |-> FALSE,
             httpStopped |-> FALSE, timedOut |-> FALSE]

Init ==
  /\ signaled = FALSE /\ canceled = FALSE /\ closing = FALSE
  /\ main = Starting
  /\ updater = "loading" /\ updateDone = FALSE
  /\ http = "starting" /\ httpDone = FALSE
  /\ request = [r \in Requests |-> "none"]

ServeStep ==
  \/ SelectSignal \/ SelectUpdater \/ SelectHTTP \/ CancelWorkers \/ BeginShutdown
  \/ EndDrain \/ CloseServer \/ JoinUpdater \/ JoinHTTP

Next ==
  \/ ServeStep \/ Signal
  \/ UpdaterLoads \/ UpdaterFails \/ UpdaterStops
  \/ StartServing \/ AcceptFails
  \/ \E r \in Requests : Accept(r) \/ ServeHTTP(r)

Spec == Init /\ [][Next]_vars

\* The scheduler runs every goroutine that can run, the updater stops when its
\* context is done (ListUpdater's CancelStops) and Serve when its listener is
\* closed. Nothing is assumed of searches: Shutdown has a timeout.
FairSpec ==
  /\ Spec
  /\ WF_vars(ServeStep) /\ WF_vars(UpdaterStops) /\ WF_vars(StartServing)
  /\ WF_vars(closing /\ AcceptFails)
----
(* Properties *)

UpdaterEnded == updater \in {"canceled", "failed"}
HTTPEnded == http \in {"closed", "broken"}

\* Every variable has its type.
TypeOK ==
  /\ signaled \in BOOLEAN /\ canceled \in BOOLEAN /\ closing \in BOOLEAN
  /\ updateDone \in BOOLEAN /\ httpDone \in BOOLEAN
  /\ main \in [pc : {"select", "cancel", "shutdown", "drain", "joinUpdater", "joinHTTP", "returned"},
               result : {"nil", "canceled", "failed", "closed", "broken", "timeout"},
               updaterStopped : BOOLEAN, httpStopped : BOOLEAN, timedOut : BOOLEAN]
  /\ updater \in {"loading", "looping", "canceled", "failed"}
  /\ http \in {"starting", "accepting", "closed", "broken"}
  /\ request \in [Requests -> {"none", "serving", "200", "4xx", "503", "504"}]

\* "serve owns the listener and joins both workers before returning": whoever
\* ended first, both have ended when it returns, and no request is left behind
\* that Shutdown did not give up on.
Joined ==
  main.pc = "returned" => /\ UpdaterEnded /\ HTTPEnded
                          /\ ~main.timedOut => Serving = {}

\* serve returns nil, and the process exits with 0, only when it was told to
\* stop: neither the updater nor the server can end the other silently.
StoppedOnRequest == main.pc = "returned" /\ main.result = "nil" => signaled

\* A failure to initialize is never taken for a clean stop, though a signal, the
\* server's end or a shutdown that times out comes first or at the same time.
UpdaterFailureReported ==
  main.pc = "returned" /\ updater = "failed" => main.result # "nil"

\* serve returns once it is told to stop or either worker has ended, though
\* searches go on for ever.
ServeReturns == signaled \/ UpdaterEnded \/ HTTPEnded ~> main.pc = "returned"
===========================================================================
