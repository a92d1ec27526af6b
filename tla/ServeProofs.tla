---------------------------- MODULE ServeProofs ----------------------------
(***************************************************************************)
(* Theorems about Serve for any set of requests.                           *)
(***************************************************************************)
EXTENDS Serve, TLAPS

Joining == {"joinUpdater", "joinHTTP", "returned"}

\* An error is in its channel until serve has taken it, which it has when it
\* says so or is past the receive.
Channels ==
  /\ updateDone <=> UpdaterEnded /\ ~main.updaterStopped /\ main.pc \notin {"joinHTTP", "returned"}
  /\ httpDone <=> HTTPEnded /\ ~main.httpStopped /\ main.pc # "returned"
  /\ main.updaterStopped \/ main.pc \in {"joinHTTP", "returned"} => UpdaterEnded
  /\ main.httpStopped \/ main.pc = "returned" => HTTPEnded

\* What serve has done to stop its workers, and why they end.
Stopping ==
  /\ canceled <=> main.pc \notin {"select", "cancel"}
  /\ closing <=> main.pc \notin {"select", "cancel", "shutdown"}
  /\ updater = "canceled" => WorkerDone
  /\ http = "closed" => closing
  /\ main.pc \in Joining => http # "accepting"
  /\ main.pc \in Joining /\ ~main.timedOut => Serving = {}

Failures == {"failed", "broken", "timeout"}

\* What the result may be: the wait for a signal is over for a reason, and what
\* was received first is kept.
Results ==
  /\ main.pc = "select" => main.result = "nil" /\ ~main.updaterStopped /\ ~main.httpStopped
  /\ ~signaled /\ main.pc # "select" => main.result \in Failures
  /\ main.updaterStopped /\ main.pc # "returned" => main.result = updater
  /\ main.result # "closed"
  /\ main.result = "canceled" => main.updaterStopped
  /\ updater = "failed" /\ (main.updaterStopped \/ main.pc \in {"joinHTTP", "returned"}) =>
       main.result \in Failures

Inv == TypeOK /\ Channels /\ Stopping /\ Results

LEMMA InvInit == Init => Inv
<1> SUFFICES ASSUME Init PROVE Inv
  OBVIOUS
<1> USE DEF Init, Starting
<1>1. TypeOK
  BY DEF TypeOK
<1>2. Channels
  BY DEF Channels, UpdaterEnded, HTTPEnded
<1>3. Stopping
  BY DEF Stopping, Joining
<1>4. Results
  BY DEF Results, Failures
<1> QED BY <1>1, <1>2, <1>3, <1>4 DEF Inv

LEMMA SelectSignalKeeps == Inv /\ SelectSignal => Inv'
<1> SUFFICES ASSUME Inv, SelectSignal PROVE Inv'
  OBVIOUS
<1> USE DEF SelectSignal, Set
<1>1. TypeOK'
  BY DEF Inv, TypeOK
<1>2. Channels'
  BY DEF Inv, TypeOK, Channels, UpdaterEnded, HTTPEnded
<1>3. Stopping'
  BY DEF Inv, TypeOK, Stopping, Joining, WorkerDone, Serving
<1>4. Results'
  BY DEF Inv, TypeOK, Channels, Stopping, Results, UpdaterEnded, HTTPEnded, WorkerDone, Joining, Failures
<1> QED BY <1>1, <1>2, <1>3, <1>4 DEF Inv

LEMMA SelectUpdaterKeeps == Inv /\ SelectUpdater => Inv'
<1> SUFFICES ASSUME Inv, SelectUpdater PROVE Inv'
  OBVIOUS
<1> USE DEF SelectUpdater, Set
<1>1. TypeOK'
  BY DEF Inv, TypeOK, Channels, UpdaterEnded, HTTPEnded
<1>2. Channels'
  BY DEF Inv, TypeOK, Channels, UpdaterEnded, HTTPEnded
<1>3. Stopping'
  BY DEF Inv, TypeOK, Stopping, Joining, WorkerDone, Serving
<1>4. Results'
  BY DEF Inv, TypeOK, Channels, Stopping, Results, UpdaterEnded, HTTPEnded, WorkerDone, Joining, Failures
<1> QED BY <1>1, <1>2, <1>3, <1>4 DEF Inv

LEMMA SelectHTTPKeeps == Inv /\ SelectHTTP => Inv'
<1> SUFFICES ASSUME Inv, SelectHTTP PROVE Inv'
  OBVIOUS
<1> USE DEF SelectHTTP, Set
<1>1. TypeOK'
  BY DEF Inv, TypeOK, Channels, UpdaterEnded, HTTPEnded
<1>2. Channels'
  BY DEF Inv, TypeOK, Channels, UpdaterEnded, HTTPEnded
<1>3. Stopping'
  BY DEF Inv, TypeOK, Stopping, Joining, WorkerDone, Serving
<1>4. Results'
  BY DEF Inv, TypeOK, Channels, Stopping, Results, UpdaterEnded, HTTPEnded, WorkerDone, Joining, Failures
<1> QED BY <1>1, <1>2, <1>3, <1>4 DEF Inv

LEMMA CancelWorkersKeeps == Inv /\ CancelWorkers => Inv'
<1> SUFFICES ASSUME Inv, CancelWorkers PROVE Inv'
  OBVIOUS
<1> USE DEF CancelWorkers, Set
<1>1. TypeOK'
  BY DEF Inv, TypeOK
<1>2. Channels'
  BY DEF Inv, TypeOK, Channels, UpdaterEnded, HTTPEnded
<1>3. Stopping'
  BY DEF Inv, TypeOK, Stopping, Joining, WorkerDone, Serving
<1>4. Results'
  BY DEF Inv, TypeOK, Channels, Stopping, Results, UpdaterEnded, HTTPEnded, WorkerDone, Joining, Failures
<1> QED BY <1>1, <1>2, <1>3, <1>4 DEF Inv

LEMMA BeginShutdownKeeps == Inv /\ BeginShutdown => Inv'
<1> SUFFICES ASSUME Inv, BeginShutdown PROVE Inv'
  OBVIOUS
<1> USE DEF BeginShutdown, Set
<1>1. TypeOK'
  BY DEF Inv, TypeOK
<1>2. Channels'
  BY DEF Inv, TypeOK, Channels, UpdaterEnded, HTTPEnded
<1>3. Stopping'
  BY DEF Inv, TypeOK, Stopping, Joining, WorkerDone, Serving
<1>4. Results'
  BY DEF Inv, TypeOK, Channels, Stopping, Results, UpdaterEnded, HTTPEnded, WorkerDone, Joining, Failures
<1> QED BY <1>1, <1>2, <1>3, <1>4 DEF Inv

LEMMA EndDrainKeeps == Inv /\ EndDrain => Inv'
<1> SUFFICES ASSUME Inv, EndDrain PROVE Inv'
  OBVIOUS
<1> USE DEF EndDrain, Set
<1>1. TypeOK'
  BY DEF Inv, TypeOK
<1>2. Channels'
  BY DEF Inv, TypeOK, Channels, UpdaterEnded, HTTPEnded
<1>3. Stopping'
  BY DEF Inv, TypeOK, Stopping, Joining, WorkerDone, Serving
<1>4. Results'
  BY DEF Inv, TypeOK, Channels, Stopping, Results, UpdaterEnded, HTTPEnded, WorkerDone, Joining, Failures
<1> QED BY <1>1, <1>2, <1>3, <1>4 DEF Inv

LEMMA CloseServerKeeps == Inv /\ CloseServer => Inv'
<1> SUFFICES ASSUME Inv, CloseServer PROVE Inv'
  OBVIOUS
<1> USE DEF CloseServer, Set
<1>1. TypeOK'
  BY DEF Inv, TypeOK
<1>2. Channels'
  BY DEF Inv, TypeOK, Channels, UpdaterEnded, HTTPEnded
<1>3. Stopping'
  BY DEF Inv, TypeOK, Stopping, Joining, WorkerDone, Serving
<1>4. Results'
  BY DEF Inv, TypeOK, Channels, Stopping, Results, UpdaterEnded, HTTPEnded, WorkerDone, Joining, Failures
<1> QED BY <1>1, <1>2, <1>3, <1>4 DEF Inv

LEMMA JoinUpdaterKeeps == Inv /\ JoinUpdater => Inv'
<1> SUFFICES ASSUME Inv, JoinUpdater PROVE Inv'
  OBVIOUS
<1> USE DEF JoinUpdater, Set, Kept
<1>1. TypeOK'
  BY DEF Inv, TypeOK, Channels, UpdaterEnded, HTTPEnded
<1>2. Channels'
  BY DEF Inv, TypeOK, Channels, UpdaterEnded, HTTPEnded
<1>3. Stopping'
  BY DEF Inv, TypeOK, Stopping, Joining, WorkerDone, Serving
<1>4. Results'
  BY DEF Inv, TypeOK, Channels, Stopping, Results, UpdaterEnded, HTTPEnded, WorkerDone, Joining, Failures
<1> QED BY <1>1, <1>2, <1>3, <1>4 DEF Inv

LEMMA JoinHTTPKeeps == Inv /\ JoinHTTP => Inv'
<1> SUFFICES ASSUME Inv, JoinHTTP PROVE Inv'
  OBVIOUS
<1> USE DEF JoinHTTP, Set, Kept, Returned
<1>1. TypeOK'
  BY DEF Inv, TypeOK, Channels, UpdaterEnded, HTTPEnded
<1>2. Channels'
  BY DEF Inv, TypeOK, Channels, UpdaterEnded, HTTPEnded
<1>3. Stopping'
  BY DEF Inv, TypeOK, Stopping, Joining, WorkerDone, Serving
<1>4. Results'
  BY DEF Inv, TypeOK, Channels, Stopping, Results, UpdaterEnded, HTTPEnded, WorkerDone, Joining, Failures
<1> QED BY <1>1, <1>2, <1>3, <1>4 DEF Inv

LEMMA SignalKeeps == Inv /\ Signal => Inv'
<1> SUFFICES ASSUME Inv, Signal PROVE Inv'
  OBVIOUS
<1> USE DEF Signal
<1>1. TypeOK'
  BY DEF Inv, TypeOK
<1>2. Channels'
  BY DEF Inv, TypeOK, Channels, UpdaterEnded, HTTPEnded
<1>3. Stopping'
  BY DEF Inv, TypeOK, Stopping, Joining, WorkerDone, Serving
<1>4. Results'
  BY DEF Inv, TypeOK, Channels, Stopping, Results, UpdaterEnded, HTTPEnded, WorkerDone, Joining, Failures
<1> QED BY <1>1, <1>2, <1>3, <1>4 DEF Inv

LEMMA UpdaterLoadsKeeps == Inv /\ UpdaterLoads => Inv'
<1> SUFFICES ASSUME Inv, UpdaterLoads PROVE Inv'
  OBVIOUS
<1> USE DEF UpdaterLoads
<1>1. TypeOK'
  BY DEF Inv, TypeOK
<1>2. Channels'
  BY DEF Inv, TypeOK, Channels, UpdaterEnded, HTTPEnded
<1>3. Stopping'
  BY DEF Inv, TypeOK, Stopping, Joining, WorkerDone, Serving
<1>4. Results'
  BY DEF Inv, TypeOK, Channels, Stopping, Results, UpdaterEnded, HTTPEnded, WorkerDone, Joining, Failures
<1> QED BY <1>1, <1>2, <1>3, <1>4 DEF Inv

LEMMA UpdaterFailsKeeps == Inv /\ UpdaterFails => Inv'
<1> SUFFICES ASSUME Inv, UpdaterFails PROVE Inv'
  OBVIOUS
<1> USE DEF UpdaterFails, UpdaterEnds
<1>1. TypeOK'
  BY DEF Inv, TypeOK
<1>2. Channels'
  BY DEF Inv, TypeOK, Channels, UpdaterEnded, HTTPEnded
<1>3. Stopping'
  BY DEF Inv, TypeOK, Stopping, Joining, WorkerDone, Serving
<1>4. Results'
  BY DEF Inv, TypeOK, Channels, Stopping, Results, UpdaterEnded, HTTPEnded, WorkerDone, Joining, Failures
<1> QED BY <1>1, <1>2, <1>3, <1>4 DEF Inv

LEMMA UpdaterStopsKeeps == Inv /\ UpdaterStops => Inv'
<1> SUFFICES ASSUME Inv, UpdaterStops PROVE Inv'
  OBVIOUS
<1> USE DEF UpdaterStops, UpdaterEnds
<1>1. TypeOK'
  BY DEF Inv, TypeOK
<1>2. Channels'
  BY DEF Inv, TypeOK, Channels, UpdaterEnded, HTTPEnded
<1>3. Stopping'
  BY DEF Inv, TypeOK, Stopping, Joining, WorkerDone, Serving
<1>4. Results'
  BY DEF Inv, TypeOK, Channels, Stopping, Results, UpdaterEnded, HTTPEnded, WorkerDone, Joining, Failures
<1> QED BY <1>1, <1>2, <1>3, <1>4 DEF Inv

LEMMA StartServingKeeps == Inv /\ StartServing => Inv'
<1> SUFFICES ASSUME Inv, StartServing PROVE Inv'
  OBVIOUS
<1> USE DEF StartServing, HTTPEnds
<1>1. TypeOK'
  BY DEF Inv, TypeOK
<1>2. Channels'
  BY DEF Inv, TypeOK, Channels, UpdaterEnded, HTTPEnded
<1>3. Stopping'
  BY DEF Inv, TypeOK, Stopping, Joining, WorkerDone, Serving
<1>4. Results'
  BY DEF Inv, TypeOK, Channels, Stopping, Results, UpdaterEnded, HTTPEnded, WorkerDone, Joining, Failures
<1> QED BY <1>1, <1>2, <1>3, <1>4 DEF Inv

LEMMA AcceptFailsKeeps == Inv /\ AcceptFails => Inv'
<1> SUFFICES ASSUME Inv, AcceptFails PROVE Inv'
  OBVIOUS
<1> USE DEF AcceptFails, HTTPEnds
<1>1. TypeOK'
  BY DEF Inv, TypeOK
<1>2. Channels'
  BY DEF Inv, TypeOK, Channels, UpdaterEnded, HTTPEnded
<1>3. Stopping'
  BY DEF Inv, TypeOK, Stopping, Joining, WorkerDone, Serving
<1>4. Results'
  BY DEF Inv, TypeOK, Channels, Stopping, Results, UpdaterEnded, HTTPEnded, WorkerDone, Joining, Failures
<1> QED BY <1>1, <1>2, <1>3, <1>4 DEF Inv

LEMMA RequestsKeep ==
  ASSUME Inv, NEW r \in Requests, Accept(r) \/ ServeHTTP(r)
  PROVE  Inv'
<1>1. PICK new \in {"serving", "200", "4xx", "503", "504"} :
        /\ request' = [request EXCEPT ![r] = new]
        /\ new = "serving" => http = "accepting"
  BY DEF Accept, ServeHTTP, SearchResults, Status
<1>2. UNCHANGED <<signaled, canceled, main, updater, updateDone, http, httpDone, closing>>
  BY DEF Accept, ServeHTTP
<1>3. TypeOK'
  BY <1>1, <1>2 DEF Inv, TypeOK
<1>4. Channels' /\ Results'
  BY <1>2 DEF Inv, Channels, Results, UpdaterEnded, HTTPEnded
<1>5. main.pc \in Joining /\ ~main.timedOut => Serving' = {}
  BY <1>1, <1>2 DEF Inv, TypeOK, Stopping, Serving
<1>6. Stopping'
  BY <1>2, <1>5 DEF Inv, Stopping, WorkerDone
<1> QED BY <1>3, <1>4, <1>6 DEF Inv

LEMMA InvNext == Inv /\ [Next]_vars => Inv'
<1> SUFFICES ASSUME Inv, [Next]_vars PROVE Inv'
  OBVIOUS
<1>1. CASE UNCHANGED vars
  BY <1>1 DEF vars, Inv, TypeOK, Channels, Stopping, Results, UpdaterEnded, HTTPEnded,
     WorkerDone, Serving
<1>2. CASE ServeStep
  BY <1>2, SelectSignalKeeps, SelectUpdaterKeeps, SelectHTTPKeeps, CancelWorkersKeeps,
     BeginShutdownKeeps, EndDrainKeeps, CloseServerKeeps, JoinUpdaterKeeps, JoinHTTPKeeps
     DEF ServeStep
<1>3. CASE Next /\ ~ServeStep
  BY <1>3, SignalKeeps, UpdaterLoadsKeeps, UpdaterFailsKeeps, UpdaterStopsKeeps,
     StartServingKeeps, AcceptFailsKeeps, RequestsKeep DEF Next
<1> QED BY <1>1, <1>2, <1>3

LEMMA Invariance == Spec => []Inv
BY InvInit, InvNext, PTL DEF Spec

\* Both workers are joined, and every request that Shutdown did not give up on
\* has been answered, when serve returns.
THEOREM ServeJoins == Spec => []Joined
<1>1. Inv => Joined
  BY DEF Inv, Channels, Stopping, Joining, Joined
<1> QED BY <1>1, Invariance, PTL

\* serve returns nil only when a signal has arrived.
THEOREM NoSilentStop == Spec => []StoppedOnRequest
<1>1. Inv => StoppedOnRequest
  BY DEF Inv, Results, Failures, StoppedOnRequest
<1> QED BY <1>1, Invariance, PTL

\* serve never returns nil when the updater could not be initialized.
THEOREM FailureReported == Spec => []UpdaterFailureReported
<1>1. Inv => UpdaterFailureReported
  BY DEF Inv, Results, Failures, UpdaterFailureReported
<1> QED BY <1>1, Invariance, PTL
==========================================================================
