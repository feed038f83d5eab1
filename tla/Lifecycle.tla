------------------------------- MODULE Lifecycle ------------------------------
(***************************************************************************)
(* One server process from start to exit: initializeApp (server.ts), the   *)
(* continuation and the exit handler of index.ts, the readiness monitor    *)
(* (readinessMonitor.ts) and the flag behind /health/ready (health.ts).    *)
(* Signals and unexpected errors come at any await of these.               *)
(***************************************************************************)
EXTENDS Integers

CONSTANTS
    Threshold,      \* failureThreshold of the readiness monitor
    MaxRequests     \* bound on the handlers at work at once

ASSUME LifecycleAssumption ==
    /\ Threshold \in Nat \ {0}
    /\ MaxRequests \in Nat \ {0}

VARIABLES
    boot,           \* where initializeApp waits: "connect", "lightning",
                    \* "reconcile"; "over" once its promise is settled
    listening,      \* server: "none", "open", "failed", "closing", "closed"
    exit,           \* where exitHandler waits: "none" (not called), "closing",
                    \* "disconnecting"; "exited" after process.exit
    activeServer,   \* exitHandler found a server to close
    exitCode,
    ready,          \* the flag of health.ts
    monitor,        \* "none", "running" or "stopped"
    currentRun,     \* of the monitor: "none" or "waiting" for the probe
    failures,       \* consecutiveFailures, counted up to Threshold
    dbUp,           \* PostgreSQL answers, and within the time-out of a probe
    requests,       \* handlers at work whose client waits for the answer
    abandoned       \* handlers at work whose client has dropped the connection

exitVars == <<exit, activeServer, exitCode>>
monitorVars == <<monitor, currentRun, failures>>
handlers == <<requests, abandoned>>
vars == <<boot, listening, exitVars, ready, monitorVars, dbUp, handlers>>

Running == exit # "exited"
shuttingDown == exit # "none"

TypeOK ==
    /\ boot \in {"connect", "lightning", "reconcile", "over"}
    /\ listening \in {"none", "open", "failed", "closing", "closed"}
    /\ exit \in {"none", "closing", "disconnecting", "exited"}
    /\ activeServer \in BOOLEAN
    /\ exitCode \in {0, 1}
    /\ ready \in BOOLEAN
    /\ monitor \in {"none", "running", "stopped"}
    /\ currentRun \in {"none", "waiting"}
    /\ failures \in 0..Threshold
    /\ dbUp \in BOOLEAN
    /\ requests \in Nat
    /\ abandoned \in Nat
    /\ requests + abandoned <= MaxRequests

\* initializeApp has called setReady(false) and waits for prisma.$connect.
Init ==
    /\ boot = "connect"
    /\ listening = "none"
    /\ exit = "none"
    /\ activeServer = FALSE
    /\ exitCode = 0
    /\ ready = FALSE
    /\ monitor = "none"
    /\ currentRun = "none"
    /\ failures = 0
    /\ dbUp \in BOOLEAN
    /\ requests = 0
    /\ abandoned = 0

-----------------------------------------------------------------------------
(* exitHandler.                                                            *)

\* Its part before the first await, in a process whose server and monitor are
\* in states s and m.  A second call returns at once and changes no exit code.
ExitHandler(code, s, m) ==
    IF shuttingDown
      THEN /\ listening' = s
           /\ monitor' = m
           /\ UNCHANGED exitVars
      ELSE /\ monitor' = IF m = "running" THEN "stopped" ELSE m
           /\ ready' = FALSE
           /\ exitCode' = code
           /\ activeServer' = (s # "none")
           /\ exit' = IF s = "none" THEN "disconnecting" ELSE "closing"
           /\ listening' = IF s = "open" THEN "closing" ELSE s

\* SIGTERM, SIGINT; an uncaught exception or an unhandled rejection.
SignalOrError ==
    /\ Running
    /\ ~shuttingDown
    /\ \E code \in {0, 1} : ExitHandler(code, listening, monitor)
    /\ UNCHANGED <<boot, currentRun, failures, dbUp, handlers>>

\* What server.close waits for: connections, not the handlers of those that are
\* gone.  (The slip: the exit does not wait for it.)
NoWait == TRUE
NoConnection == requests = 0

ServerClosed ==
    /\ exit = "closing"
    /\ listening = "closing"
    /\ NoConnection
    /\ listening' = "closed"
    /\ exit' = "disconnecting"
    /\ UNCHANGED <<boot, activeServer, exitCode, ready, monitorVars, dbUp, handlers>>

\* close calls back with an error for a server that never listened: where the
\* handler goes on, and where it stays if the error is swallowed.
StillClosing == "closing"
AfterCloseError == "disconnecting"

CloseFails ==
    /\ exit = "closing"
    /\ listening = "failed"
    /\ exitCode' = 1
    /\ exit' = AfterCloseError
    /\ UNCHANGED <<boot, listening, activeServer, ready, monitorVars, dbUp, handlers>>

\* prisma.$disconnect resolves or rejects, then process.exit.
Disconnected ==
    /\ exit = "disconnecting"
    /\ exit' = "exited"
    /\ exitCode' \in {exitCode, 1}
    /\ UNCHANGED <<boot, listening, activeServer, ready, monitorVars, dbUp, handlers>>

-----------------------------------------------------------------------------
(* initializeApp and the continuation of index.ts.                         *)

\* initializeApp resolves when the flag is r: the monitor starts and the server
\* listens, or its error event calls exitHandler before anything else runs.
\* Neither looks at shuttingDown.
Serve(r) ==
    /\ boot' = "over"
    /\ \/ /\ listening' = "open"
          /\ monitor' = "running"
          /\ ready' = r
          /\ UNCHANGED exitVars
       \/ /\ ExitHandler(1, "failed", "running")
          /\ shuttingDown => ready' = r
    /\ UNCHANGED <<currentRun, failures, dbUp, handlers>>

\* $connect resolves; with the wallet disabled nothing else is awaited.
Connected ==
    /\ Running
    /\ boot = "connect"
    /\ dbUp
    /\ \/ /\ boot' = "lightning"
          /\ ready' = TRUE
          /\ UNCHANGED <<listening, exitVars, monitorVars, dbUp, handlers>>
       \/ Serve(TRUE)

\* $connect rejects: initializeApp rejects.
ConnectFails ==
    /\ Running
    /\ boot = "connect"
    /\ ~dbUp
    /\ boot' = "over"
    /\ ExitHandler(1, listening, monitor)
    /\ shuttingDown => UNCHANGED ready
    /\ UNCHANGED <<currentRun, failures, dbUp, handlers>>

LightningConnected ==
    /\ Running
    /\ boot = "lightning"
    /\ boot' = "reconcile"
    /\ UNCHANGED <<listening, exitVars, ready, monitorVars, dbUp, handlers>>

\* An error of LND or of the reconciliation is logged, and the server starts.
LightningFails == Running /\ boot = "lightning" /\ Serve(ready)
ReconciliationEnds == Running /\ boot = "reconcile" /\ Serve(ready)

-----------------------------------------------------------------------------
(* The readiness monitor.                                                  *)

\* The interval's callback; runNow returns the run that has not ended.
RunNow ==
    /\ Running
    /\ monitor = "running"
    /\ currentRun = "none"
    /\ currentRun' = "waiting"
    /\ UNCHANGED <<boot, listening, exitVars, ready, monitor, failures, dbUp, handlers>>

\* currentRun when a run has ended, and a promise that `finally` did not clear.
KeptRun == "over"
EndedRun == "none"

\* Whether a run may act on its result, and without the latch.
AlwaysActs == TRUE
NotStopped == monitor # "stopped"

\* consecutiveFailures after a success, and without the reset.
KeptFailures == failures
NoFailures == 0

\* The flag after a success; a monitor that only withdraws would leave it.
ReadyAsBefore == ready
ReadyAgain == TRUE

ProbeSucceeds ==
    /\ Running
    /\ currentRun = "waiting"
    /\ dbUp
    /\ currentRun' = EndedRun
    /\ IF NotStopped
         THEN failures' = NoFailures /\ ready' = ReadyAgain
         ELSE UNCHANGED <<failures, ready>>
    /\ UNCHANGED <<boot, listening, exitVars, monitor, dbUp, handlers>>

\* The run counts failure number n; whether that is enough, and one too late.
OneTooLate(n) == n > Threshold
Enough(n) == n >= Threshold

\* The probe rejects or the time-out wins the race.
ProbeFails ==
    /\ Running
    /\ currentRun = "waiting"
    /\ ~dbUp
    /\ currentRun' = EndedRun
    /\ IF NotStopped
         THEN /\ failures' = IF failures < Threshold THEN failures + 1 ELSE failures
              /\ ready' = (ready /\ ~Enough(failures'))
         ELSE UNCHANGED <<failures, ready>>
    /\ UNCHANGED <<boot, listening, exitVars, monitor, dbUp, handlers>>

-----------------------------------------------------------------------------
(* Clients and PostgreSQL.                                                 *)

RequestArrives ==
    /\ Running
    /\ listening = "open"
    /\ requests + abandoned < MaxRequests
    /\ requests' = requests + 1
    /\ UNCHANGED <<boot, listening, exitVars, ready, monitorVars, dbUp, abandoned>>

RequestAnswered ==
    /\ Running
    /\ requests > 0
    /\ requests' = requests - 1
    /\ UNCHANGED <<boot, listening, exitVars, ready, monitorVars, dbUp, abandoned>>

\* The client or a proxy drops the connection.  Nothing in the server listens for
\* that: the handler goes on, and its answer goes nowhere.
ClientAborts ==
    /\ Running
    /\ requests > 0
    /\ requests' = requests - 1
    /\ abandoned' = abandoned + 1
    /\ UNCHANGED <<boot, listening, exitVars, ready, monitorVars, dbUp>>

AbandonedEnds ==
    /\ Running
    /\ abandoned > 0
    /\ abandoned' = abandoned - 1
    /\ UNCHANGED <<boot, listening, exitVars, ready, monitorVars, dbUp, requests>>

DatabaseChanges ==
    /\ Running
    /\ dbUp' = ~dbUp
    /\ UNCHANGED <<boot, listening, exitVars, ready, monitorVars, handlers>>

Exited == ~Running /\ UNCHANGED vars

Connect == Connected \/ ConnectFails
Boot == Connect \/ LightningConnected \/ LightningFails \/ ReconciliationEnds
Shutdown == ServerClosed \/ CloseFails \/ Disconnected
Probe == ProbeSucceeds \/ ProbeFails

Next ==
    \/ Boot \/ Shutdown \/ SignalOrError
    \/ RunNow \/ Probe
    \/ RequestArrives \/ RequestAnswered \/ ClientAborts \/ AbandonedEnds
    \/ DatabaseChanges
    \/ Exited

Spec == Init /\ [][Next]_vars

-----------------------------------------------------------------------------
(* Properties.                                                             *)

\* A serving process reports itself ready unless its last Threshold probes in a
\* row failed: isolated failures do not withdraw it, one success returns it.
ReadyTracksFailures ==
    monitor = "running" /\ ~shuttingDown => (ready <=> failures < Threshold)

\* Once the exit handler has withdrawn a server it stays withdrawn: neither a
\* probe still waiting nor the end of the start-up reports it ready again.
WithdrawnForGood == shuttingDown /\ activeServer => ~ready

\* A process that closes its server answers every client that is still connected
\* before it leaves the database.  Only a handler whose client has gone (of a
\* withdrawal, say) may still be at work then, and is cut by the exit.
Drained == exit \in {"disconnecting", "exited"} /\ activeServer => requests = 0

\* When PostgreSQL comes back for good, a serving process becomes ready again.
Recovers == <>[]dbUp => <>[](monitor = "running" => ready \/ shuttingDown)

\* When PostgreSQL stays away, a process that listens is reported not ready.
OutageSeen == <>[]~dbUp => <>[](listening = "open" => ~ready \/ shuttingDown)
=============================================================================
