----------------------------- MODULE Server_proofs -----------------------------
(***************************************************************************)
(* The life of a server process, for every threshold and every number of   *)
(* requests: first of Lifecycle alone, then of Server, whose connection to *)
(* LND adds nothing that Lifecycle does not allow.                         *)
(***************************************************************************)
EXTENDS Server, TLAPS

(* Lifecycle.                                                              *)

\* What the start-up leaves to the monitor: a flag that is set unless the exit
\* handler has cleared it, and no failure counted.
BootSound ==
    /\ boot # "over" => listening = "none"
    /\ boot \in {"lightning", "reconcile"} => ready \/ shuttingDown
    /\ listening = "none" <=> monitor = "none"
    /\ monitor = "none" => failures = 0 /\ currentRun = "none"
    /\ listening \in {"none", "failed"} => requests = 0

\* What a handler that found a server relies on: the start-up is over, so nothing
\* but a latched monitor can touch the flag, and nobody accepts requests.
ExitSound ==
    /\ exit = "closing" => activeServer
    /\ activeServer =>
         /\ shuttingDown
         /\ boot = "over"
         /\ monitor = "stopped"
         /\ ~ready
         /\ listening \in {"failed", "closing", "closed"}
         /\ exit # "closing" => requests = 0

IInv ==
    /\ TypeOK
    /\ BootSound
    /\ ExitSound
    /\ ReadyTracksFailures

-----------------------------------------------------------------------------

LEMMA InitSound == Init => IInv
<1> SUFFICES ASSUME Init PROVE IInv
  OBVIOUS
<1>1. TypeOK
  <2>1. /\ failures \in 0..Threshold
        /\ requests \in Nat /\ abandoned \in Nat /\ requests + abandoned <= MaxRequests
    BY LifecycleAssumption DEF Init
  <2> QED
    BY <2>1, Zenon DEF Init, TypeOK
<1>2. BootSound /\ ExitSound /\ ReadyTracksFailures
  BY DEF Init, BootSound, ExitSound, ReadyTracksFailures, shuttingDown
<1> QED
  BY <1>1, <1>2 DEF IInv

\* Serve is the continuation of three steps of the start-up; r is the flag they
\* leave.
LEMMA ServeSound ==
    ASSUME IInv, boot # "over", Running,
           NEW r \in BOOLEAN, r \/ shuttingDown, Serve(r)
    PROVE  IInv'
<1> USE DEF IInv, Running, shuttingDown
<1>0. TypeOK' /\ boot' = "over" /\ ~activeServer /\ failures = 0 /\ requests = 0
  BY DEF Serve, ExitHandler, exitVars, handlers, TypeOK, BootSound, ExitSound
<1>1. BootSound'
  BY <1>0 DEF Serve, ExitHandler, exitVars, handlers, BootSound
<1>2. ExitSound'
  BY <1>0 DEF Serve, ExitHandler, exitVars, handlers, ExitSound, TypeOK
<1>3. ReadyTracksFailures'
  BY <1>0, LifecycleAssumption DEF Serve, ExitHandler, exitVars, handlers, ReadyTracksFailures
<1> QED
  BY <1>0, <1>1, <1>2, <1>3

LEMMA BootStepSound ==
    ASSUME IInv, Boot
    PROVE  IInv'
<1>1. CASE Connected
  <2>1. CASE Serve(TRUE)
    BY <1>1, <2>1, ServeSound DEF Connected
  <2>2. CASE boot' = "lightning"
    BY <1>1, <2>2
    DEF Connected, Serve, IInv, TypeOK, BootSound, ExitSound, ReadyTracksFailures,
        exitVars, handlers, monitorVars, shuttingDown
  <2> QED
    BY <1>1, <2>1, <2>2 DEF Connected
<1>2. CASE ConnectFails
  BY <1>2
  DEF ConnectFails, ExitHandler, IInv, TypeOK, BootSound, ExitSound,
      ReadyTracksFailures, exitVars, handlers, shuttingDown
<1>3. CASE LightningConnected
  BY <1>3
  DEF LightningConnected, IInv, TypeOK, BootSound, ExitSound, ReadyTracksFailures,
      exitVars, handlers, monitorVars, shuttingDown
<1>4. CASE LightningFails \/ ReconciliationEnds
  <2>1. ready \in BOOLEAN /\ (ready \/ shuttingDown) /\ boot # "over"
    BY <1>4 DEF LightningFails, ReconciliationEnds, IInv, TypeOK, BootSound
  <2> QED
    BY <1>4, <2>1, ServeSound DEF LightningFails, ReconciliationEnds
<1> QED
  BY <1>1, <1>2, <1>3, <1>4 DEF Boot, Connect

LEMMA ShutdownStepSound ==
    ASSUME IInv, Shutdown \/ SignalOrError
    PROVE  IInv'
<1> USE DEF IInv, TypeOK, BootSound, ExitSound, ReadyTracksFailures, exitVars, handlers,
            monitorVars, shuttingDown
<1>1. CASE ServerClosed
  BY <1>1 DEF ServerClosed, NoConnection
<1>2. CASE CloseFails
  BY <1>2 DEF CloseFails, AfterCloseError
<1>3. CASE Disconnected
  BY <1>3 DEF Disconnected
<1>4. CASE SignalOrError
  <2> PICK code \in {0, 1} : ExitHandler(code, listening, monitor)
    BY <1>4 DEF SignalOrError
  <2>1. /\ shuttingDown' /\ ~ready' /\ monitor' # "running" /\ requests' = requests
        /\ activeServer' = (listening # "none")
    BY <1>4 DEF SignalOrError, ExitHandler
  <2>2. TypeOK'
    BY <1>4 DEF SignalOrError, ExitHandler
  <2>3. BootSound' /\ ReadyTracksFailures'
    BY <1>4, <2>1 DEF SignalOrError, ExitHandler
  <2>4. ExitSound'
    BY <1>4, <2>1 DEF SignalOrError, ExitHandler
  <2> QED
    BY <2>2, <2>3, <2>4
<1> QED
  BY <1>1, <1>2, <1>3, <1>4 DEF Shutdown

LEMMA MonitorStepSound ==
    ASSUME IInv, RunNow \/ Probe
    PROVE  IInv'
<1> USE LifecycleAssumption
<1> USE DEF IInv, TypeOK, BootSound, ExitSound, ReadyTracksFailures, exitVars, handlers,
            shuttingDown
<1>1. CASE RunNow
  BY <1>1 DEF RunNow
<1>2. CASE ProbeSucceeds
  <2>1. TypeOK'
    <3>1. failures' \in 0..Threshold
      BY <1>2 DEF ProbeSucceeds, NoFailures
    <3>2. ready' \in BOOLEAN
      BY <1>2, Zenon DEF ProbeSucceeds, ReadyAgain
    <3> QED
      BY <1>2, <3>1, <3>2 DEF ProbeSucceeds, EndedRun
  <2>2. BootSound'
    BY <1>2 DEF ProbeSucceeds, EndedRun, NotStopped, NoFailures, ReadyAgain
  <2>3. ExitSound'
    BY <1>2 DEF ProbeSucceeds, NotStopped
  <2>4. ReadyTracksFailures'
    BY <1>2 DEF ProbeSucceeds, NotStopped, NoFailures, ReadyAgain
  <2> QED
    BY <2>1, <2>2, <2>3, <2>4
<1>3. CASE ProbeFails
  BY <1>3 DEF ProbeFails, EndedRun, NotStopped, Enough
<1> QED
  BY <1>1, <1>2, <1>3 DEF Probe

LEMMA EnvironmentStepSound ==
    ASSUME IInv,
           \/ RequestArrives \/ RequestAnswered \/ ClientAborts \/ AbandonedEnds
           \/ DatabaseChanges \/ Exited
    PROVE  IInv'
<1> USE LifecycleAssumption
<1> USE DEF IInv, TypeOK, BootSound, ExitSound, ReadyTracksFailures, exitVars, handlers,
            monitorVars, shuttingDown
<1>1. CASE RequestArrives
  BY <1>1 DEF RequestArrives
<1>2. CASE RequestAnswered
  BY <1>2 DEF RequestAnswered
<1>3. CASE DatabaseChanges
  BY <1>3 DEF DatabaseChanges
<1>4. CASE Exited
  BY <1>4 DEF Exited, vars
<1>5. CASE ClientAborts
  BY <1>5 DEF ClientAborts
<1>6. CASE AbandonedEnds
  BY <1>6 DEF AbandonedEnds
<1> QED
  BY <1>1, <1>2, <1>3, <1>4, <1>5, <1>6

\* The inductive invariant.
THEOREM LifecycleInvariant == Spec => []IInv
<1>1. IInv /\ [Next]_vars => IInv'
  <2> SUFFICES ASSUME IInv, [Next]_vars PROVE IInv'
    OBVIOUS
  <2>1. CASE UNCHANGED vars
    BY <2>1
    DEF vars, exitVars, handlers, monitorVars, IInv, TypeOK, BootSound, ExitSound,
        ReadyTracksFailures, shuttingDown
  <2> QED
    BY <2>1, BootStepSound, ShutdownStepSound, MonitorStepSound, EnvironmentStepSound
    DEF Next
<1> QED
  BY <1>1, InitSound, PTL DEF Spec

\* A serving process is ready unless its last Threshold probes failed.
THEOREM ReadinessTracksFailures == Spec => []ReadyTracksFailures
  BY LifecycleInvariant, PTL DEF IInv

\* A server that the exit handler withdrew is never reported ready again.
THEOREM WithdrawnStaysWithdrawn == Spec => []WithdrawnForGood
<1>1. IInv => WithdrawnForGood
  BY DEF IInv, ExitSound, WithdrawnForGood
<1> QED
  BY <1>1, LifecycleInvariant, PTL

\* A process that closes its server has answered every client that is still
\* connected when it leaves the database.
THEOREM ExitDrains == Spec => []Drained
<1>1. IInv => Drained
  BY DEF IInv, ExitSound, Drained
<1> QED
  BY <1>1, LifecycleInvariant, PTL

-----------------------------------------------------------------------------
(* Server.                                                                 *)

\* Every step is one of Lifecycle, or leaves its variables alone.
LEMMA StepIsLifecycles ==
    ASSUME [ServerNext]_serverVars
    PROVE  [Next]_vars
<1>1. CASE Starts \/ StartLightningConnected \/ StartLightningFails
  BY <1>1 DEF Starts, StartConnected, StartLightningConnected, StartLightningFails,
              Next, Boot, Connect
<1>2. CASE LndRefuses \/ HandlerAnswers
  BY <1>2 DEF LndRefuses, HandlerAnswers, HandlerEnds, Next
<1>3. CASE AskLnd \/ LndAnswers \/ CallLnd \/ CallAnswered \/ LndChanges
  BY <1>3 DEF AskLnd, LndAnswers, CallLnd, CallAnswered, LndChanges
<1>4. CASE Elsewhere
  BY <1>4 DEF Elsewhere, Next, Boot
<1>5. CASE UNCHANGED serverVars
  BY <1>5 DEF serverVars
<1> QED
  BY <1>1, <1>2, <1>3, <1>4, <1>5 DEF ServerNext

\* The server is a Lifecycle.
THEOREM ServerImplementsLifecycle == ServerSpec => Spec
<1>1. ServerInit => Init
  BY DEF ServerInit
<1>2. [ServerNext]_serverVars => [Next]_vars
  BY StepIsLifecycles
<1> QED
  BY <1>1, <1>2, PTL DEF ServerSpec, Spec

-----------------------------------------------------------------------------

\* The handlers that wait for LND are handlers at work; where those are known not to
\* become fewer, there is nothing to show.
LEMMA WaitingPreserved ==
    ASSUME ServerTypeOK, IInv, [ServerNext]_serverVars, TypeOK'
    PROVE  ServerTypeOK'
<1> DEFINE Waiting == asking + calling
           AtWork == requests + abandoned
           Flags == walletEnabled \in BOOLEAN /\ lndInfo \in BOOLEAN /\ lndUp \in BOOLEAN
<1>1. /\ asking \in Nat /\ calling \in Nat
      /\ requests \in Nat /\ abandoned \in Nat
      /\ requests' \in Nat /\ abandoned' \in Nat
  BY DEF ServerTypeOK, TypeOK
<1>2. Waiting \in Int /\ AtWork \in Int /\ AtWork' \in Int
  BY <1>1
<1>3. Waiting <= AtWork
  BY Zenon DEF ServerTypeOK
<1>4. Flags
  BY Zenon DEF ServerTypeOK
<1>5. ASSUME HandlerEnds
      PROVE  AtWork' = AtWork - 1
  <2>1. CASE RequestAnswered
    BY <1>1, <2>1 DEF RequestAnswered
  <2>2. CASE AbandonedEnds
    BY <1>1, <2>2 DEF AbandonedEnds
  <2> QED
    BY <1>5, <2>1, <2>2, Zenon DEF HandlerEnds
<1>6. asking' \in Nat /\ calling' \in Nat /\ Waiting' <= AtWork'
  <2>1. CASE AskLnd \/ CallLnd
    <3>1. asking' \in Nat /\ calling' \in Nat /\ Waiting' = Waiting + 1
      <4>1. CASE AskLnd
        BY <1>1, <4>1 DEF AskLnd
      <4>2. CASE CallLnd
        BY <1>1, <4>2 DEF CallLnd
      <4> QED
        BY <2>1, <4>1, <4>2, Zenon
    <3>2. AtWork' = AtWork /\ AtWork > Waiting
      BY <2>1, Zenon DEF AskLnd, CallLnd, Handled, vars, handlers
    <3> HIDE DEF Waiting, AtWork
    <3> QED
      BY <1>2, <3>1, <3>2
  <2>2. CASE LndAnswers \/ CallAnswered
    <3>1. asking' \in Nat /\ calling' \in Nat /\ Waiting' = Waiting - 1
      <4>1. CASE LndAnswers
        BY <1>1, <4>1 DEF LndAnswers
      <4>2. CASE CallAnswered
        BY <1>1, <4>2 DEF CallAnswered
      <4> QED
        BY <2>2, <4>1, <4>2, Zenon
    <3>2. AtWork' = AtWork
      BY <2>2, Zenon DEF LndAnswers, CallAnswered, vars, handlers
    <3> HIDE DEF Waiting, AtWork
    <3> QED
      BY <1>2, <1>3, <3>1, <3>2
  <2>3. CASE LndRefuses
    <3>1. asking' \in Nat /\ calling' \in Nat /\ Waiting' = Waiting - 1
      BY <1>1, <2>3 DEF LndRefuses
    <3>2. AtWork' = AtWork - 1
      BY <1>5, <2>3, Zenon DEF LndRefuses
    <3> HIDE DEF Waiting, AtWork
    <3> QED
      BY <1>2, <1>3, <3>1, <3>2
  <2>4. CASE HandlerAnswers
    <3>1. asking' \in Nat /\ calling' \in Nat /\ Waiting' = Waiting /\ AtWork > Waiting
      BY <1>1, <2>4 DEF HandlerAnswers, Handled, lndVars
    <3>2. AtWork' = AtWork - 1
      BY <1>5, <2>4, Zenon DEF HandlerAnswers
    <3> HIDE DEF Waiting, AtWork
    <3> QED
      BY <1>2, <3>1, <3>2
  <2>5. CASE Elsewhere /\ (RequestArrives \/ ClientAborts)
    <3>1. asking' \in Nat /\ calling' \in Nat /\ Waiting' = Waiting
      BY <1>1, <2>5 DEF Elsewhere, lndVars
    <3>2. CASE RequestArrives
      <4>1. AtWork' = AtWork + 1
        BY <1>1, <3>2 DEF RequestArrives
      <4> HIDE DEF Waiting, AtWork
      <4> QED
        BY <1>2, <1>3, <3>1, <4>1
    <3>3. CASE ClientAborts
      <4>1. AtWork' = AtWork
        BY <1>1, <3>3 DEF ClientAborts
      <4> HIDE DEF Waiting, AtWork
      <4> QED
        BY <1>2, <1>3, <3>1, <4>1
    <3> QED
      BY <2>5, <3>2, <3>3, Zenon
  <2>6. ASSUME \/ Starts \/ StartLightningConnected \/ StartLightningFails
               \/ LndChanges \/ UNCHANGED serverVars
               \/ Elsewhere /\ ~(RequestArrives \/ ClientAborts)
        PROVE  asking' \in Nat /\ calling' \in Nat /\ Waiting' <= AtWork'
    <3>1. asking' = asking /\ calling' = calling
      BY <2>6
      DEF Starts, StartConnected, StartLightningConnected, StartLightningFails,
          LndChanges, Elsewhere, lndVars, serverVars
    <3>2. requests' = requests /\ abandoned' = abandoned
      BY <2>6
      DEF Starts, StartConnected, StartLightningConnected, StartLightningFails,
          Connected, ConnectFails, LightningConnected, LightningFails, Serve, LndChanges,
          Elsewhere, ReconciliationEnds, Shutdown, ServerClosed, CloseFails,
          Disconnected, SignalOrError, RunNow, Probe, ProbeSucceeds, ProbeFails,
          DatabaseChanges, Exited, serverVars, vars, handlers
    <3> QED
      BY <1>1, <1>3, <3>1, <3>2
  <2> QED
    BY <2>1, <2>2, <2>3, <2>4, <2>5, <2>6, Zenon DEF ServerNext
<1>7. Flags'
  BY <1>4, Zenon
  DEF ServerNext, Starts, StartConnected, StartLightningConnected, StartLightningFails,
      AskLnd, LndAnswers, LndRefuses, CallLnd, CallAnswered, HandlerAnswers, LndChanges,
      Elsewhere, NewInfo, lndVars, serverVars
<1> QED
  BY <1>6, <1>7, Zenon DEF ServerTypeOK

\* Type correctness, with as many handlers waiting as there are at most.
THEOREM ServerTypeCorrect == ServerSpec => []ServerTypeOK
<1>1. ServerInit => ServerTypeOK
  <2> SUFFICES ASSUME ServerInit PROVE ServerTypeOK
    OBVIOUS
  <2>1. TypeOK
    BY InitSound DEF ServerInit, IInv
  <2>2. requests = 0 /\ abandoned = 0 /\ asking = 0 /\ calling = 0
    BY DEF ServerInit, Init
  <2>3. asking \in Nat /\ calling \in Nat /\ asking + calling <= requests + abandoned
    BY <2>2
  <2> QED
    BY <2>1, <2>3, Zenon DEF ServerInit, ServerTypeOK
<1>2. ServerSpec => []IInv
  BY ServerImplementsLifecycle, LifecycleInvariant, PTL
<1>3. IInv' => TypeOK'
  BY DEF IInv
<1>4. ServerTypeOK /\ IInv /\ IInv' /\ [ServerNext]_serverVars => ServerTypeOK'
  BY <1>3, WaitingPreserved
<1> QED
  BY <1>1, <1>2, <1>4, PTL DEF ServerSpec

\* So LND holds up the exit of a process only for clients that wait: of the handlers
\* that wait for LND when the process leaves the database, and that it cuts, each
\* one's client had dropped the connection.
THEOREM ServerDrains ==
    ServerSpec => []( /\ Drained
                      /\ exit \in {"disconnecting", "exited"} /\ activeServer
                            => asking + calling <= abandoned )
<1>1. ServerTypeOK /\ Drained =>
        (exit \in {"disconnecting", "exited"} /\ activeServer => asking + calling <= abandoned)
  BY DEF ServerTypeOK, Drained, TypeOK
<1> QED
  BY <1>1, ServerTypeCorrect, ServerImplementsLifecycle, ExitDrains, PTL
===============================================================================
