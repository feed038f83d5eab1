-------------------------------- MODULE Server --------------------------------
(***************************************************************************)
(* The process of Lifecycle with its connection to LND: the answer that    *)
(* initLightning keeps (lightning.service.ts), the requests the middleware *)
(* holds until it has one (middlewares/lnd.ts), and the LND calls of the   *)
(* handlers that nothing limits in time.                                   *)
(***************************************************************************)
EXTENDS Lifecycle

VARIABLES
    walletEnabled,  \* config.wallet.enabled
    lndInfo,        \* initLightning keeps an answer of LND
    asking,         \* handlers that lndConnected holds: one query of LND each
    calling,        \* handlers that wait for decodeInvoice or checkInvoice
    lndUp           \* an answer of LND that arrives now is no error

lndVars == <<walletEnabled, lndInfo, asking, calling, lndUp>>
serverVars == <<vars, lndVars>>

ServerTypeOK ==
    /\ TypeOK
    /\ walletEnabled \in BOOLEAN
    /\ lndInfo \in BOOLEAN
    /\ asking \in Nat
    /\ calling \in Nat
    /\ asking + calling <= requests + abandoned
    /\ lndUp \in BOOLEAN

ServerInit ==
    /\ Init
    /\ walletEnabled \in BOOLEAN
    /\ lndInfo = FALSE
    /\ asking = 0
    /\ calling = 0
    /\ lndUp \in BOOLEAN

-----------------------------------------------------------------------------
(* The start-up.                                                           *)

\* Without the wallet nothing asks LND, and its routes do not exist.
StartConnected ==
    /\ Connected
    /\ walletEnabled <=> boot' = "lightning"
    /\ UNCHANGED lndVars

StartLightningConnected ==
    /\ LightningConnected
    /\ lndUp
    /\ lndInfo' = TRUE
    /\ UNCHANGED <<walletEnabled, asking, calling, lndUp>>

StartLightningFails ==
    /\ LightningFails
    /\ ~lndUp
    /\ UNCHANGED lndVars

-----------------------------------------------------------------------------
(* Requests.                                                               *)

\* A handler is at work that does not wait for LND.  Which of them are abandoned is
\* not told apart.
Handled == requests + abandoned > asking + calling

\* A handler is through, and its client answered if it is still there.
HandlerEnds == RequestAnswered \/ AbandonedEnds

\* lndConnected: `connected` is a copy made when the module was loaded and stays
\* FALSE, so the kept answer decides, and requests do not share a query.
AskLnd ==
    /\ Running
    /\ walletEnabled
    /\ Handled
    /\ ~lndInfo
    /\ asking' = asking + 1
    /\ UNCHANGED <<vars, walletEnabled, lndInfo, calling, lndUp>>

\* What a successful query leaves; nothing, if only the start-up kept it.
OldInfo == lndInfo
NewInfo == TRUE

LndAnswers ==
    /\ Running
    /\ asking > 0
    /\ lndUp
    /\ lndInfo' = NewInfo
    /\ asking' = asking - 1
    /\ UNCHANGED <<vars, walletEnabled, calling, lndUp>>

\* 503, also when another query has been answered meanwhile.
LndRefuses ==
    /\ asking > 0
    /\ ~lndUp
    /\ HandlerEnds
    /\ asking' = asking - 1
    /\ UNCHANGED <<walletEnabled, lndInfo, calling, lndUp>>

\* A withdrawal that was let through waits for LND, and gets a result or an error.
CallLnd ==
    /\ Running
    /\ walletEnabled
    /\ Handled
    /\ lndInfo
    /\ calling' = calling + 1
    /\ UNCHANGED <<vars, walletEnabled, lndInfo, asking, lndUp>>

CallAnswered ==
    /\ Running
    /\ calling > 0
    /\ calling' = calling - 1
    /\ UNCHANGED <<vars, walletEnabled, lndInfo, asking, lndUp>>

HandlerAnswers ==
    /\ Handled
    /\ HandlerEnds
    /\ UNCHANGED lndVars

LndChanges ==
    /\ Running
    /\ lndUp' = ~lndUp
    /\ UNCHANGED <<vars, walletEnabled, lndInfo, asking, calling>>

-----------------------------------------------------------------------------
Starts == StartConnected \/ (ConnectFails /\ UNCHANGED lndVars)

Elsewhere ==
    /\ \/ ReconciliationEnds \/ Shutdown \/ SignalOrError \/ RunNow \/ Probe
       \/ RequestArrives \/ ClientAborts \/ DatabaseChanges \/ Exited
    /\ UNCHANGED lndVars

ServerNext ==
    \/ Starts \/ StartLightningConnected \/ StartLightningFails
    \/ AskLnd \/ LndAnswers \/ LndRefuses \/ CallLnd \/ CallAnswered
    \/ HandlerAnswers \/ LndChanges
    \/ Elsewhere

ServerSpec == ServerInit /\ [][ServerNext]_serverVars

\* The event loop runs the interval and the time-out of a probe; close and
\* $disconnect call back.  A handler ends, and its connection is closed, once it
\* does not wait for LND: it makes a bounded number of calls, hence SF.  Nothing
\* makes LND answer, so initializeApp and handlers may wait for it for ever, and
\* nothing makes a client drop its connection.
ServerFairSpec ==
    /\ ServerSpec
    /\ WF_serverVars(Starts)
    /\ WF_serverVars(Shutdown /\ UNCHANGED lndVars)
    /\ WF_serverVars(RunNow /\ UNCHANGED lndVars)
    /\ WF_serverVars(Probe /\ UNCHANGED lndVars)
    /\ SF_serverVars(HandlerAnswers)

-----------------------------------------------------------------------------
(* Properties.                                                             *)

\* LND leaves no request without an answer for ever.
LndResponds == []<>(asking + calling = 0)

\* A process that was told to exit does, whatever it was doing, as long as LND
\* answers the handlers that wait for it: server.close waits for their clients, and
\* neither initLightning nor decodeInvoice gives up.  During the start-up, and to a
\* handler whose client has gone, it need not answer.
Exits == LndResponds => (shuttingDown ~> exit = "exited")

\* A server that could not reach LND when it started needs no restart: once LND
\* is up for good and answers, no request is held up by lndConnected any more.
AskingEnds == LndResponds /\ <>[]lndUp => <>[](asking = 0)
===============================================================================
