---------------------------- MODULE ConnectionPool ----------------------------
(***************************************************************************)
(* WalletService with the connections of its processes, and what must      *)
(* happen.  A transaction keeps a connection until it ends; getUserWallet, *)
(* which payUser, payRequest and createDepositInvoice call inside their    *)
(* transaction, reads through the global client and needs another one.     *)
(***************************************************************************)
EXTENDS WalletProperties

CONSTANT PoolSize       \* connection_limit

ASSUME PoolAssumption == PoolSize \in Nat \ {0}

\* The connections of instance i that a transaction keeps; those of a process
\* that died are not in the pool of its successor.
InUse(i) == {c \in open : InstanceOf[c] = i /\ pc[c] # "killed"}
Exhausted(i) == Cardinality(InUse(i)) >= PoolSize

\* Calls about to read through the global client.
Reads == {c \in Calls : pc[c] \in {"payer", "payee", "limit"}}
           \cup {r \in Withdrawals : At(r, "start")}

\* A step that begins a transaction of c, or in which c gets what it reads.
UsesConnection(c) ==
    \/ c \in open' \ open
    \/ c \in Reads /\ pc'[c] \notin {pc[c], "killed"}

Granted == \A c \in Calls : UsesConnection(c) => ~Exhausted(InstanceOf[c])

\* Calls that are to begin a transaction.  (A withdrawal's is WithdrawRefused.)
Delivered(e) ==
    DepositOf[e] \in subscribed /\ row[DepositOf[e]] # "none" /\ Confirmed(DepositOf[e])
Begins == {c \in Calls \ Withdrawals : At(c, "start") /\ (c \in Events => Delivered(c))}

\* A call that found no connection in time (pool_timeout, maxWait), and one that
\* would wait for ever.
NeverGivesUp(c) == FALSE
GivesUp(c) == Exhausted(InstanceOf[c])

PoolTimeout(c) ==
    /\ c \in Reads \cup Begins
    /\ GivesUp(c)
    /\ Fail(c, "failed")
    /\ UNCHANGED <<walletVars, snap, busy, lndVars, restarts>>

PooledNext == (Next /\ Granted) \/ \E c \in Calls : PoolTimeout(c)
PooledSpec == Init /\ [][PooledNext]_vars

-----------------------------------------------------------------------------
(* Fairness: the event loop runs every callback that is ready, a call that *)
(* waits for a connection gets one or gives up, PostgreSQL answers, breaks *)
(* deadlocks and drops the transactions of dead clients, LND ends every    *)
(* payment and delivers the updates of a live subscription.  Nothing       *)
(* obliges a user to call, a payer to pay, a process to die or a           *)
(* transaction to expire.                                                  *)

Continue(c) ==
    \/ c \in Payments /\ Transfer(c)
    \/ c \in Settlements /\ (PayRequest(c) \/ Transfer(c))
    \/ c \in Deposits /\ Deposit(c)
    \/ c \in Events /\ ImpactDeposit(c)
    \/ c \in Withdrawals /\ Withdraw(c)
    \/ OperationOnLostTransaction(c)

Started(c) == pc[c] # "start" \/ (c \in Events /\ Delivered(c))
Proceed(c) == Started(c) /\ ((Continue(c) /\ Granted) \/ PoolTimeout(c))

Reap(c) == (At(c, "killed") \/ Deadlocked(c)) /\ LoseTransaction(c)

FairSpec ==
    /\ PooledSpec
    /\ \A c \in Calls : WF_vars(Proceed(c)) /\ WF_vars(Reap(c))
    /\ \A i \in Invoices : WF_vars(PaymentSucceeds(i) \/ PaymentFails(i))

\* Every call ends: no lock order, lost transaction or timer leaves one
\* suspended for ever, nor do calls that keep all the connections and each wait
\* for one more.
CallsEnd == \A c \in Calls : pc[c] # "start" ~> pc[c] \in Ended

\* A busy wallet becomes free again.
WalletFreed ==
    \A i \in Instances, w \in Wallets : w \in busy[i] ~> w \notin busy[i]

\* A settled deposit is credited if the process that subscribed to it lives on
\* and _impactDeposit finds a connection: it is never tried a second time.
\* (Stated for instances where no wallet gets near the integer limit and no
\* transaction expires.)
DepositCredited ==
    \A d \in Deposits :
        row[d] = "pending" /\ invoice[d] = "settled"
          ~> \/ Settled(d)
             \/ d \notin subscribed
             \/ \E e \in Events : DepositOf[e] = d /\ pc[e] \in {"killed", "failed"}
==============================================================================
