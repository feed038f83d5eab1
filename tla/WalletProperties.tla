-------------------------- MODULE WalletProperties ---------------------------
(***************************************************************************)
(* What must hold of WalletService: safety, and what a step may never do.  *)
(***************************************************************************)
EXTENDS WalletService, FiniteSetsExt

Settled(r) == row[r] = "settled"

-----------------------------------------------------------------------------
(* Balances.                                                               *)

\* No interleaving of guarded updates takes a committed balance below zero or
\* beyond the integer column (wallet.service.ts: the where clauses of
\* _impactDeposit, payWithdrawInvoice, payUser and payRequest).
BalanceInRange == \A w \in Wallets : balance[w] \in Sats

SatsOf == [r \in Calls \ Events |->
             CASE r \in Transfers -> TransferSats(r)
               [] r \in Deposits -> Amount[r]
               [] r \in Withdrawals -> WithdrawTotal(r)]

Received(w) == {t \in Transfers : Payee(t) = w} \cup {d \in Deposits : WalletOf[d] = w}
Spent(w) == {t \in Transfers : Payer(t) = w} \cup {r \in Withdrawals : WalletOf[r] = w}
SumSettled(S) == SumFunctionOnSet(SatsOf, {r \in S : Settled(r)})

\* The balance of every wallet is what its Transaction rows say: no committed
\* update is lost, doubled or recorded without having happened.
BalanceExplained ==
    \A w \in Wallets :
        balance[w] = InitialBalance[w] + SumSettled(Received(w)) - SumSettled(Spent(w))

-----------------------------------------------------------------------------
(* Pay requests.                                                           *)

\* A pay request is marked paid exactly when one settlement moved the money,
\* however many calls of payRequest race for it (the claim on `paid: false`).
RequestPaidOnce ==
    \A p \in PayRequests :
        LET paying == {t \in Settlements : RequestOf[t] = p /\ Settled(t)}
        IN  /\ request[p] = "paid" <=> paying # {}
            /\ \A s, t \in paying : s = t

-----------------------------------------------------------------------------
(* Withdrawals.                                                            *)

\* The steps of payWithdrawInvoice between setWalletBusy and clearWalletBusy.
Working == {"decode", "begin", "debitTotal", "send", "paying", "commitPaid", "release"}

\* busyWallets of an instance names exactly the wallets one of its calls is
\* working on, and never two calls the same one: no early throw leaves a
\* wallet busy for ever, no call clears the flag of another.
BusyIsExact ==
    \A i \in Instances, w \in Wallets :
        LET working == {r \in Withdrawals :
                          InstanceOf[r] = i /\ WalletOf[r] = w /\ pc[r] \in Working}
        IN  /\ w \in busy[i] <=> working # {}
            /\ \A r, s \in working : r = s

\* A withdrawal that was charged is one whose invoice was paid, and no payment
\* to another node is charged twice, whatever timers, retries and restarts
\* come between lightning.pay and the commit.
ChargedWasPaid ==
    /\ \A r \in Withdrawals : Settled(r) =>
         \/ payment[Target[r]] = "paid"
         \/ Target[r] \in Deposits /\ invoice[Target[r]] = "settled"
    /\ \A r, s \in Withdrawals :
         Settled(r) /\ Settled(s) /\ Target[r] = Target[s] /\ Target[r] \in Foreign => r = s

PaidOut(r) == Launched(r) /\ payment[Target[r]] = "paid"

\* payWithdrawInvoice pays "with the user balance": when the call is over and
\* LND has paid its invoice, the wallet was charged.
PaidOutIsCharged ==
    \A r \in Withdrawals : PaidOut(r) /\ pc[r] \in Ended => Settled(r)

\* The same for the calls LND answers in time, whose transaction stays alive
\* and whose process does not die: an answer in time is enough.
AnsweredIsCharged ==
    \A r \in Withdrawals \ (Late \cup Expiring) :
        PaidOut(r) /\ pc[r] \in {"done", "failed"} => Settled(r)

-----------------------------------------------------------------------------
(* Deposits.                                                               *)

\* config.ts describes WALLET_LIMIT as the maximum a wallet may hold.
WithinWalletLimit == \A w \in Wallets : balance[w] <= EffectiveLimit

\* A deposit is only credited after its invoice was settled at LND, whether
\* by an outside payer or by a withdrawal of another wallet.
CreditedWasSettled == \A d \in Deposits : Settled(d) => invoice[d] = "settled"

-----------------------------------------------------------------------------
(* Steps.                                                                  *)

\* Once provisioning has disabled a wallet, its balance never goes down: the
\* debits that checked `disabled` before are finished or match no row.
DisabledIsNotDebited ==
    [][\A w \in disabled : balance'[w] >= balance[w]]_vars

\* The service implements the ledger: each commit is one of its operations.
Ledger == INSTANCE WalletLedger
LedgerSpec == Ledger!LedgerSpec

==============================================================================
