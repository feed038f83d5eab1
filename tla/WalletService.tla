---------------------------- MODULE WalletService ----------------------------
(***************************************************************************)
(* wallet.service.ts with lock.service.ts, run by one or more instances of *)
(* the server over one PostgreSQL database and one LND node.               *)
(*                                                                         *)
(* Every call of a handler is a client of the database; pc[r] is the await *)
(* the call is suspended at, so the steps of different calls interleave    *)
(* exactly at the awaits of the code.  Users and wallets are one to one    *)
(* and are both named by the wallet.  What a transaction writes becomes    *)
(* visible in its commit step (see Database).                              *)
(***************************************************************************)
EXTENDS Amounts

CONSTANTS
    Wallets,
    Instances,          \* server processes; busyWallets is a Set in each
    Payments,           \* calls of payUser
    Settlements,        \* calls of payRequest
    Deposits,           \* calls of createDepositInvoice; also their invoices
    Events,             \* invoice_updated events, each one _impactDeposit
    Withdrawals,        \* calls of payWithdrawInvoice
    PayRequests,        \* rows of PayRequest
    Foreign,            \* invoices issued by other nodes
    NoClient,
    InstanceOf,         \* [Calls -> Instances]
    Amount,             \* sats asked for; 0 for a zero-value invoice
    PayerOf,            \* [Transfers -> Wallets]: the authenticated user
    PayeeOf,            \* [Payments -> Wallets]
    RequestOf,          \* [Settlements -> PayRequests]
    Creator, Receiver,  \* [PayRequests -> Wallets]
    WalletOf,           \* [Deposits \cup Withdrawals -> Wallets]
    DepositOf,          \* [Events -> Deposits]
    Target,             \* [Withdrawals -> Foreign \cup Deposits]
    Batches,            \* the lists handed to createPayRequests
    InitialBalance,     \* [Wallets -> Sats]
    Disablable,         \* wallets provisioning may disable
    Expiring,           \* calls whose transaction may expire or lose its
                        \* connection
    Late,               \* withdrawals for which LND may not answer in time
    MaxRestarts         \* bound on process restarts

Transfers == Payments \cup Settlements
\* The calls that open a transaction.
Calls == Transfers \cup Deposits \cup Events \cup Withdrawals
Invoices == Foreign \cup Deposits
Rows == Wallets \cup Deposits \cup PayRequests

ASSUME WalletServiceAssumption ==
    /\ NoClient \notin Calls
    /\ Payments \cap Settlements = {}
    /\ Deposits \cap (Transfers \cup Events \cup Withdrawals) = {}
    /\ Events \cap (Transfers \cup Withdrawals) = {}
    /\ Withdrawals \cap Transfers = {}
    /\ Foreign \cap Deposits = {}
    /\ Wallets \cap (Deposits \cup PayRequests) = {}
    /\ Deposits \cap PayRequests = {}
    /\ InstanceOf \in [Calls -> Instances]
    /\ Amount \in [Payments \cup Deposits \cup Withdrawals \cup PayRequests -> Int]
    /\ \A r \in Withdrawals : Amount[r] \in Nat
    /\ \A p \in PayRequests : PositiveSats(Amount[p])
    /\ PayerOf \in [Transfers -> Wallets]
    /\ PayeeOf \in [Payments -> Wallets]
    /\ RequestOf \in [Settlements -> PayRequests]
    /\ Creator \in [PayRequests -> Wallets]
    /\ Receiver \in [PayRequests -> Wallets]
    /\ \A p \in PayRequests : Creator[p] # Receiver[p]
    /\ WalletOf \in [Deposits \cup Withdrawals -> Wallets]
    /\ DepositOf \in [Events -> Deposits]
    /\ \A e \in Events : InstanceOf[e] = InstanceOf[DepositOf[e]]
    /\ Target \in [Withdrawals -> Invoices]
    /\ \A r \in Withdrawals : Target[r] \in Deposits => Amount[r] = Amount[Target[r]]
    /\ Batches \subseteq SUBSET PayRequests
    /\ InitialBalance \in [Wallets -> Sats]
    /\ MaxRestarts \in Nat

\* Who is debited, who is credited and how much, for both kinds of transfer.
Payer(t) == PayerOf[t]
Payee(t) == IF t \in Settlements THEN Creator[RequestOf[t]] ELSE PayeeOf[t]
TransferSats(t) == IF t \in Settlements THEN Amount[RequestOf[t]] ELSE Amount[t]

VARIABLES
    balance,    \* Wallet.balanceInSats, as committed
    disabled,   \* the wallets with Wallet.disabled
    row,        \* the Transaction row(s) a call wrote: "none", "pending"
                \* (neither flag set) or "settled" (walletImpacted and
                \* invoiceSettled); a transfer's SEND and RECEIVE together
    request,    \* PayRequest rows: "absent", "unpaid" or "paid"
    holder, open,   \* see Database
    pc,         \* where each call is suspended
    snap,       \* `wallet.balanceInSats` as getUserWallet returned it
    busy,       \* busyWallets of each instance
    invoice,    \* our invoices at LND: "none", "open" or "settled"
    subscribed, \* deposits whose invoice subscription is alive
    payment,    \* payments at LND, by invoice: "none", "inflight", "paid"
    paidBy,     \* the call that launched that payment
    restarts

walletVars == <<balance, disabled, row, request>>
lndVars == <<invoice, subscribed, payment, paidBy>>
callVars == <<pc, snap, busy>>
vars == <<walletVars, holder, open, callVars, lndVars, restarts>>

DB == INSTANCE Database WITH Clients <- Calls

\* Suspended calls: named by what they wait for.
TransferPCs == {"find", "payer", "payee", "claim", "debit", "credit", "commit"}
DepositPCs == {"limit", "invoice", "record"}
EventPCs == {"claimDeposit", "creditDeposit", "commitDeposit"}
WithdrawPCs == {"acquire", "decode", "begin", "debitTotal", "send", "paying",
                "commitPaid", "release"}
Ended == {"done", "failed", "killed"}
PCs == {"start"} \cup TransferPCs \cup DepositPCs \cup EventPCs \cup WithdrawPCs
         \cup Ended

\* The awaits that are operations of the call's own transaction.
InTransaction == {"find", "claim", "debit", "credit", "commit", "record",
                  "claimDeposit", "creditDeposit", "commitDeposit",
                  "debitTotal", "commitPaid"}

TypeOK ==
    /\ balance \in [Wallets -> Int]
    /\ disabled \subseteq Wallets
    /\ row \in [Calls \ Events -> {"none", "pending", "settled"}]
    /\ request \in [PayRequests -> {"absent", "unpaid", "paid"}]
    /\ DB!DatabaseTypeOK
    /\ pc \in [Calls -> PCs]
    /\ snap \in [Withdrawals -> Int]
    /\ busy \in [Instances -> SUBSET Wallets]
    /\ invoice \in [Deposits -> {"none", "open", "settled"}]
    /\ subscribed \subseteq Deposits
    /\ payment \in [Invoices -> {"none", "inflight", "paid"}]
    /\ paidBy \in [Invoices -> Withdrawals \cup {NoClient}]
    /\ restarts \in 0..MaxRestarts

Init ==
    /\ balance = InitialBalance
    /\ disabled = {}
    /\ row = [r \in Calls \ Events |-> "none"]
    /\ request = [p \in PayRequests |-> "absent"]
    /\ DB!DatabaseInit
    /\ pc = [r \in Calls |-> "start"]
    /\ snap = [r \in Withdrawals |-> 0]
    /\ busy = [i \in Instances |-> {}]
    /\ invoice = [d \in Deposits |-> "none"]
    /\ subscribed = {}
    /\ payment = [i \in Invoices |-> "none"]
    /\ paidBy = [i \in Invoices |-> NoClient]
    /\ restarts = 0

-----------------------------------------------------------------------------
(* What the handlers share.                                                *)

At(r, label) == pc[r] = label
GoTo(r, label) == pc' = [pc EXCEPT ![r] = label]

\* The where clause of a transfer's or withdrawal's debit, and two ways to
\* lose half of it.
DebitUncovered(w, sats) == w \notin disabled
DebitOfDisabled(w, sats) == Covers(balance[w], sats)
DebitMatches(w, sats) == w \notin disabled /\ Covers(balance[w], sats)

\* The where clause of a transfer's credit, and one without its bound.
CreditUnbounded(w, sats) == w \notin disabled
CreditMatches(w, sats) == w \notin disabled /\ HasRoom(balance[w], sats)

\* getUserWallet(user, true) lets the call go on.
Usable(r, w) == w \notin disabled /\ w \notin busy[InstanceOf[r]]

\* The callback of a transaction throws: rollback, and the call ends.
Fail(r, label) == DB!End(r) /\ GoTo(r, label)

\* updateMany under a guard as a step of call r: no row matched, or the row
\* is locked for the rest of the transaction.
GuardedUpdate(r, x, guard, matched, missed) ==
    /\ r \in open
    /\ IF guard
         THEN DB!Lock(r, x) /\ GoTo(r, matched)
         ELSE Fail(r, missed)

-----------------------------------------------------------------------------
(* createPayRequest and createPayRequests: all rows of a batch, or none.   *)

CreatePayRequests(b) ==
    /\ \A p \in b : request[p] = "absent"
    /\ request' = [p \in PayRequests |-> IF p \in b THEN "unpaid" ELSE request[p]]
    /\ UNCHANGED <<balance, disabled, row, holder, open, callVars, lndVars, restarts>>

-----------------------------------------------------------------------------
(* payUser and payRequest.                                                 *)

\* assertPositiveSats and the same-wallet check of payUser.
PayUserAccepts(t) == PositiveSats(Amount[t]) /\ PayerOf[t] # PayeeOf[t]

StartPayUser(t) ==
    /\ At(t, "start")
    /\ IF PayUserAccepts(t)
         THEN DB!Begin(t) /\ GoTo(t, "payer")
         ELSE GoTo(t, "failed") /\ UNCHANGED <<holder, open>>
    /\ UNCHANGED <<walletVars, snap, busy, lndVars, restarts>>

StartPayRequest(t) ==
    /\ At(t, "start")
    /\ DB!Begin(t)
    /\ GoTo(t, "find")
    /\ UNCHANGED <<walletVars, snap, busy, lndVars, restarts>>

\* findUnique, the receiver check and the check of `paid`, which only reads.
FindPayRequest(t) ==
    /\ At(t, "find")
    /\ t \in open
    /\ IF request[RequestOf[t]] = "unpaid" /\ Receiver[RequestOf[t]] = PayerOf[t]
         THEN GoTo(t, "payer") /\ UNCHANGED <<holder, open>>
         ELSE Fail(t, "failed")
    /\ UNCHANGED <<walletVars, snap, busy, lndVars, restarts>>

\* The two getUserWallet calls read outside the transaction.
ReadPayerWallet(t) ==
    /\ At(t, "payer")
    /\ IF Usable(t, Payer(t))
         THEN GoTo(t, "payee") /\ UNCHANGED <<holder, open>>
         ELSE Fail(t, "failed")
    /\ UNCHANGED <<walletVars, snap, busy, lndVars, restarts>>

ReadPayeeWallet(t) ==
    /\ At(t, "payee")
    /\ IF Usable(t, Payee(t))
         THEN /\ GoTo(t, IF t \in Settlements THEN "claim" ELSE "debit")
              /\ UNCHANGED <<holder, open>>
         ELSE Fail(t, "failed")
    /\ UNCHANGED <<walletVars, snap, busy, lndVars, restarts>>

\* The where clause of the claim, and one that does not look at `paid`.
ClaimAnyRequest(t) == request[RequestOf[t]] # "absent"
ClaimMatches(t) == request[RequestOf[t]] = "unpaid"

ClaimPayRequest(t) ==
    /\ At(t, "claim")
    /\ GuardedUpdate(t, RequestOf[t], ClaimMatches(t), "debit", "failed")
    /\ UNCHANGED <<walletVars, snap, busy, lndVars, restarts>>

DebitPayer(t) ==
    /\ At(t, "debit")
    /\ GuardedUpdate(t, Payer(t), DebitMatches(Payer(t), TransferSats(t)),
                     "credit", "failed")
    /\ UNCHANGED <<walletVars, snap, busy, lndVars, restarts>>

CreditPayee(t) ==
    /\ At(t, "credit")
    /\ GuardedUpdate(t, Payee(t), CreditMatches(Payee(t), TransferSats(t)),
                     "commit", "failed")
    /\ UNCHANGED <<walletVars, snap, busy, lndVars, restarts>>

\* What the decrement and the increment of a transfer leave, and what is left
\* when the decrement is forgotten.
OnlyCredited(t) == [balance EXCEPT ![Payee(t)] = @ + TransferSats(t)]
Transferred(t) ==
    [balance EXCEPT ![Payer(t)] = @ - TransferSats(t), ![Payee(t)] = @ + TransferSats(t)]

\* The SEND and RECEIVE rows are created and the transaction commits.
CommitTransfer(t) ==
    /\ At(t, "commit")
    /\ t \in open
    /\ balance' = Transferred(t)
    /\ row' = [row EXCEPT ![t] = "settled"]
    /\ request' = [p \in PayRequests |->
                     IF t \in Settlements /\ p = RequestOf[t] THEN "paid" ELSE request[p]]
    /\ DB!End(t)
    /\ GoTo(t, "done")
    /\ UNCHANGED <<disabled, snap, busy, lndVars, restarts>>

PayRequest(t) ==
    \/ StartPayRequest(t)
    \/ FindPayRequest(t)
    \/ ClaimPayRequest(t)
Transfer(t) ==
    \/ ReadPayerWallet(t)
    \/ ReadPayeeWallet(t)
    \/ DebitPayer(t)
    \/ CreditPayee(t)
    \/ CommitTransfer(t)

-----------------------------------------------------------------------------
(* createDepositInvoice, and the settlement of its invoice.                *)

StartDeposit(d) ==
    /\ At(d, "start")
    /\ IF PositiveSats(Amount[d])
         THEN DB!Begin(d) /\ GoTo(d, "limit")
         ELSE GoTo(d, "failed") /\ UNCHANGED <<holder, open>>
    /\ UNCHANGED <<walletVars, snap, busy, lndVars, restarts>>

\* getUserWallet and the wallet limit, on the balance it returned.
CheckLimit(d) ==
    /\ At(d, "limit")
    /\ IF Usable(d, WalletOf[d]) /\ balance[WalletOf[d]] <= EffectiveLimit - Amount[d]
         THEN GoTo(d, "invoice") /\ UNCHANGED <<holder, open>>
         ELSE Fail(d, "failed")
    /\ UNCHANGED <<walletVars, snap, busy, lndVars, restarts>>

\* LND creates the invoice and the subscription is set up before it resolves.
CreateInvoice(d) ==
    /\ At(d, "invoice")
    /\ invoice' = [invoice EXCEPT ![d] = "open"]
    /\ subscribed' = subscribed \cup {d}
    /\ GoTo(d, "record")
    /\ UNCHANGED <<walletVars, holder, open, snap, busy, payment, paidBy, restarts>>

\* An error of LND, or the 60 s timer of createInvoice.
InvoiceUnavailable(d) ==
    /\ At(d, "invoice")
    /\ Fail(d, "failed")
    /\ UNCHANGED <<walletVars, snap, busy, lndVars, restarts>>

\* The row is created and the transaction commits; only now can anybody learn
\* the payment request.
RecordDeposit(d) ==
    /\ At(d, "record")
    /\ d \in open
    /\ row' = [row EXCEPT ![d] = "pending"]
    /\ DB!End(d)
    /\ GoTo(d, "done")
    /\ UNCHANGED <<balance, disabled, request, snap, busy, lndVars, restarts>>

Deposit(d) ==
    \/ StartDeposit(d)
    \/ CheckLimit(d)
    \/ CreateInvoice(d)
    \/ InvoiceUnavailable(d)
    \/ RecordDeposit(d)

\* onConfirmed runs when the event says is_confirmed, not on every update.
ConfirmedAny(d) == invoice[d] # "none"
Confirmed(d) == invoice[d] = "settled"

\* The subscription delivers an update; LND may repeat the settled one.  Its tokens
\* are the amount of the row, with which the invoice was created: the comparison
\* before the transaction (wallet.service.ts:377-380) always passes.
InvoiceUpdated(e) ==
    /\ At(e, "start")
    /\ DepositOf[e] \in subscribed
    /\ row[DepositOf[e]] # "none"
    /\ Confirmed(DepositOf[e])
    /\ DB!Begin(e)
    /\ GoTo(e, "claimDeposit")
    /\ UNCHANGED <<walletVars, snap, busy, lndVars, restarts>>

\* The where clause of the claim of _impactDeposit; one that claims whatever
\* its state is, and one that waits for the flag it should itself set.
DepositSettled(e) == row[DepositOf[e]] = "settled"
DepositAny(e) == row[DepositOf[e]] # "none"
DepositUnclaimed(e) == row[DepositOf[e]] = "pending"

\* No row claimed: the deposit was impacted already, and the call returns.
ClaimDeposit(e) ==
    /\ At(e, "claimDeposit")
    /\ GuardedUpdate(e, DepositOf[e], DepositUnclaimed(e), "creditDeposit", "done")
    /\ UNCHANGED <<walletVars, snap, busy, lndVars, restarts>>

\* The where clause of the credit: a disabled wallet still receives it.
DepositFits(e) == HasRoom(balance[WalletOf[DepositOf[e]]], Amount[DepositOf[e]])

CreditDeposit(e) ==
    /\ At(e, "creditDeposit")
    /\ GuardedUpdate(e, WalletOf[DepositOf[e]], DepositFits(e), "commitDeposit", "failed")
    /\ UNCHANGED <<walletVars, snap, busy, lndVars, restarts>>

CommitDeposit(e) ==
    /\ At(e, "commitDeposit")
    /\ e \in open
    /\ balance' = [balance EXCEPT ![WalletOf[DepositOf[e]]] = @ + Amount[DepositOf[e]]]
    /\ row' = [row EXCEPT ![DepositOf[e]] = "settled"]
    /\ DB!End(e)
    /\ GoTo(e, "done")
    /\ UNCHANGED <<disabled, request, snap, busy, lndVars, restarts>>

ImpactDeposit(e) ==
    \/ InvoiceUpdated(e)
    \/ ClaimDeposit(e)
    \/ CreditDeposit(e)
    \/ CommitDeposit(e)

-----------------------------------------------------------------------------
(* payWithdrawInvoice.                                                     *)

\* amountInSats and total, from the balance read before the wallet was busy.
WithdrawSats(r) == IF Amount[r] = 0 THEN SweepAmount(snap[r]) ELSE Amount[r]
WithdrawTotal(r) == Total(WithdrawSats(r))

\* getUserWallet; a user can only submit an invoice that exists.
ReadWithdrawWallet(r) ==
    /\ At(r, "start")
    /\ Target[r] \in Deposits => row[Target[r]] # "none"
    /\ IF Usable(r, WalletOf[r])
         THEN snap' = [snap EXCEPT ![r] = balance[WalletOf[r]]] /\ GoTo(r, "acquire")
         ELSE GoTo(r, "failed") /\ UNCHANGED snap
    /\ UNCHANGED <<walletVars, holder, open, busy, lndVars, restarts>>

\* The key under which busyWallets knows a wallet, and a key of another kind.
CallKey(r) == r
BusyKey(r) == WalletOf[r]

\* setWalletBusy is a test and set: nothing runs between its two lines.
NotBusyAny(r) == TRUE
NotBusy(r) == WalletOf[r] \notin busy[InstanceOf[r]]

SetWalletBusy(r) ==
    /\ At(r, "acquire")
    /\ IF NotBusy(r)
         THEN /\ busy' = [busy EXCEPT ![InstanceOf[r]] = @ \cup {BusyKey(r)}]
              /\ GoTo(r, "decode")
         ELSE GoTo(r, "failed") /\ UNCHANGED busy
    /\ UNCHANGED <<walletVars, holder, open, snap, lndVars, restarts>>

\* The checks between decodeInvoice and the transaction.
WithdrawAccepts(r) ==
    /\ PositiveSats(WithdrawSats(r))
    /\ WithdrawTotal(r) <= MaxSats
    /\ Covers(snap[r], WithdrawTotal(r))

DecodeInvoice(r) ==
    /\ At(r, "decode")
    /\ GoTo(r, IF WithdrawAccepts(r) THEN "begin" ELSE "release")
    /\ UNCHANGED <<walletVars, holder, open, snap, busy, lndVars, restarts>>

\* LND cannot decode it, or no connection is free within maxWait.
WithdrawRefused(r) ==
    /\ pc[r] \in {"decode", "begin"}
    /\ GoTo(r, "release")
    /\ UNCHANGED <<walletVars, holder, open, snap, busy, lndVars, restarts>>

BeginWithdraw(r) ==
    /\ At(r, "begin")
    /\ DB!Begin(r)
    /\ GoTo(r, "debitTotal")
    /\ UNCHANGED <<walletVars, snap, busy, lndVars, restarts>>

\* The debit, and the creation of the row that nobody else sees yet.
DebitWithdraw(r) ==
    /\ At(r, "debitTotal")
    /\ GuardedUpdate(r, WalletOf[r], DebitMatches(WalletOf[r], WithdrawTotal(r)),
                     "send", "release")
    /\ UNCHANGED <<walletVars, snap, busy, lndVars, restarts>>

\* lightning.pay: LND refuses an invoice it has paid or is paying.  The call
\* is made whether or not the transaction is still open.
CanLaunch(i) == payment[i] = "none" /\ (i \in Deposits => invoice[i] = "open")

SendPayment(r) ==
    /\ At(r, "send")
    /\ IF CanLaunch(Target[r])
         THEN /\ payment' = [payment EXCEPT ![Target[r]] = "inflight"]
              /\ paidBy' = [paidBy EXCEPT ![Target[r]] = r]
         ELSE UNCHANGED <<payment, paidBy>>
    /\ GoTo(r, "paying")
    /\ UNCHANGED <<walletVars, holder, open, snap, busy, invoice, subscribed, restarts>>

Launched(r) == paidBy[Target[r]] = r

\* payInvoice resolves: LND reported the payment, or after the timer the
\* invoice is one of our own and is settled.  A timer that is taken for a
\* payment would be PaymentAssumed.
PaymentAssumed(r) == r \in Late \/ (Launched(r) /\ payment[Target[r]] = "paid")
PaymentConfirmed(r) ==
    \/ Launched(r) /\ payment[Target[r]] = "paid"
    \/ r \in Late /\ Target[r] \in Deposits /\ invoice[Target[r]] = "settled"

PayInvoiceResolves(r) ==
    /\ At(r, "paying")
    /\ PaymentConfirmed(r)
    /\ GoTo(r, "commitPaid")
    /\ UNCHANGED <<walletVars, holder, open, snap, busy, lndVars, restarts>>

\* payInvoice rejects: LND refused or failed the payment, or after the timer
\* the invoice check failed (every foreign invoice) or was unconfirmed.  A
\* timer that always beats LND:
AlwaysRejected(r) == TRUE
PaymentRejected(r) == Launched(r) => r \in Late

PayInvoiceRejects(r) ==
    /\ \/ At(r, "send")
       \/ At(r, "paying") /\ PaymentRejected(r)
    /\ Fail(r, "release")
    /\ UNCHANGED <<walletVars, snap, busy, lndVars, restarts>>

\* What the decrement leaves, and what is left without the fee reserve.
ChargedWithoutFee(r) == [balance EXCEPT ![WalletOf[r]] = @ - WithdrawSats(r)]
Charged(r) == [balance EXCEPT ![WalletOf[r]] = @ - WithdrawTotal(r)]

\* The row is marked settled and the transaction commits.
CommitWithdraw(r) ==
    /\ At(r, "commitPaid")
    /\ r \in open
    /\ balance' = Charged(r)
    /\ row' = [row EXCEPT ![r] = "settled"]
    /\ DB!End(r)
    /\ GoTo(r, "release")
    /\ UNCHANGED <<disabled, request, snap, busy, lndVars, restarts>>

\* clearWalletBusy, whatever happened, and one that only success reaches.
ClearedOnSuccess(r) ==
    IF row[r] = "settled" THEN busy[InstanceOf[r]] \ {WalletOf[r]} ELSE busy[InstanceOf[r]]
Cleared(r) == busy[InstanceOf[r]] \ {BusyKey(r)}

\* The finally block.
ClearWalletBusy(r) ==
    /\ At(r, "release")
    /\ busy' = [busy EXCEPT ![InstanceOf[r]] = Cleared(r)]
    /\ GoTo(r, IF row[r] = "settled" THEN "done" ELSE "failed")
    /\ UNCHANGED <<walletVars, holder, open, snap, lndVars, restarts>>

Withdraw(r) ==
    \/ ReadWithdrawWallet(r)
    \/ SetWalletBusy(r)
    \/ DecodeInvoice(r)
    \/ WithdrawRefused(r)
    \/ BeginWithdraw(r)
    \/ DebitWithdraw(r)
    \/ SendPayment(r)
    \/ PayInvoiceResolves(r)
    \/ PayInvoiceRejects(r)
    \/ CommitWithdraw(r)
    \/ ClearWalletBusy(r)

-----------------------------------------------------------------------------
(* What the database, the process manager and the operator do.             *)

\* The row a suspended call is about to lock.
WantedRow(c) ==
    CASE pc[c] = "claim" -> {RequestOf[c]}
      [] pc[c] = "debit" -> {Payer(c)}
      [] pc[c] = "credit" -> {Payee(c)}
      [] pc[c] = "claimDeposit" -> {DepositOf[c]}
      [] pc[c] = "creditDeposit" -> {WalletOf[DepositOf[c]]}
      [] pc[c] = "debitTotal" -> {WalletOf[c]}
      [] OTHER -> {}

WaitsFor(c, other) == other # c /\ \E x \in WantedRow(c) : holder[x] = other

\* c is on a cycle of calls that wait for each other: a call waits for one
\* row only, so a set in which all wait and all are waited for is cycles.  (A
\* call that merely queues behind a cycle is not aborted by PostgreSQL.)
Deadlocked(c) ==
    \E S \in SUBSET open :
        /\ c \in S
        /\ \A a \in S : \E b \in S : WaitsFor(a, b)
        /\ \A b \in S : \E a \in S : WaitsFor(a, b)

\* PostgreSQL or Prisma ends a transaction on its own: to break a deadlock,
\* because it expired (PRISMA_TRANSACTION_OPTS), because its process died.
LoseTransaction(c) ==
    /\ c \in open
    /\ c \in Expiring \/ At(c, "killed") \/ Deadlocked(c)
    /\ DB!End(c)
    /\ UNCHANGED <<walletVars, callVars, lndVars, restarts>>

\* The next operation of a lost transaction throws in the call.
OperationOnLostTransaction(c) ==
    /\ pc[c] \in InTransaction
    /\ c \notin open
    /\ GoTo(c, IF c \in Withdrawals THEN "release" ELSE "failed")
    /\ UNCHANGED <<walletVars, holder, open, snap, busy, lndVars, restarts>>

\* The process dies or is replaced: its calls, its busyWallets and its
\* invoice subscriptions are gone; the new process sets up none of them.
Restart(i) ==
    /\ restarts < MaxRestarts
    /\ restarts' = restarts + 1
    /\ pc' = [r \in Calls |->
                IF InstanceOf[r] = i /\ pc[r] \notin {"start"} \cup Ended
                  THEN "killed" ELSE pc[r]]
    /\ busy' = [busy EXCEPT ![i] = {}]
    /\ subscribed' = {d \in subscribed : InstanceOf[d] # i}
    /\ UNCHANGED <<walletVars, holder, open, snap, invoice, payment, paidBy>>

\* provisionApplicationServiceAccount: an UPDATE of its own.
DisableWallet(w) ==
    /\ w \in Disablable \ disabled
    /\ DB!Lockable(w)
    /\ disabled' = disabled \cup {w}
    /\ UNCHANGED <<balance, row, request, holder, open, callVars, lndVars, restarts>>

(* What LND and the payers do.                                             *)

\* Somebody pays a deposit invoice that was handed out.
InvoicePaid(d) ==
    /\ row[d] = "pending"
    /\ invoice[d] = "open"
    /\ invoice' = [invoice EXCEPT ![d] = "settled"]
    /\ UNCHANGED <<walletVars, holder, open, callVars, subscribed, payment, paidBy, restarts>>

\* A payment of ours reaches its invoice, which may be another user's deposit.
PaymentSucceeds(i) ==
    /\ payment[i] = "inflight"
    /\ i \in Deposits => invoice[i] = "open"
    /\ payment' = [payment EXCEPT ![i] = "paid"]
    /\ invoice' = [d \in Deposits |-> IF d = i THEN "settled" ELSE invoice[d]]
    /\ UNCHANGED <<walletVars, holder, open, callVars, subscribed, paidBy, restarts>>

PaymentFails(i) ==
    /\ payment[i] = "inflight"
    /\ payment' = [payment EXCEPT ![i] = "none"]
    /\ paidBy' = [paidBy EXCEPT ![i] = NoClient]
    /\ UNCHANGED <<walletVars, holder, open, callVars, invoice, subscribed, restarts>>

Environment ==
    \/ \E c \in Calls : LoseTransaction(c) \/ OperationOnLostTransaction(c)
    \/ \E i \in Instances : Restart(i)
    \/ \E w \in Wallets : DisableWallet(w)
    \/ \E d \in Deposits : InvoicePaid(d)
    \/ \E i \in Invoices : PaymentSucceeds(i) \/ PaymentFails(i)

\* Every call has ended or never came.
Quiescent ==
    /\ \A r \in Calls : pc[r] \in {"start"} \cup Ended
    /\ UNCHANGED vars

Next ==
    \/ \E b \in Batches : CreatePayRequests(b)
    \/ \E t \in Payments : StartPayUser(t)
    \/ \E t \in Settlements : PayRequest(t)
    \/ \E t \in Transfers : Transfer(t)
    \/ \E d \in Deposits : Deposit(d)
    \/ \E e \in Events : ImpactDeposit(e)
    \/ \E r \in Withdrawals : Withdraw(r)
    \/ Environment
    \/ Quiescent

Spec == Init /\ [][Next]_vars
==============================================================================
