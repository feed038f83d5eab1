--------------------------- MODULE WalletInvariant ---------------------------
(***************************************************************************)
(* Why WalletService is correct: what each suspended call may rely on.     *)
(* A call that has locked a row while its transaction is still open knows  *)
(* that the guard it evaluated there is still true, a call that passed a   *)
(* check on its arguments knows what it checked, and a row is written by   *)
(* the last step of its call's transaction.  GuardsHold is inductive; the  *)
(* safety properties of WalletProperties follow from it.                   *)
(***************************************************************************)
EXTENDS WalletProperties

Holds(c, x) == holder[x] = c

\* payUser and payRequest: the checks before the first lock, then the guards.
TransferChecked(t) ==
    /\ t \in Payments /\ pc[t] \in TransferPCs => PayUserAccepts(t)
    /\ t \in Settlements /\ pc[t] \in TransferPCs \ {"find"}
         => Receiver[RequestOf[t]] = PayerOf[t]

ClaimHeld(t) ==
    t \in Settlements /\ pc[t] \in {"debit", "credit", "commit"}
      => Holds(t, RequestOf[t]) /\ ClaimMatches(t)

DebitHeld(t) ==
    pc[t] \in {"credit", "commit"}
      => Holds(t, Payer(t)) /\ DebitMatches(Payer(t), TransferSats(t))

CreditHeld(t) ==
    pc[t] = "commit" => Holds(t, Payee(t)) /\ CreditMatches(Payee(t), TransferSats(t))

TransferInv(t) ==
    /\ TransferChecked(t)
    /\ t \in open => ClaimHeld(t) /\ DebitHeld(t) /\ CreditHeld(t)
    /\ row[t] # "none" => row[t] = "settled" /\ pc[t] = "done"

\* createDepositInvoice.
DepositInv(d) ==
    /\ pc[d] \in DepositPCs \cup {"done"} => PositiveSats(Amount[d])
    /\ row[d] # "none" => pc[d] = "done"

\* _impactDeposit.
EventInv(e) ==
    e \in open =>
      /\ pc[e] \in {"creditDeposit", "commitDeposit"}
           => Holds(e, DepositOf[e]) /\ DepositUnclaimed(e)
      /\ pc[e] = "commitDeposit"
           => Holds(e, WalletOf[DepositOf[e]]) /\ DepositFits(e)

\* payWithdrawInvoice: what was checked on the snapshot, and the debit's guard.
WithdrawInv(r) ==
    /\ pc[r] \in {"begin", "debitTotal", "send", "paying", "commitPaid"}
         => WithdrawAccepts(r)
    /\ r \in open /\ pc[r] \in {"send", "paying", "commitPaid"}
         => Holds(r, WalletOf[r]) /\ DebitMatches(WalletOf[r], WithdrawTotal(r))
    /\ row[r] # "none" => row[r] = "settled" /\ pc[r] \in {"release", "done", "killed"}

GuardsHold ==
    /\ \A t \in Transfers : TransferInv(t)
    /\ \A d \in Deposits : DepositInv(d)
    /\ \A e \in Events : EventInv(e)
    /\ \A r \in Withdrawals : WithdrawInv(r)

\* What a step of somebody else leaves to call c: its own control, its
\* transaction and its locks, and the rows it has locked.
Undisturbed(c) ==
    /\ pc'[c] = pc[c]
    /\ c \in open' <=> c \in open
    /\ \A x \in Rows : Holds(c, x) => holder'[x] = c
    /\ \A w \in Wallets : Holds(c, w) => /\ balance'[w] = balance[w]
                                         /\ w \in disabled' <=> w \in disabled
    /\ \A p \in PayRequests : Holds(c, p) /\ request[p] = "unpaid" => request'[p] = "unpaid"
    /\ \A d \in Deposits : Holds(c, d) /\ row[d] = "pending" => row'[d] = "pending"
    /\ c \in Withdrawals => snap'[c] = snap[c]
    /\ c \in Calls \ Events => /\ row'[c] = "none" <=> row[c] = "none"
                               /\ c \notin Deposits => row'[c] = row[c]

-----------------------------------------------------------------------------
(* The busy flag and the payments: PaymentsSound is inductive and has      *)
(* BusyIsExact, ChargedWasPaid and CreditedWasSettled as consequences.     *)

\* A call is suspended only where its own handler suspends.
OwnLabel(c) ==
    /\ c \in Withdrawals => pc[c] \in {"start"} \cup WithdrawPCs \cup Ended
    /\ c \in Deposits => pc[c] \in {"start"} \cup DepositPCs \cup Ended
    /\ c \in Events => pc[c] \in {"start"} \cup EventPCs \cup Ended

\* What payInvoice knew when it resolved is still true of LND.
PaidAt(r) ==
    \/ Launched(r) /\ payment[Target[r]] = "paid"
    \/ Target[r] \in Deposits /\ invoice[Target[r]] = "settled"
PaymentInv(r) == pc[r] = "commitPaid" \/ Settled(r) => PaidAt(r)

\* An invoice of ours is created once, and credited because it was settled.
InvoiceInv(d) ==
    /\ pc[d] \in {"start", "limit", "invoice"} => invoice[d] = "none"
    /\ Settled(d) => invoice[d] = "settled"
ConfirmedInv(e) == pc[e] \in EventPCs => Confirmed(DepositOf[e])

PaymentsSound ==
    /\ \A c \in Calls : OwnLabel(c)
    /\ BusyIsExact
    /\ \A r \in Withdrawals : PaymentInv(r)
    /\ \A d \in Deposits : InvoiceInv(d)
    /\ \A e \in Events : ConfirmedInv(e)

\* What LND has settled stays settled.
LndMonotone ==
    /\ \A i \in Invoices : payment[i] = "paid"
                            => payment'[i] = "paid" /\ paidBy'[i] = paidBy[i]
    /\ \A d \in Deposits : invoice[d] = "settled" => invoice'[d] = "settled"

-----------------------------------------------------------------------------
(* A withdrawal LND answers in time: AnswersHold is inductive, given that  *)
(* calls are suspended where their handler suspends, and has               *)
(* AnsweredIsCharged as a consequence.                                     *)

\* Neither a timer nor the expiry of its transaction comes in between.
Undelayed == Withdrawals \ (Late \cup Expiring)

\* From its debit to its commit the transaction stays open, and a payment that
\* was launched is one the call still waits for, or one that it has charged.
AnswerInv(r) ==
    /\ pc[r] \in {"send", "paying", "commitPaid"} => r \in open
    /\ Launched(r) => pc[r] \in {"paying", "commitPaid", "killed"} \/ Settled(r)

AnswersHold == \A r \in Undelayed : AnswerInv(r)
==============================================================================
