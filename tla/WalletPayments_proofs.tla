------------------------ MODULE WalletPayments_proofs -------------------------
(***************************************************************************)
(* Proofs about the busy flag and the payments of WalletService, by the    *)
(* invariant PaymentsSound: first what each handler's steps change, then   *)
(* that the invariant survives it; about the calls that LND answers in     *)
(* time, by AnswersHold; and about those that find the pool exhausted.     *)
(***************************************************************************)
EXTENDS WalletService_proofs, ConnectionPool

\* A step of call c moves no other call and writes no other call's row.
OthersUntouched(c) ==
    /\ \A o \in Calls : o # c => pc'[o] = pc[o]
    /\ \A o \in Calls \ Events : o # c => row'[o] = row[o]

\* What a step of a withdrawal does to busyWallets.
Acquires(r) ==
    /\ pc[r] \notin Working /\ pc'[r] \in Working
    /\ WalletOf[r] \notin busy[InstanceOf[r]]
    /\ busy' = [busy EXCEPT ![InstanceOf[r]] = @ \cup {WalletOf[r]}]
Releases(r) ==
    /\ pc[r] \in Working /\ pc'[r] \notin Working
    /\ busy' = [busy EXCEPT ![InstanceOf[r]] = @ \ {WalletOf[r]}]
KeepsFlag(r) == (pc[r] \in Working <=> pc'[r] \in Working) /\ UNCHANGED busy

-----------------------------------------------------------------------------
(* What the steps change.                                                  *)

LEMMA Moved ==
    ASSUME TypeOK, NEW c \in Calls, NEW label, GoTo(c, label)
    PROVE  pc'[c] = label /\ \A o \in Calls : o # c => pc'[o] = pc[o]
BY DEF GoTo, TypeOK

LEMMA MovedByUpdate ==
    ASSUME TypeOK, NEW c \in Calls, NEW x, NEW guard, NEW matched, NEW missed,
           GuardedUpdate(c, x, guard, matched, missed)
    PROVE  pc'[c] \in {matched, missed} /\ \A o \in Calls : o # c => pc'[o] = pc[o]
BY DEF GuardedUpdate, Fail, GoTo, TypeOK

LEMMA TransferMoves ==
    ASSUME TypeOK, NEW t \in Transfers,
           \/ Transfer(t)
           \/ t \in Settlements /\ PayRequest(t)
           \/ t \in Payments /\ StartPayUser(t)
    PROVE  OthersUntouched(t) /\ UNCHANGED <<busy, lndVars>>
<1>0. t \in Calls
  BY DEF Calls
<1> USE <1>0, Moved, MovedByUpdate DEF OthersUntouched, walletVars
<1>1. CASE ReadPayerWallet(t)
  BY <1>1 DEF ReadPayerWallet, Fail
<1>2. CASE ReadPayeeWallet(t)
  BY <1>2 DEF ReadPayeeWallet, Fail
<1>3. CASE DebitPayer(t)
  BY <1>3 DEF DebitPayer
<1>4. CASE CreditPayee(t)
  BY <1>4 DEF CreditPayee
<1>5. CASE CommitTransfer(t)
  BY <1>5 DEF CommitTransfer, TypeOK
<1>6. CASE StartPayRequest(t)
  BY <1>6 DEF StartPayRequest
<1>7. CASE FindPayRequest(t)
  BY <1>7 DEF FindPayRequest, Fail
<1>8. CASE ClaimPayRequest(t)
  BY <1>8 DEF ClaimPayRequest
<1>9. CASE StartPayUser(t)
  BY <1>9 DEF StartPayUser
<1> QED BY <1>1, <1>2, <1>3, <1>4, <1>5, <1>6, <1>7, <1>8, <1>9 DEF Transfer, PayRequest

LEMMA DepositMoves ==
    ASSUME TypeOK, NEW d \in Deposits, Deposit(d)
    PROVE  /\ OthersUntouched(d)
           /\ UNCHANGED <<busy, payment, paidBy>>
           /\ pc'[d] \in DepositPCs \cup Ended
           /\ row'[d] # row[d] => row'[d] = "pending"
           /\ \/ /\ UNCHANGED invoice
                 /\ pc'[d] \in {"limit", "invoice"} => pc[d] \in {"start", "limit"}
              \/ /\ invoice' = [invoice EXCEPT ![d] = "open"]
                 /\ pc[d] = "invoice" /\ pc'[d] = "record"
<1>0. d \in Calls /\ d \in Calls \ Events
  BY DepositTyped, WalletServiceAssumption
<1> USE <1>0, Moved DEF OthersUntouched, walletVars, lndVars, DepositPCs, Ended
<1>1. CASE StartDeposit(d)
  BY <1>1 DEF StartDeposit, At
<1>2. CASE CheckLimit(d)
  BY <1>2 DEF CheckLimit, Fail, At
<1>3. CASE CreateInvoice(d)
  BY <1>3 DEF CreateInvoice, At
<1>4. CASE InvoiceUnavailable(d)
  BY <1>4 DEF InvoiceUnavailable, Fail
<1>5. CASE RecordDeposit(d)
  BY <1>5 DEF RecordDeposit, TypeOK
<1> QED BY <1>1, <1>2, <1>3, <1>4, <1>5 DEF Deposit

LEMMA EventMoves ==
    ASSUME TypeOK, NEW e \in Events, ImpactDeposit(e)
    PROVE  /\ \A o \in Calls : o # e => pc'[o] = pc[o]
           /\ UNCHANGED <<busy, lndVars>>
           /\ pc'[e] \in EventPCs \cup Ended
           /\ pc'[e] \in EventPCs => pc[e] \in EventPCs \/ Confirmed(DepositOf[e])
           /\ \A o \in Calls \ Events :
                row'[o] # row[o] => o = DepositOf[e] /\ pc[e] = "commitDeposit"
<1>0. e \in Calls
  BY EventTyped
<1> USE <1>0, Moved, MovedByUpdate DEF walletVars, EventPCs, Ended, At
<1>1. CASE InvoiceUpdated(e)
  BY <1>1 DEF InvoiceUpdated
<1>2. CASE ClaimDeposit(e)
  BY <1>2 DEF ClaimDeposit
<1>3. CASE CreditDeposit(e)
  BY <1>3 DEF CreditDeposit
<1>4. CASE CommitDeposit(e)
  BY <1>4 DEF CommitDeposit, TypeOK
<1> QED BY <1>1, <1>2, <1>3, <1>4 DEF ImpactDeposit

LEMMA WithdrawMoves ==
    ASSUME TypeOK, NEW r \in Withdrawals, Withdraw(r)
    PROVE  /\ OthersUntouched(r)
           /\ pc'[r] \in WithdrawPCs \cup Ended
           /\ UNCHANGED invoice
           /\ \A i \in Invoices : payment[i] = "paid"
                                    => payment'[i] = "paid" /\ paidBy'[i] = paidBy[i]
           /\ Acquires(r) \/ Releases(r) \/ KeepsFlag(r)
           /\ pc'[r] = "commitPaid" => pc[r] = "commitPaid" \/ PaidAt(r)
           /\ row'[r] # row[r] => pc[r] = "commitPaid"
<1>0. r \in Calls /\ r \in Calls \ Events /\ Target[r] \in Invoices
  BY WithdrawTyped, WalletServiceAssumption
<1> USE <1>0, Moved, MovedByUpdate
        DEF OthersUntouched, walletVars, lndVars, WithdrawPCs, Ended, Working, KeepsFlag, At
<1>1. CASE ReadWithdrawWallet(r)
  BY <1>1 DEF ReadWithdrawWallet
<1>2. CASE SetWalletBusy(r)
  BY <1>2 DEF SetWalletBusy, Acquires, NotBusy, BusyKey
<1>3. CASE DecodeInvoice(r)
  BY <1>3 DEF DecodeInvoice
<1>4. CASE WithdrawRefused(r)
  BY <1>4 DEF WithdrawRefused
<1>5. CASE BeginWithdraw(r)
  BY <1>5 DEF BeginWithdraw
<1>6. CASE DebitWithdraw(r)
  BY <1>6 DEF DebitWithdraw
<1>7. CASE SendPayment(r)
  BY <1>7 DEF SendPayment, CanLaunch, TypeOK
<1>8. CASE PayInvoiceResolves(r)
  BY <1>8 DEF PayInvoiceResolves, PaymentConfirmed, PaidAt
<1>9. CASE PayInvoiceRejects(r)
  BY <1>9 DEF PayInvoiceRejects, Fail
<1>10. CASE CommitWithdraw(r)
  BY <1>10 DEF CommitWithdraw, TypeOK
<1>11. CASE ClearWalletBusy(r)
  BY <1>11 DEF ClearWalletBusy, Releases, Cleared, BusyKey
<1> QED BY <1>1, <1>2, <1>3, <1>4, <1>5, <1>6, <1>7, <1>8, <1>9, <1>10, <1>11 DEF Withdraw

LEMMA EnvironmentMoves ==
    ASSUME TypeOK, Environment
    PROVE  /\ UNCHANGED row
           /\ \A c \in Calls :
                pc'[c] # pc[c] => pc'[c] \in Ended \/ (c \in Withdrawals /\ pc'[c] = "release")
           /\ LndMonotone
           /\ \A d \in Deposits : invoice[d] = "none" /\ row[d] = "none" => invoice'[d] = "none"
           /\ \/ /\ UNCHANGED busy
                 /\ \A r \in Withdrawals :
                      OwnLabel(r) => (pc[r] \in Working <=> pc'[r] \in Working)
              \/ \E i \in Instances : Restart(i)
<1> USE DEF LndMonotone, walletVars, callVars, lndVars
<1>1. ASSUME NEW c \in Calls, LoseTransaction(c) \/ OperationOnLostTransaction(c)
      PROVE  /\ UNCHANGED <<row, lndVars, busy>>
             /\ \A o \in Calls : pc'[o] # pc[o]
                  => pc'[o] \in Ended \/ (o \in Withdrawals /\ pc'[o] = "release")
             /\ \A r \in Withdrawals :
                  OwnLabel(r) => (pc[r] \in Working <=> pc'[r] \in Working)
  <2>1. CASE LoseTransaction(c)
    BY <2>1, <1>1 DEF LoseTransaction
  <2>2. CASE OperationOnLostTransaction(c)
    BY <2>2, <1>1, Moved, WithdrawTyped
       DEF OperationOnLostTransaction, Ended, Working, OwnLabel, WithdrawPCs, InTransaction
  <2> QED BY <1>1, <2>1, <2>2
<1>2. ASSUME NEW i \in Instances, Restart(i)
      PROVE  /\ UNCHANGED <<row, invoice, payment, paidBy>>
             /\ \A o \in Calls : pc'[o] # pc[o] => pc'[o] \in Ended
  BY <1>2 DEF Restart, Ended, TypeOK
<1>3. ASSUME NEW w \in Wallets, DisableWallet(w)
      PROVE  UNCHANGED <<row, pc, busy, lndVars>>
  BY <1>3 DEF DisableWallet
<1>4. ASSUME NEW d \in Deposits, InvoicePaid(d)
      PROVE  /\ UNCHANGED <<row, pc, busy, payment, paidBy>>
             /\ row[d] = "pending" /\ invoice' = [invoice EXCEPT ![d] = "settled"]
  BY <1>4 DEF InvoicePaid
<1>5. ASSUME NEW i \in Invoices, PaymentSucceeds(i)
      PROVE  /\ UNCHANGED <<row, pc, busy, paidBy>>
             /\ i \in Deposits => invoice[i] = "open"
             /\ payment' = [payment EXCEPT ![i] = "paid"]
             /\ invoice' = [d \in Deposits |-> IF d = i THEN "settled" ELSE invoice[d]]
  BY <1>5 DEF PaymentSucceeds
<1>6. ASSUME NEW i \in Invoices, PaymentFails(i)
      PROVE  /\ UNCHANGED <<row, pc, busy, invoice>>
             /\ payment[i] = "inflight"
             /\ payment' = [payment EXCEPT ![i] = "none"]
             /\ paidBy' = [paidBy EXCEPT ![i] = NoClient]
  BY <1>6 DEF PaymentFails
<1>7. UNCHANGED row
  BY <1>1, <1>2, <1>3, <1>4, <1>5, <1>6 DEF Environment
<1>8. \A c \in Calls :
        pc'[c] # pc[c] => pc'[c] \in Ended \/ (c \in Withdrawals /\ pc'[c] = "release")
  BY <1>1, <1>2, <1>3, <1>4, <1>5, <1>6 DEF Environment
<1>9. LndMonotone
  BY <1>1, <1>2, <1>3, <1>4, <1>5, <1>6 DEF Environment, TypeOK
<1>10. \A d \in Deposits : invoice[d] = "none" /\ row[d] = "none" => invoice'[d] = "none"
  BY <1>1, <1>2, <1>3, <1>4, <1>5, <1>6 DEF Environment, TypeOK
<1>11. \/ /\ UNCHANGED busy
          /\ \A r \in Withdrawals :
               OwnLabel(r) => (pc[r] \in Working <=> pc'[r] \in Working)
       \/ \E i \in Instances : Restart(i)
  BY <1>1, <1>3, <1>4, <1>5, <1>6 DEF Environment
<1> QED BY <1>7, <1>8, <1>9, <1>10, <1>11

-----------------------------------------------------------------------------
(* The busy flag.                                                          *)

\* BusyIsExact, one process and wallet at a time.
WorkingOn(i, w) ==
    {r \in Withdrawals : InstanceOf[r] = i /\ WalletOf[r] = w /\ pc[r] \in Working}
FlagExact(i, w) ==
    /\ w \in busy[i] <=> WorkingOn(i, w) # {}
    /\ \A r, s \in WorkingOn(i, w) : r = s

LEMMA FlagByFlag ==
    /\ BusyIsExact <=> \A i \in Instances, w \in Wallets : FlagExact(i, w)
    /\ BusyIsExact' <=> \A i \in Instances, w \in Wallets : FlagExact(i, w)'
BY DEF BusyIsExact, FlagExact, WorkingOn

LEMMA FlagKept ==
    ASSUME BusyIsExact, UNCHANGED busy,
           \A r \in Withdrawals : pc[r] \in Working <=> pc'[r] \in Working
    PROVE  BusyIsExact'
BY DEF BusyIsExact

LEMMA FlagMoved ==
    ASSUME TypeOK, BusyIsExact, NEW r \in Withdrawals,
           \A o \in Calls : o # r => pc'[o] = pc[o],
           Acquires(r) \/ Releases(r) \/ KeepsFlag(r)
    PROVE  BusyIsExact'
<1>0. /\ InstanceOf[r] \in Instances /\ WalletOf[r] \in Wallets
      /\ \A o \in Withdrawals : o # r => pc'[o] = pc[o]
  BY WithdrawTyped DEF Calls
<1>1. CASE Acquires(r)
  <2>1. /\ \A o \in Withdrawals : o # r => (pc'[o] \in Working <=> pc[o] \in Working)
        /\ pc[r] \notin Working /\ pc'[r] \in Working
    BY <1>0, <1>1 DEF Acquires
  <2>2. \A i \in Instances, w \in Wallets :
          w \in busy'[i] <=> w \in busy[i] \/ (i = InstanceOf[r] /\ w = WalletOf[r])
    BY <1>0, <1>1 DEF Acquires, TypeOK
  <2>3. WorkingOn(InstanceOf[r], WalletOf[r]) = {}
    BY <1>0, <1>1 DEF Acquires, BusyIsExact, WorkingOn
  <2> SUFFICES ASSUME NEW i \in Instances, NEW w \in Wallets
               PROVE  FlagExact(i, w)'
    BY FlagByFlag
  <2>4. FlagExact(i, w)
    BY FlagByFlag
  <2>5. CASE i = InstanceOf[r] /\ w = WalletOf[r]
    <3>1. WorkingOn(i, w)' = {r}
      BY <2>1, <2>3, <2>5 DEF WorkingOn
    <3> QED BY <2>2, <2>5, <3>1 DEF FlagExact
  <2>6. CASE ~(i = InstanceOf[r] /\ w = WalletOf[r])
    <3>1. WorkingOn(i, w)' = WorkingOn(i, w)
      BY <2>1, <2>6 DEF WorkingOn
    <3> QED BY <2>2, <2>4, <2>6, <3>1 DEF FlagExact
  <2> QED BY <2>5, <2>6
<1>2. CASE Releases(r)
  <2>1. /\ \A o \in Withdrawals : o # r => (pc'[o] \in Working <=> pc[o] \in Working)
        /\ pc[r] \in Working /\ pc'[r] \notin Working
    BY <1>0, <1>2 DEF Releases
  <2>2. \A i \in Instances, w \in Wallets :
          w \in busy'[i] <=> w \in busy[i] /\ ~(i = InstanceOf[r] /\ w = WalletOf[r])
    BY <1>0, <1>2 DEF Releases, TypeOK
  <2> SUFFICES ASSUME NEW i \in Instances, NEW w \in Wallets
               PROVE  FlagExact(i, w)'
    BY FlagByFlag
  <2>3. FlagExact(i, w)
    BY FlagByFlag
  <2>4. CASE i = InstanceOf[r] /\ w = WalletOf[r]
    <3>1. r \in WorkingOn(i, w)
      BY <2>1, <2>4 DEF WorkingOn
    <3>2. WorkingOn(i, w) = {r}
      BY <2>3, <3>1 DEF FlagExact
    <3>3. WorkingOn(i, w)' = {}
      BY <2>1, <3>2 DEF WorkingOn
    <3> QED BY <2>2, <2>4, <3>3 DEF FlagExact
  <2>5. CASE ~(i = InstanceOf[r] /\ w = WalletOf[r])
    <3>1. WorkingOn(i, w)' = WorkingOn(i, w)
      BY <2>1, <2>5 DEF WorkingOn
    <3> QED BY <2>2, <2>3, <2>5, <3>1 DEF FlagExact
  <2> QED BY <2>4, <2>5
<1>3. CASE KeepsFlag(r)
  BY <1>0, <1>3, FlagKept DEF KeepsFlag
<1> QED BY <1>1, <1>2, <1>3

\* A dead process takes its flags and its calls with it.
LEMMA FlagRestarted ==
    ASSUME TypeOK, BusyIsExact, NEW i \in Instances, Restart(i)
    PROVE  BusyIsExact'
<1>1. \A r \in Withdrawals : InstanceOf[r] = i => pc'[r] \notin Working
  BY DEF Restart, Working, Ended, Calls
<1>2. \A r \in Withdrawals : InstanceOf[r] # i => pc'[r] = pc[r]
  BY DEF Restart, Calls
<1>3. /\ busy'[i] = {}
      /\ \A j \in Instances : j # i => busy'[j] = busy[j]
  BY DEF Restart, TypeOK
<1> QED BY <1>1, <1>2, <1>3 DEF BusyIsExact

-----------------------------------------------------------------------------
(* PaymentsSound is inductive.                                             *)

LEMMA PaidAtKept ==
    ASSUME TypeOK, LndMonotone, NEW r \in Withdrawals, PaidAt(r)
    PROVE  PaidAt(r)'
BY WithdrawTyped DEF PaidAt, LndMonotone, Launched

LEMMA TransferSound ==
    ASSUME TypeOK, PaymentsSound, NEW t \in Transfers,
           OthersUntouched(t), UNCHANGED <<busy, lndVars>>
    PROVE  PaymentsSound'
<1>1. /\ Withdrawals \subseteq (Calls \ Events) \ {t}
      /\ Deposits \subseteq (Calls \ Events) \ {t}
      /\ Events \subseteq Calls \ {t}
  BY WalletServiceAssumption DEF Calls
<1> USE DEF PaymentsSound, OthersUntouched, lndVars
<1>2. \A c \in Calls : OwnLabel(c)'
  BY <1>1 DEF OwnLabel
<1>3. BusyIsExact'
  BY <1>1, FlagKept
<1>4. \A r \in Withdrawals : PaymentInv(r)'
  BY <1>1 DEF PaymentInv, PaidAt, Launched, Settled
<1>5. \A d \in Deposits : InvoiceInv(d)'
  BY <1>1 DEF InvoiceInv, Settled
<1>6. \A e \in Events : ConfirmedInv(e)'
  BY <1>1 DEF ConfirmedInv, Confirmed
<1> QED BY <1>2, <1>3, <1>4, <1>5, <1>6

LEMMA DepositSound ==
    ASSUME TypeOK, PaymentsSound, GuardsHold, NEW d \in Deposits, Deposit(d)
    PROVE  PaymentsSound'
<1>0. /\ d \in Calls \ Events
      /\ Withdrawals \subseteq (Calls \ Events) \ {d}
      /\ Events \subseteq Calls \ {d}
      /\ Deposits \subseteq Calls \ Events
      /\ Deposits \cap Withdrawals = {}
  BY WalletServiceAssumption DEF Calls
<1>1. /\ OthersUntouched(d)
      /\ UNCHANGED <<busy, payment, paidBy>>
      /\ pc'[d] \in DepositPCs \cup Ended
      /\ row'[d] # row[d] => row'[d] = "pending"
      /\ \/ /\ UNCHANGED invoice
            /\ pc'[d] \in {"limit", "invoice"} => pc[d] \in {"start", "limit"}
         \/ /\ invoice' = [invoice EXCEPT ![d] = "open"]
            /\ pc[d] = "invoice" /\ pc'[d] = "record"
  BY DepositMoves
<1> USE DEF PaymentsSound, OthersUntouched
<1>2. pc[d] = "invoice" => invoice[d] = "none" /\ ~Settled(d)
  BY <1>0 DEF InvoiceInv, GuardsHold, DepositInv, Settled
<1>3. LndMonotone
  BY <1>1, <1>2 DEF LndMonotone, TypeOK
<1>4. \A c \in Calls : OwnLabel(c)'
  BY <1>0, <1>1 DEF OwnLabel
<1>5. BusyIsExact'
  BY <1>0, <1>1, FlagKept
<1>6. \A r \in Withdrawals : PaymentInv(r)'
  BY <1>0, <1>1, <1>3, PaidAtKept DEF PaymentInv, Settled
<1>7. \A o \in Deposits : InvoiceInv(o)'
  <2>1. ASSUME NEW o \in Deposits, o # d
        PROVE  InvoiceInv(o)'
    BY <1>0, <1>1, <2>1 DEF InvoiceInv, Settled, TypeOK
  <2>2. InvoiceInv(d)'
    BY <1>0, <1>1, <1>2 DEF InvoiceInv, Settled, DepositPCs, Ended
  <2> QED BY <2>1, <2>2
<1>8. \A e \in Events : ConfirmedInv(e)'
  BY <1>0, <1>1, <1>3, EventTyped DEF ConfirmedInv, Confirmed, LndMonotone
<1> QED BY <1>4, <1>5, <1>6, <1>7, <1>8

LEMMA EventSound ==
    ASSUME TypeOK, PaymentsSound, NEW e \in Events, ImpactDeposit(e)
    PROVE  PaymentsSound'
<1>0. /\ e \in Calls /\ DepositOf[e] \in Deposits
      /\ Withdrawals \subseteq (Calls \ Events) \ {e, DepositOf[e]}
      /\ Deposits \subseteq (Calls \ Events) \ {e}
  BY EventTyped, WalletServiceAssumption DEF Calls
<1>1. /\ \A o \in Calls : o # e => pc'[o] = pc[o]
      /\ UNCHANGED <<busy, lndVars>>
      /\ pc'[e] \in EventPCs \cup Ended
      /\ pc'[e] \in EventPCs => pc[e] \in EventPCs \/ Confirmed(DepositOf[e])
      /\ \A o \in Calls \ Events :
           row'[o] # row[o] => o = DepositOf[e] /\ pc[e] = "commitDeposit"
  BY EventMoves
<1> USE DEF PaymentsSound, lndVars
<1>2. \A c \in Calls : OwnLabel(c)'
  BY <1>0, <1>1 DEF OwnLabel
<1>3. BusyIsExact'
  BY <1>0, <1>1, FlagKept
<1>4. \A r \in Withdrawals : PaymentInv(r)'
  BY <1>0, <1>1 DEF PaymentInv, PaidAt, Launched, Settled
<1>5. \A d \in Deposits : InvoiceInv(d)'
  BY <1>0, <1>1 DEF InvoiceInv, Settled, ConfirmedInv, Confirmed, EventPCs
<1>6. \A f \in Events : ConfirmedInv(f)'
  BY <1>0, <1>1 DEF ConfirmedInv, Confirmed, Calls
<1> QED BY <1>2, <1>3, <1>4, <1>5, <1>6

LEMMA WithdrawSound ==
    ASSUME TypeOK, PaymentsSound, NEW r \in Withdrawals, Withdraw(r)
    PROVE  PaymentsSound'
<1>0. /\ r \in Calls
      /\ Deposits \subseteq (Calls \ Events) \ {r}
      /\ Events \subseteq Calls \ {r}
      /\ Withdrawals \subseteq Calls \ Events
  BY WalletServiceAssumption DEF Calls
<1>1. /\ OthersUntouched(r)
      /\ pc'[r] \in WithdrawPCs \cup Ended
      /\ UNCHANGED invoice
      /\ \A i \in Invoices : payment[i] = "paid"
                               => payment'[i] = "paid" /\ paidBy'[i] = paidBy[i]
      /\ Acquires(r) \/ Releases(r) \/ KeepsFlag(r)
      /\ pc'[r] = "commitPaid" => pc[r] = "commitPaid" \/ PaidAt(r)
      /\ row'[r] # row[r] => pc[r] = "commitPaid"
  BY WithdrawMoves
<1> USE DEF PaymentsSound, OthersUntouched
<1>2. LndMonotone
  BY <1>1 DEF LndMonotone
<1>3. \A c \in Calls : OwnLabel(c)'
  BY <1>0, <1>1 DEF OwnLabel
<1>4. BusyIsExact'
  BY <1>1, FlagMoved
<1>5. \A o \in Withdrawals : PaymentInv(o)'
  BY <1>0, <1>1, <1>2, PaidAtKept DEF PaymentInv, Settled
<1>6. \A d \in Deposits : InvoiceInv(d)'
  BY <1>0, <1>1 DEF InvoiceInv, Settled
<1>7. \A e \in Events : ConfirmedInv(e)'
  BY <1>0, <1>1 DEF ConfirmedInv, Confirmed
<1> QED BY <1>3, <1>4, <1>5, <1>6, <1>7

LEMMA EnvironmentSound ==
    ASSUME TypeOK, PaymentsSound, GuardsHold, Environment
    PROVE  PaymentsSound'
<1>0. /\ Deposits \subseteq Calls \ (Events \cup Withdrawals)
      /\ Events \subseteq Calls \ Withdrawals
      /\ Withdrawals \subseteq Calls \ Events
  BY WalletServiceAssumption DEF Calls
<1>1. /\ UNCHANGED row
      /\ \A c \in Calls :
           pc'[c] # pc[c] => pc'[c] \in Ended \/ (c \in Withdrawals /\ pc'[c] = "release")
      /\ LndMonotone
      /\ \A d \in Deposits : invoice[d] = "none" /\ row[d] = "none" => invoice'[d] = "none"
      /\ \/ /\ UNCHANGED busy
            /\ \A r \in Withdrawals :
                 OwnLabel(r) => (pc[r] \in Working <=> pc'[r] \in Working)
         \/ \E i \in Instances : Restart(i)
  BY EnvironmentMoves
<1> USE DEF PaymentsSound
<1>2. \A c \in Calls : OwnLabel(c)'
  BY <1>0, <1>1 DEF OwnLabel, WithdrawPCs
<1>3. BusyIsExact'
  BY <1>0, <1>1, FlagKept, FlagRestarted
<1>4. \A r \in Withdrawals : PaymentInv(r)'
  BY <1>0, <1>1, PaidAtKept DEF PaymentInv, Settled, Ended
<1>5. \A d \in Deposits : InvoiceInv(d)'
  BY <1>0, <1>1 DEF InvoiceInv, Settled, Ended, LndMonotone, GuardsHold, DepositInv
<1>6. \A e \in Events : ConfirmedInv(e)'
  BY <1>0, <1>1, EventTyped DEF ConfirmedInv, Confirmed, LndMonotone, EventPCs, Ended
<1> QED BY <1>2, <1>3, <1>4, <1>5, <1>6

LEMMA InitSound == Init => PaymentsSound
<1> SUFFICES ASSUME Init PROVE PaymentsSound
  OBVIOUS
<1>1. \A c \in Calls : pc[c] = "start"
  BY DEF Init
<1>2. \A r \in Withdrawals \cup Deposits : pc[r] = "start" /\ row[r] = "none"
  BY WalletServiceAssumption DEF Init, Calls
<1>3. BusyIsExact
  BY <1>2 DEF Init, BusyIsExact, Working
<1> QED BY <1>1, <1>2, <1>3
        DEF Init, PaymentsSound, OwnLabel, PaymentInv, InvoiceInv, ConfirmedInv, Settled,
            EventPCs, Calls

LEMMA StepSound ==
    ASSUME TypeOK, GuardsHold, PaymentsSound, [Next]_vars
    PROVE  PaymentsSound'
<1>1. CASE UNCHANGED vars
  BY <1>1 DEF vars, walletVars, callVars, lndVars, PaymentsSound, OwnLabel, BusyIsExact,
     PaymentInv, PaidAt, Launched, InvoiceInv, ConfirmedInv, Confirmed, Settled
<1>2. ASSUME NEW b \in Batches, CreatePayRequests(b)
      PROVE  PaymentsSound'
  BY <1>2 DEF CreatePayRequests, callVars, lndVars, PaymentsSound, OwnLabel, BusyIsExact,
     PaymentInv, PaidAt, Launched, InvoiceInv, ConfirmedInv, Confirmed, Settled
<1>3. ASSUME NEW t \in Transfers,
             \/ Transfer(t)
             \/ t \in Settlements /\ PayRequest(t)
             \/ t \in Payments /\ StartPayUser(t)
      PROVE  PaymentsSound'
  <2>1. OthersUntouched(t) /\ UNCHANGED <<busy, lndVars>>
    BY <1>3, TransferMoves
  <2> QED BY <2>1, TransferSound
<1> QED BY <1>1, <1>2, <1>3, DepositSound, EventSound, WithdrawSound, EnvironmentSound
        DEF Next, Quiescent, Transfers

LEMMA PaymentsAlwaysSound == Spec => []PaymentsSound
<1>1. TypeOK /\ GuardsHold /\ PaymentsSound /\ [Next]_vars => PaymentsSound'
  BY StepSound
<1> QED BY <1>1, InitSound, TypeCorrect, GuardsAlwaysHold, PTL DEF Spec

-----------------------------------------------------------------------------
(* The properties.                                                         *)

(***************************************************************************)
(* busyWallets of an instance names exactly the wallets its withdrawals    *)
(* are working on, one call each: no early throw between setWalletBusy and *)
(* the finally block leaves a wallet busy, no call clears another's flag   *)
(* (lock.service.ts:9-23, wallet.service.ts:435-437, 512-515).             *)
(***************************************************************************)
THEOREM BusyFlagsAreExact == Spec => []BusyIsExact
<1>1. PaymentsSound => BusyIsExact
  BY DEF PaymentsSound
<1> QED BY <1>1, PaymentsAlwaysSound, PTL

\* The invariant knows of every charge that it was paid.
LEMMA PaidBeforeCharged == PaymentsSound => ChargedWasPaid
<1> SUFFICES ASSUME PaymentsSound PROVE ChargedWasPaid
  OBVIOUS
<1>1. \A r \in Withdrawals : Settled(r) => PaidAt(r)
  BY DEF PaymentsSound, PaymentInv
<1>2. Foreign \cap Deposits = {}
  BY WalletServiceAssumption
<1> QED BY <1>1, <1>2 DEF ChargedWasPaid, PaidAt, Launched

(***************************************************************************)
(* A withdrawal is charged only when its invoice was paid, and a payment   *)
(* to another node is charged to one withdrawal, whatever timers, expired  *)
(* transactions and restarts come between lightning.pay and the commit of  *)
(* payWithdrawInvoice (wallet.service.ts:494-507).                         *)
(***************************************************************************)
THEOREM ChargesArePaid == Spec => []ChargedWasPaid
<1>1. PaymentsSound => ChargedWasPaid
  BY PaidBeforeCharged
<1> QED BY <1>1, PaymentsAlwaysSound, PTL

(***************************************************************************)
(* A deposit is credited only when its invoice was settled at LND, by an   *)
(* outside payer or by a withdrawal (wallet.service.ts:348-350, 383-397,   *)
(* lightning.service.ts:199-201).                                          *)
(***************************************************************************)
THEOREM CreditsAreSettled == Spec => []CreditedWasSettled
<1>1. PaymentsSound => CreditedWasSettled
  BY DEF PaymentsSound, InvoiceInv, CreditedWasSettled
<1> QED BY <1>1, PaymentsAlwaysSound, PTL

-----------------------------------------------------------------------------
(* Calls that are answered in time.                                       *)

\* What others do leaves a withdrawal its transaction and its payment.
LEMMA AnswerKept ==
    ASSUME NEW r \in Withdrawals, AnswerInv(r),
           pc'[r] \in {pc[r], "killed"}, r \in open' <=> r \in open, row'[r] = row[r],
           Launched(r)' => Launched(r)
    PROVE  AnswerInv(r)'
BY DEF AnswerInv, Settled

LEMMA AnswerUndisturbed ==
    ASSUME NEW r \in Withdrawals, AnswerInv(r), Undisturbed(r), Launched(r)' => Launched(r)
    PROVE  AnswerInv(r)'
<1>1. r \in Calls \ Events /\ r \notin Deposits
  BY KindsDisjoint
<1>2. pc'[r] = pc[r] /\ (r \in open' <=> r \in open) /\ row'[r] = row[r]
  BY <1>1 DEF Undisturbed
<1> QED BY <1>2, AnswerKept

\* The call's own steps: the payment is launched while the transaction is open, a
\* payment that was launched is not rejected, a payment that was made is charged.
LEMMA AnswerOwnStep ==
    ASSUME TypeOK, NEW r \in Undelayed, AnswerInv(r), OwnLabel(r), Withdraw(r)
    PROVE  AnswerInv(r)'
<1>0. /\ r \in Withdrawals /\ r \in Calls /\ r \in Calls \ Events /\ r \notin Late
      /\ WalletOf[r] \in Rows /\ Target[r] \in Invoices
  BY WithdrawTyped, KindsDisjoint DEF Undelayed, Rows
<1> USE Moved DEF AnswerInv, At, Settled, walletVars, lndVars, Launched
<1>1. CASE ReadWithdrawWallet(r)
  BY <1>0, <1>1 DEF ReadWithdrawWallet
<1>2. CASE SetWalletBusy(r)
  BY <1>0, <1>2 DEF SetWalletBusy
<1>3. CASE DecodeInvoice(r)
  BY <1>0, <1>3 DEF DecodeInvoice
<1>4. CASE WithdrawRefused(r)
  BY <1>0, <1>4 DEF WithdrawRefused
<1>5. CASE BeginWithdraw(r)
  BY <1>0, <1>5 DEF BeginWithdraw
<1>6. CASE DebitWithdraw(r)
  <2>1. GuardedUpdate(r, WalletOf[r], DebitMatches(WalletOf[r], WithdrawTotal(r)), "send", "release")
    BY <1>6 DEF DebitWithdraw
  <2>2. (pc'[r] = "send" /\ r \in open') \/ pc'[r] = "release"
    BY <1>0, <2>1 DEF GuardedUpdate, Fail, DB!Lock
  <2> QED BY <1>0, <1>6, <2>2 DEF DebitWithdraw
<1>7. CASE SendPayment(r)
  BY <1>0, <1>7 DEF SendPayment
<1>8. CASE PayInvoiceResolves(r)
  BY <1>0, <1>8 DEF PayInvoiceResolves
<1>9. CASE PayInvoiceRejects(r)
  BY <1>0, <1>9 DEF PayInvoiceRejects, Fail, PaymentRejected
<1>10. CASE CommitWithdraw(r)
  BY <1>0, <1>10 DEF CommitWithdraw, TypeOK
<1>11. CASE ClearWalletBusy(r)
  BY <1>0, <1>11 DEF ClearWalletBusy
<1> QED BY <1>1, <1>2, <1>3, <1>4, <1>5, <1>6, <1>7, <1>8, <1>9, <1>10, <1>11 DEF Withdraw

\* Only a call of its own launches a payment for a withdrawal.
LEMMA OthersLaunch ==
    ASSUME TypeOK, NEW r \in Withdrawals, NEW o \in Withdrawals, o # r, Withdraw(o)
    PROVE  Launched(r)' => Launched(r)
<1>0. Target[r] \in Invoices /\ Target[o] \in Invoices
  BY WithdrawTyped
<1> USE DEF Launched, lndVars
<1>1. CASE SendPayment(o)
  BY <1>0, <1>1 DEF SendPayment, TypeOK
<1>2. CASE ~SendPayment(o)
  BY <1>2 DEF Withdraw, ReadWithdrawWallet, SetWalletBusy, DecodeInvoice, WithdrawRefused,
     BeginWithdraw, DebitWithdraw, PayInvoiceResolves, PayInvoiceRejects, CommitWithdraw,
     ClearWalletBusy
<1> QED BY <1>1, <1>2

\* PostgreSQL has no reason to end the transaction: it is no part of a deadlock,
\* because a call that pays waits for no row.
LEMMA PayingIsNotDeadlocked ==
    ASSUME NEW r \in Calls, pc[r] \in {"send", "paying", "commitPaid"}
    PROVE  ~Deadlocked(r)
<1>1. WantedRow(r) = {}
  BY DEF WantedRow
<1>2. \A b : ~WaitsFor(r, b)
  BY <1>1 DEF WaitsFor
<1> QED BY <1>2 DEF Deadlocked

LEMMA AnswerInEnvironment ==
    ASSUME TypeOK, NEW r \in Undelayed, AnswerInv(r), Environment
    PROVE  AnswerInv(r)'
<1>0. /\ r \in Withdrawals /\ r \in Calls /\ r \notin Expiring
      /\ Target[r] \in Invoices /\ r # NoClient
  BY WithdrawTyped, WalletServiceAssumption DEF Undelayed
<1> USE DEF Launched, walletVars, callVars, lndVars
<1>1. ASSUME NEW c \in Calls, LoseTransaction(c)
      PROVE  AnswerInv(r)'
  <2>1. UNCHANGED <<row, pc, paidBy>> /\ open' = open \ {c}
    BY <1>1 DEF LoseTransaction, DB!End
  <2>2. c = r => pc[r] \notin {"send", "paying", "commitPaid"}
    BY <1>0, <1>1, PayingIsNotDeadlocked DEF LoseTransaction, At
  <2> QED BY <2>1, <2>2 DEF AnswerInv, Settled
<1>2. ASSUME NEW c \in Calls, OperationOnLostTransaction(c)
      PROVE  AnswerInv(r)'
  <2>1. UNCHANGED <<row, open, paidBy>> /\ \A o \in Calls : o # c => pc'[o] = pc[o]
    BY <1>2, Moved DEF OperationOnLostTransaction
  <2>2. CASE c = r
    <3>1. pc'[r] = "release"
      BY <1>0, <1>2, <2>2, Moved DEF OperationOnLostTransaction
    <3>2. pc[r] \in InTransaction /\ r \notin open
      BY <1>2, <2>2 DEF OperationOnLostTransaction
    <3> QED BY <2>1, <3>1, <3>2 DEF AnswerInv, Settled, InTransaction
  <2> QED BY <1>0, <2>1, <2>2, AnswerKept
<1>3. ASSUME NEW i \in Instances, Restart(i)
      PROVE  AnswerInv(r)'
  BY <1>0, <1>3, AnswerKept DEF Restart
<1>4. ASSUME NEW w \in Wallets, DisableWallet(w)
      PROVE  AnswerInv(r)'
  BY <1>0, <1>4, AnswerKept DEF DisableWallet
<1>5. ASSUME NEW d \in Deposits, InvoicePaid(d)
      PROVE  AnswerInv(r)'
  BY <1>0, <1>5, AnswerKept DEF InvoicePaid
<1>6. ASSUME NEW i \in Invoices, PaymentSucceeds(i) \/ PaymentFails(i)
      PROVE  AnswerInv(r)'
  <2>1. UNCHANGED <<row, pc, open>>
    BY <1>6 DEF PaymentSucceeds, PaymentFails
  <2>2. Launched(r)' => Launched(r)
    BY <1>0, <1>6 DEF PaymentSucceeds, PaymentFails, TypeOK
  <2> QED BY <1>0, <2>1, <2>2, AnswerKept
<1> QED BY <1>1, <1>2, <1>3, <1>4, <1>5, <1>6 DEF Environment

LEMMA StepAnswers ==
    ASSUME TypeOK, GuardsHold, PaymentsSound, AnswersHold, [Next]_vars
    PROVE  AnswersHold'
<1> SUFFICES ASSUME NEW r \in Undelayed PROVE AnswerInv(r)'
  BY DEF AnswersHold
<1>0. /\ r \in Withdrawals /\ r \in Calls /\ AnswerInv(r) /\ OwnLabel(r)
      /\ r \notin Transfers \cup Deposits \cup Events
  BY KindsDisjoint DEF AnswersHold, Undelayed, PaymentsSound
<1> USE DEF Launched, lndVars
<1>1. CASE UNCHANGED vars
  BY <1>0, <1>1, AnswerKept DEF vars, walletVars, callVars
<1>2. ASSUME NEW b \in Batches, CreatePayRequests(b)
      PROVE  AnswerInv(r)'
  BY <1>0, <1>2, AnswerKept DEF CreatePayRequests, callVars
<1>3. ASSUME NEW t \in Transfers,
             \/ Transfer(t)
             \/ t \in Settlements /\ PayRequest(t)
             \/ t \in Payments /\ StartPayUser(t)
      PROVE  AnswerInv(r)'
  <2>1. Undisturbed(r)
    BY <1>0, <1>3, TransferUndisturbing, RequestUndisturbing, StartPayUserUndisturbing
  <2>2. UNCHANGED paidBy
    BY <1>3, TransferMoves
  <2> QED BY <1>0, <2>1, <2>2, AnswerUndisturbed
<1>4. ASSUME NEW d \in Deposits, Deposit(d)
      PROVE  AnswerInv(r)'
  <2>1. Undisturbed(r) /\ UNCHANGED paidBy
    BY <1>0, <1>4, DepositUndisturbing, DepositMoves
  <2> QED BY <1>0, <2>1, AnswerUndisturbed
<1>5. ASSUME NEW e \in Events, ImpactDeposit(e)
      PROVE  AnswerInv(r)'
  <2>1. Undisturbed(r) /\ UNCHANGED paidBy
    BY <1>0, <1>5, EventUndisturbing, EventMoves
  <2> QED BY <1>0, <2>1, AnswerUndisturbed
<1>6. ASSUME NEW o \in Withdrawals, Withdraw(o)
      PROVE  AnswerInv(r)'
  <2>1. CASE o = r
    BY <1>0, <1>6, <2>1, AnswerOwnStep
  <2>2. CASE o # r
    <3>1. Undisturbed(r) /\ (Launched(r)' => Launched(r))
      BY <1>0, <1>6, <2>2, WithdrawUndisturbing, OthersLaunch
    <3> QED BY <1>0, <3>1, AnswerUndisturbed
  <2> QED BY <2>1, <2>2
<1>7. CASE Environment
  BY <1>0, <1>7, AnswerInEnvironment
<1> QED BY <1>1, <1>2, <1>3, <1>4, <1>5, <1>6, <1>7 DEF Next, Quiescent, Transfers

\* Nothing has been launched when the program starts.
LEMMA InitAnswers == Init => AnswersHold
<1> SUFFICES ASSUME Init, NEW r \in Undelayed PROVE AnswerInv(r)
  BY DEF AnswersHold
<1>1. r \in Withdrawals /\ r \in Calls /\ r # NoClient
  BY WalletServiceAssumption DEF Undelayed, Calls
<1>2. pc[r] = "start" /\ ~Launched(r)
  BY <1>1, WalletServiceAssumption DEF Init, Launched
<1> QED BY <1>2 DEF AnswerInv

(***************************************************************************)
(* A withdrawal whose payment LND reports in time, in a process that lives *)
(* and with a transaction that does not expire, is charged when it is over *)
(* and its invoice was paid, whatever the other calls, processes and       *)
(* PostgreSQL's deadlock detection do (wallet.service.ts:463-515).         *)
(***************************************************************************)
THEOREM AnsweredCallsAreCharged == Spec => []AnsweredIsCharged
<1>1. Init => AnswersHold
  BY InitAnswers
<1>2. TypeOK /\ GuardsHold /\ PaymentsSound /\ AnswersHold /\ [Next]_vars => AnswersHold'
  BY StepAnswers
<1>3. AnswersHold => AnsweredIsCharged
  BY DEF AnswersHold, AnswerInv, Undelayed, AnsweredIsCharged, PaidOut
<1> QED BY <1>1, <1>2, <1>3, TypeCorrect, GuardsAlwaysHold, PaymentsAlwaysSound, PTL DEF Spec

-----------------------------------------------------------------------------
(* Calls that get no connection.                                           *)

\* A call that gives up is not past its first read: it holds nothing that another call,
\* LND or the busy flag relies on, and its transaction is rolled back.
LEMMA GivenUp ==
    ASSUME TypeOK, NEW c \in Calls, PoolTimeout(c)
    PROVE  /\ pc[c] \in {"start", "payer", "payee", "limit"}
           /\ pc'[c] = "failed" /\ \A o \in Calls : o # c => pc'[o] = pc[o]
           /\ c \notin open' /\ \A o \in Calls : o # c => (o \in open' <=> o \in open)
           /\ DB!End(c) /\ GoTo(c, "failed")
           /\ UNCHANGED <<walletVars, snap, busy, lndVars, restarts>>
<1>1. DB!End(c) /\ GoTo(c, "failed") /\ c \in Reads \cup Begins
  BY DEF PoolTimeout, Fail
<1>2. pc[c] \in {"start", "payer", "payee", "limit"}
  BY <1>1 DEF Reads, Begins, At
<1>3. pc'[c] = "failed" /\ \A o \in Calls : o # c => pc'[o] = pc[o]
  BY <1>1, Moved
<1>4. c \notin open' /\ \A o \in Calls : o # c => (o \in open' <=> o \in open)
  BY <1>1 DEF DB!End
<1> QED BY <1>1, <1>2, <1>3, <1>4 DEF PoolTimeout

LEMMA GivingUpTyped ==
    ASSUME TypeOK, NEW c \in Calls, PoolTimeout(c)
    PROVE  TypeOK'
<1>1. "failed" \in PCs
  BY Labels
<1>2. /\ DB!End(c) /\ GoTo(c, "failed")
      /\ UNCHANGED <<walletVars, snap, busy, lndVars, restarts>>
  BY GivenUp
<1>3. DB!DatabaseTypeOK' /\ pc' \in [Calls -> PCs]
  BY <1>1, <1>2, DatabaseTyped, ControlTyped DEF TypeOK
<1> QED BY <1>2, <1>3 DEF TypeOK, walletVars, lndVars

LEMMA GivingUpKeepsGuards ==
    ASSUME TypeOK, GuardsHold, NEW c \in Calls, PoolTimeout(c)
    PROVE  GuardsHold'
<1>1. /\ DB!End(c) /\ GoTo(c, "failed") /\ pc'[c] = "failed" /\ c \notin open'
      /\ pc[c] \in {"start", "payer", "payee", "limit"}
      /\ UNCHANGED <<walletVars, snap>>
  BY GivenUp
<1>2. \A o \in Calls : o # c => Undisturbed(o)
  BY <1>1, OwnTransaction, ControlUndisturbed, Labels
<1>3. c \in Transfers => TransferInv(c)'
  BY <1>1 DEF GuardsHold, TransferInv, TransferChecked, TransferPCs, walletVars
<1>4. c \in Deposits => DepositInv(c)'
  BY <1>1 DEF GuardsHold, DepositInv, DepositPCs, walletVars
<1>5. c \in Events => EventInv(c)'
  BY <1>1 DEF EventInv
<1>6. c \in Withdrawals => WithdrawInv(c)'
  BY <1>1 DEF GuardsHold, WithdrawInv, walletVars
<1> QED BY <1>2, <1>3, <1>4, <1>5, <1>6, OwnKept

LEMMA GivingUpKeepsPayments ==
    ASSUME TypeOK, PaymentsSound, NEW c \in Calls, PoolTimeout(c)
    PROVE  PaymentsSound'
<1>1. /\ pc[c] \in {"start", "payer", "payee", "limit"} /\ pc'[c] = "failed"
      /\ \A o \in Calls : o # c => pc'[o] = pc[o]
      /\ UNCHANGED <<row, busy, invoice, payment, paidBy>>
  BY GivenUp DEF walletVars, lndVars
<1>2. \A o \in Calls : OwnLabel(o)'
  BY <1>1 DEF PaymentsSound, OwnLabel, Ended
<1>3. BusyIsExact'
  <2>1. \A r \in Withdrawals : pc[r] \in Working <=> pc'[r] \in Working
    BY <1>1, KindsDisjoint DEF Working
  <2> QED BY <1>1, <2>1, FlagKept DEF PaymentsSound
<1>4. \A r \in Withdrawals : PaymentInv(r)'
  BY <1>1, KindsDisjoint DEF PaymentsSound, PaymentInv, PaidAt, Launched, Settled
<1>5. \A d \in Deposits : InvoiceInv(d)'
  BY <1>1, KindsDisjoint DEF PaymentsSound, InvoiceInv, Settled
<1>6. \A e \in Events : ConfirmedInv(e)'
  BY <1>1, KindsDisjoint DEF PaymentsSound, ConfirmedInv, Confirmed, EventPCs
<1> QED BY <1>2, <1>3, <1>4, <1>5, <1>6 DEF PaymentsSound

LEMMA GivingUpKeepsAnswers ==
    ASSUME TypeOK, AnswersHold, NEW c \in Calls, PoolTimeout(c)
    PROVE  AnswersHold'
<1> SUFFICES ASSUME NEW r \in Undelayed PROVE AnswerInv(r)'
  BY DEF AnswersHold
<1>1. r \in Calls /\ AnswerInv(r)
  BY KindsDisjoint DEF Undelayed, AnswersHold
<1>2. /\ pc[c] \in {"start", "payer", "payee", "limit"} /\ pc'[c] = "failed"
      /\ \A o \in Calls : o # c => pc'[o] = pc[o] /\ (o \in open' <=> o \in open)
      /\ UNCHANGED <<row, paidBy>>
  BY GivenUp DEF walletVars, lndVars
<1> QED BY <1>1, <1>2 DEF AnswerInv, Launched, Settled

LEMMA GivingUpKeepsBalances ==
    ASSUME TypeOK, NEW c \in Calls, PoolTimeout(c)
    PROVE  /\ BalanceInRange => BalanceInRange'
           /\ BalanceInv => BalanceInv'
           /\ RequestPaidOnce => RequestPaidOnce'
<1>1. UNCHANGED <<balance, row, request, snap>>
  BY GivenUp DEF walletVars
<1>2. SatsOf' = SatsOf
  <2>1. \A r \in Calls \ Events : SatsOf'[r] = SatsOf[r]
    BY <1>1 DEF SatsOf, WithdrawTotal, WithdrawSats
  <2> QED BY <2>1 DEF SatsOf
<1>3. \A S : SumSettled(S)' = SumSettled(S)
  BY <1>1, <1>2 DEF SumSettled, Settled
<1>4. BalanceInv => BalanceInv'
  BY <1>1, <1>3 DEF BalanceInv, BalanceExplained, SettledRows, Settled
<1> QED BY <1>1, <1>4 DEF BalanceInRange, RequestPaidOnce, Settled

-----------------------------------------------------------------------------

\* What is invariant of the service, whatever connections its processes have.
ServiceSound ==
    /\ TypeOK /\ GuardsHold
    /\ PaymentsSound /\ AnswersHold
    /\ BalanceInRange /\ BalanceInv /\ RequestPaidOnce

LEMMA PooledAlwaysSound == PooledSpec => []ServiceSound
<1>1. ServiceSound /\ [Next]_vars => ServiceSound'
  BY StepTyped, StepKeeps, StepSound, StepAnswers, StepInRange, StepExplained, StepPaysOnce
    DEF ServiceSound
<1>2. ASSUME ServiceSound, [PooledNext]_vars PROVE ServiceSound'
  <2>1. ASSUME NEW c \in Calls, PoolTimeout(c) PROVE ServiceSound'
    BY <1>2, <2>1, GivingUpTyped, GivingUpKeepsGuards, GivingUpKeepsPayments,
      GivingUpKeepsAnswers, GivingUpKeepsBalances DEF ServiceSound
  <2> QED BY <1>1, <1>2, <2>1 DEF PooledNext
<1>3. Init => ServiceSound
  BY InitTyped, InitKeeps, InitSound, InitAnswers, InitInRange, InitExplained, InitPaysOnce
    DEF ServiceSound
<1> QED BY <1>2, <1>3, PTL DEF PooledSpec

(***************************************************************************)
(* Whatever the size of the pool, calls that wait for a connection in vain *)
(* lose nobody's money: a call that Prisma's pool_timeout or maxWait       *)
(* (wallet.service.ts:11) ends gives up before its first update, so these  *)
(* safety properties of the service survive an exhausted pool.             *)
(***************************************************************************)
THEOREM ExhaustedPoolIsHarmless ==
    PooledSpec => [](/\ BalanceInRange /\ BalanceExplained /\ RequestPaidOnce
                     /\ BusyIsExact /\ ChargedWasPaid /\ CreditedWasSettled
                     /\ AnsweredIsCharged)
<1>1. ServiceSound =>
        /\ BalanceInRange /\ BalanceExplained /\ RequestPaidOnce
        /\ BusyIsExact /\ ChargedWasPaid /\ CreditedWasSettled
        /\ AnsweredIsCharged
  <2>1. AnswersHold => AnsweredIsCharged
    BY DEF AnswersHold, AnswerInv, Undelayed, AnsweredIsCharged, PaidOut
  <2>2. PaymentsSound => BusyIsExact /\ CreditedWasSettled
    BY DEF PaymentsSound, InvoiceInv, CreditedWasSettled
  <2> QED BY <2>1, <2>2, PaidBeforeCharged DEF ServiceSound, BalanceInv
<1> QED BY <1>1, PooledAlwaysSound, PTL

(***************************************************************************)
(* And every commit still is one operation of the ledger: a call that gets *)
(* no connection leaves no trace in it (wallet.service.ts:336-337,         *)
(* 539-541, 691-692).                                                      *)
(***************************************************************************)
THEOREM PooledServiceImplementsLedger == PooledSpec => LedgerSpec
<1>1. Init => Ledger!LedgerInit
  BY InitLedger
<1>2. ASSUME ServiceSound, [PooledNext]_vars
      PROVE  [Ledger!LedgerNext]_Ledger!ledgerVars
  <2>1. CASE [Next]_vars
    BY <1>2, <2>1, CommitsAreOperations DEF ServiceSound
  <2>2. ASSUME NEW c \in Calls, PoolTimeout(c)
        PROVE  UNCHANGED Ledger!ledgerVars
    BY <1>2, <2>2, GivenUp DEF ServiceSound, walletVars, Ledger!ledgerVars
  <2> QED BY <1>2, <2>1, <2>2 DEF PooledNext
<1>3. ServiceSound /\ [PooledNext]_vars => [Ledger!LedgerNext]_Ledger!ledgerVars
  BY <1>2
<1> QED BY <1>1, <1>3, PooledAlwaysSound, PTL
        DEF PooledSpec, LedgerSpec, Ledger!LedgerSpec

\* Nor does an exhausted pool get a disabled wallet debited (wallet.service.ts:474, 546,
\* 706).
THEOREM PooledWalletsAreNotDebited == PooledSpec => DisabledIsNotDebited
<1>1. ASSUME ServiceSound, [PooledNext]_vars, NEW w \in disabled
      PROVE  balance'[w] >= balance[w]
  <2>1. CASE [Next]_vars
    BY <1>1, <2>1, StepDoesNotDebit DEF ServiceSound
  <2>2. ASSUME NEW c \in Calls, PoolTimeout(c)
        PROVE  balance'[w] >= balance[w]
    <3>1. UNCHANGED balance /\ balance[w] \in Int
      BY <1>1, <2>2, GivenUp DEF ServiceSound, TypeOK, walletVars
    <3> QED BY <3>1
  <2> QED BY <1>1, <2>1, <2>2 DEF PooledNext
<1>2. ServiceSound /\ [PooledNext]_vars => [\A w \in disabled : balance'[w] >= balance[w]]_vars
  BY <1>1
<1> QED BY <1>2, PooledAlwaysSound, PTL DEF PooledSpec, DisabledIsNotDebited
==============================================================================
