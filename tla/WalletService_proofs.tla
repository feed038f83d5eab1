------------------------ MODULE WalletService_proofs -------------------------
(***************************************************************************)
(* Proofs about WalletService for every set of wallets, calls, instances   *)
(* and invoices, every amount and every integer limit.                     *)
(***************************************************************************)
EXTENDS WalletInvariant, Amounts_proofs

-----------------------------------------------------------------------------
(* Typing.                                                                 *)

LEMMA TransferTyped ==
    ASSUME NEW t \in Transfers
    PROVE  /\ t \in Calls
           /\ Payer(t) \in Wallets
           /\ Payee(t) \in Wallets
           /\ TransferSats(t) \in Int
           /\ t \in Settlements => RequestOf[t] \in PayRequests /\ PositiveSats(TransferSats(t))
BY WalletServiceAssumption DEF Transfers, Calls, Payer, Payee, TransferSats

LEMMA WithdrawTyped ==
    ASSUME TypeOK, NEW r \in Withdrawals
    PROVE  /\ r \in Calls
           /\ WalletOf[r] \in Wallets
           /\ Target[r] \in Invoices
           /\ InstanceOf[r] \in Instances
           /\ WithdrawSats(r) \in Int
           /\ WithdrawTotal(r) \in Int
<1>1. /\ r \in Calls /\ WalletOf[r] \in Wallets
      /\ Target[r] \in Invoices /\ InstanceOf[r] \in Instances
  BY WalletServiceAssumption DEF Calls
<1>2. snap[r] \in Int /\ Amount[r] \in Int
  BY WalletServiceAssumption DEF TypeOK
<1>3. FeeReserve(snap[r]) \in Int
  BY <1>2, FeeReserveRounds
<1>4. WithdrawSats(r) \in Int
  BY <1>2, <1>3 DEF WithdrawSats, SweepAmount
<1>5. WithdrawTotal(r) \in Int
  BY <1>4, FeeReserveRounds DEF WithdrawTotal, Total
<1> QED BY <1>1, <1>4, <1>5

LEMMA DepositTyped ==
    ASSUME NEW d \in Deposits
    PROVE  /\ d \in Calls
           /\ d \in Rows
           /\ d \in Invoices
           /\ WalletOf[d] \in Wallets
           /\ Amount[d] \in Int
           /\ InstanceOf[d] \in Instances
BY WalletServiceAssumption DEF Calls, Rows, Invoices

LEMMA EventTyped ==
    ASSUME NEW e \in Events
    PROVE  /\ e \in Calls
           /\ DepositOf[e] \in Deposits
           /\ WalletOf[DepositOf[e]] \in Wallets
           /\ Amount[DepositOf[e]] \in Int
BY WalletServiceAssumption DEF Calls

\* The variables a transaction step changes keep their types.
LEMMA DatabaseTyped ==
    ASSUME TypeOK, NEW c \in Calls, NEW label \in PCs
    PROVE  /\ GoTo(c, label) => pc' \in [Calls -> PCs]
           /\ DB!Begin(c) => DB!DatabaseTypeOK'
           /\ DB!End(c) => DB!DatabaseTypeOK'
           /\ \A x \in Rows : DB!Lock(c, x) => DB!DatabaseTypeOK'
           /\ UNCHANGED <<holder, open>> => DB!DatabaseTypeOK'
<1> USE DEF TypeOK, DB!DatabaseTypeOK
<1>1. GoTo(c, label) => pc' \in [Calls -> PCs]
  BY DEF GoTo
<1>2. DB!Begin(c) => DB!DatabaseTypeOK'
  BY DEF DB!Begin
<1>3. DB!End(c) => DB!DatabaseTypeOK'
  BY DEF DB!End
<1>4. \A x \in Rows : DB!Lock(c, x) => DB!DatabaseTypeOK'
  BY DEF DB!Lock
<1>5. UNCHANGED <<holder, open>> => DB!DatabaseTypeOK'
  OBVIOUS
<1> QED BY <1>1, <1>2, <1>3, <1>4, <1>5

\* A step that changes locks and control only.
LEMMA ControlTyped ==
    ASSUME TypeOK, UNCHANGED <<walletVars, snap, busy, lndVars, restarts>>,
           DB!DatabaseTypeOK', pc' \in [Calls -> PCs]
    PROVE  TypeOK'
BY DEF TypeOK, walletVars, lndVars

LEMMA GuardedUpdateTyped ==
    ASSUME TypeOK, NEW c \in Calls, NEW x \in Rows, NEW guard \in BOOLEAN,
           NEW matched \in PCs, NEW missed \in PCs,
           GuardedUpdate(c, x, guard, matched, missed)
    PROVE  DB!DatabaseTypeOK' /\ pc' \in [Calls -> PCs]
<1>1. CASE guard
  BY <1>1, DatabaseTyped DEF GuardedUpdate
<1>2. CASE ~guard
  BY <1>2, DatabaseTyped DEF GuardedUpdate, Fail
<1> QED BY <1>1, <1>2

\* The states a call can be suspended in or end in.
LEMMA Labels ==
    /\ \A l \in {"start", "find", "payer", "payee", "claim", "debit", "credit", "commit",
                  "limit", "invoice", "record", "claimDeposit", "creditDeposit",
                  "commitDeposit", "acquire", "decode", "begin", "debitTotal", "send",
                  "paying", "commitPaid", "release", "done", "failed", "killed"} : l \in PCs
BY DEF PCs, TransferPCs, DepositPCs, EventPCs, WithdrawPCs, Ended

LEMMA TransferStepTyped ==
    ASSUME TypeOK, NEW t \in Transfers, Transfer(t)
    PROVE  TypeOK'
<1> USE Labels
<1>0. /\ t \in Calls /\ Payer(t) \in Rows /\ Payee(t) \in Rows
      /\ TransferSats(t) \in Int
  BY TransferTyped DEF Rows
<1>1. CASE ReadPayerWallet(t)
  BY <1>0, <1>1, DatabaseTyped, ControlTyped DEF ReadPayerWallet, Fail
<1>2. CASE ReadPayeeWallet(t)
  <2>1. pc' \in [Calls -> PCs] /\ DB!DatabaseTypeOK'
    BY <1>0, <1>2, DatabaseTyped DEF ReadPayeeWallet, Fail
  <2> QED BY <1>2, <2>1, ControlTyped DEF ReadPayeeWallet
<1>3. CASE DebitPayer(t)
  <2>1. DebitMatches(Payer(t), TransferSats(t)) \in BOOLEAN
    BY DEF DebitMatches, Covers
  <2> QED BY <1>0, <1>3, <2>1, GuardedUpdateTyped, ControlTyped DEF DebitPayer
<1>4. CASE CreditPayee(t)
  <2>1. CreditMatches(Payee(t), TransferSats(t)) \in BOOLEAN
    BY DEF CreditMatches, HasRoom
  <2> QED BY <1>0, <1>4, <2>1, GuardedUpdateTyped, ControlTyped DEF CreditPayee
<1>5. CASE CommitTransfer(t)
  <2>1. DB!DatabaseTypeOK' /\ pc' \in [Calls -> PCs]
    BY <1>0, <1>5, DatabaseTyped DEF CommitTransfer
  <2>2. balance' \in [Wallets -> Int]
    BY <1>5, TransferTyped DEF CommitTransfer, Transferred, TypeOK
  <2>3. row' \in [Calls \ Events -> {"none", "pending", "settled"}]
    BY <1>5 DEF CommitTransfer, TypeOK
  <2>4. request' \in [PayRequests -> {"absent", "unpaid", "paid"}]
    BY <1>5 DEF CommitTransfer, TypeOK
  <2> QED BY <1>5, <2>1, <2>2, <2>3, <2>4 DEF CommitTransfer, TypeOK, lndVars
<1> QED BY <1>1, <1>2, <1>3, <1>4, <1>5 DEF Transfer

LEMMA RequestStepTyped ==
    ASSUME TypeOK, NEW t \in Settlements, PayRequest(t)
    PROVE  TypeOK'
<1> USE Labels
<1>0. t \in Transfers /\ t \in Calls /\ RequestOf[t] \in Rows
  BY TransferTyped DEF Rows, Transfers
<1>1. CASE StartPayRequest(t)
  BY <1>0, <1>1, DatabaseTyped, ControlTyped DEF StartPayRequest
<1>2. CASE FindPayRequest(t)
  BY <1>0, <1>2, DatabaseTyped, ControlTyped DEF FindPayRequest, Fail
<1>3. CASE ClaimPayRequest(t)
  <2>1. ClaimMatches(t) \in BOOLEAN
    BY DEF ClaimMatches
  <2> QED BY <1>0, <1>3, <2>1, GuardedUpdateTyped, ControlTyped DEF ClaimPayRequest
<1> QED BY <1>1, <1>2, <1>3 DEF PayRequest

LEMMA StartPayUserTyped ==
    ASSUME TypeOK, NEW t \in Payments, StartPayUser(t)
    PROVE  TypeOK'
<1>1. t \in Calls
  BY DEF Calls, Transfers
<1> QED BY <1>1, Labels, DatabaseTyped, ControlTyped DEF StartPayUser

LEMMA CreatePayRequestsTyped ==
    ASSUME TypeOK, NEW b \in Batches, CreatePayRequests(b)
    PROVE  TypeOK'
BY DEF CreatePayRequests, TypeOK, DB!DatabaseTypeOK, callVars, lndVars

LEMMA DepositStepTyped ==
    ASSUME TypeOK, NEW d \in Deposits, Deposit(d)
    PROVE  TypeOK'
<1> USE Labels, DepositTyped
<1>1. CASE StartDeposit(d)
  BY <1>1, DatabaseTyped, ControlTyped DEF StartDeposit
<1>2. CASE CheckLimit(d)
  BY <1>2, DatabaseTyped, ControlTyped DEF CheckLimit, Fail
<1>3. CASE CreateInvoice(d)
  <2>1. DB!DatabaseTypeOK' /\ pc' \in [Calls -> PCs]
    BY <1>3, DatabaseTyped DEF CreateInvoice
  <2> QED BY <1>3, <2>1 DEF CreateInvoice, TypeOK, walletVars
<1>4. CASE InvoiceUnavailable(d)
  BY <1>4, DatabaseTyped, ControlTyped DEF InvoiceUnavailable, Fail
<1>5. CASE RecordDeposit(d)
  <2>1. DB!DatabaseTypeOK' /\ pc' \in [Calls -> PCs]
    BY <1>5, DatabaseTyped DEF RecordDeposit
  <2> QED BY <1>5, <2>1 DEF RecordDeposit, TypeOK, lndVars
<1> QED BY <1>1, <1>2, <1>3, <1>4, <1>5 DEF Deposit

LEMMA EventStepTyped ==
    ASSUME TypeOK, NEW e \in Events, ImpactDeposit(e)
    PROVE  TypeOK'
<1> USE Labels, EventTyped
<1>0. DepositOf[e] \in Rows /\ WalletOf[DepositOf[e]] \in Rows
  BY DEF Rows
<1>1. CASE InvoiceUpdated(e)
  BY <1>1, DatabaseTyped, ControlTyped DEF InvoiceUpdated
<1>2. CASE ClaimDeposit(e)
  <2>1. DepositUnclaimed(e) \in BOOLEAN
    BY DEF DepositUnclaimed
  <2> QED BY <1>0, <1>2, <2>1, GuardedUpdateTyped, ControlTyped DEF ClaimDeposit
<1>3. CASE CreditDeposit(e)
  <2>1. DepositFits(e) \in BOOLEAN
    BY DEF DepositFits, HasRoom
  <2> QED BY <1>0, <1>3, <2>1, GuardedUpdateTyped, ControlTyped DEF CreditDeposit
<1>4. CASE CommitDeposit(e)
  <2>1. DB!DatabaseTypeOK' /\ pc' \in [Calls -> PCs]
    BY <1>4, DatabaseTyped DEF CommitDeposit
  <2>2. balance' \in [Wallets -> Int]
    BY <1>4 DEF CommitDeposit, TypeOK
  <2> QED BY <1>4, <2>1, <2>2 DEF CommitDeposit, TypeOK, lndVars
<1> QED BY <1>1, <1>2, <1>3, <1>4 DEF ImpactDeposit

LEMMA WithdrawStepTyped ==
    ASSUME TypeOK, NEW r \in Withdrawals, Withdraw(r)
    PROVE  TypeOK'
<1> USE Labels, WithdrawTyped
<1>0. r \in Calls /\ WalletOf[r] \in Rows
  BY DEF Rows
<1>1. CASE ReadWithdrawWallet(r)
  <2>1. DB!DatabaseTypeOK' /\ pc' \in [Calls -> PCs]
    BY <1>0, <1>1, DatabaseTyped DEF ReadWithdrawWallet
  <2>2. snap' \in [Withdrawals -> Int]
    BY <1>1 DEF ReadWithdrawWallet, TypeOK
  <2> QED BY <1>1, <2>1, <2>2 DEF ReadWithdrawWallet, TypeOK, walletVars, lndVars
<1>2. CASE SetWalletBusy(r)
  <2>1. DB!DatabaseTypeOK' /\ pc' \in [Calls -> PCs]
    BY <1>0, <1>2, DatabaseTyped DEF SetWalletBusy
  <2>2. busy' \in [Instances -> SUBSET Wallets]
    BY <1>2 DEF SetWalletBusy, BusyKey, TypeOK
  <2> QED BY <1>2, <2>1, <2>2 DEF SetWalletBusy, TypeOK, walletVars, lndVars
<1>3. CASE DecodeInvoice(r)
  BY <1>0, <1>3, DatabaseTyped, ControlTyped DEF DecodeInvoice
<1>4. CASE WithdrawRefused(r)
  BY <1>0, <1>4, DatabaseTyped, ControlTyped DEF WithdrawRefused
<1>5. CASE BeginWithdraw(r)
  BY <1>0, <1>5, DatabaseTyped, ControlTyped DEF BeginWithdraw
<1>6. CASE DebitWithdraw(r)
  <2>1. DebitMatches(WalletOf[r], WithdrawTotal(r)) \in BOOLEAN
    BY DEF DebitMatches, Covers
  <2> QED BY <1>0, <1>6, <2>1, GuardedUpdateTyped, ControlTyped DEF DebitWithdraw
<1>7. CASE SendPayment(r)
  <2>1. DB!DatabaseTypeOK' /\ pc' \in [Calls -> PCs]
    BY <1>0, <1>7, DatabaseTyped DEF SendPayment
  <2>2. /\ payment' \in [Invoices -> {"none", "inflight", "paid"}]
        /\ paidBy' \in [Invoices -> Withdrawals \cup {NoClient}]
    BY <1>7 DEF SendPayment, TypeOK
  <2> QED BY <1>7, <2>1, <2>2 DEF SendPayment, TypeOK, walletVars
<1>8. CASE PayInvoiceResolves(r)
  BY <1>0, <1>8, DatabaseTyped, ControlTyped DEF PayInvoiceResolves
<1>9. CASE PayInvoiceRejects(r)
  BY <1>0, <1>9, DatabaseTyped, ControlTyped DEF PayInvoiceRejects, Fail
<1>10. CASE CommitWithdraw(r)
  <2>1. DB!DatabaseTypeOK' /\ pc' \in [Calls -> PCs]
    BY <1>0, <1>10, DatabaseTyped DEF CommitWithdraw
  <2>2. balance' \in [Wallets -> Int]
    BY <1>10 DEF CommitWithdraw, Charged, TypeOK
  <2> QED BY <1>10, <2>1, <2>2 DEF CommitWithdraw, TypeOK, lndVars
<1>11. CASE ClearWalletBusy(r)
  <2>1. DB!DatabaseTypeOK' /\ pc' \in [Calls -> PCs]
    BY <1>0, <1>11, DatabaseTyped DEF ClearWalletBusy
  <2>2. busy' \in [Instances -> SUBSET Wallets]
    BY <1>11 DEF ClearWalletBusy, Cleared, TypeOK
  <2> QED BY <1>11, <2>1, <2>2 DEF ClearWalletBusy, TypeOK, walletVars, lndVars
<1> QED BY <1>1, <1>2, <1>3, <1>4, <1>5, <1>6, <1>7, <1>8, <1>9, <1>10, <1>11 DEF Withdraw

LEMMA EnvironmentTyped ==
    ASSUME TypeOK, Environment
    PROVE  TypeOK'
<1> USE Labels
<1>1. ASSUME NEW c \in Calls, LoseTransaction(c)
      PROVE  TypeOK'
  <2>1. DB!DatabaseTypeOK'
    BY <1>1, DatabaseTyped DEF LoseTransaction
  <2> QED BY <1>1, <2>1 DEF LoseTransaction, TypeOK, walletVars, callVars, lndVars
<1>2. ASSUME NEW c \in Calls, OperationOnLostTransaction(c)
      PROVE  TypeOK'
  BY <1>2, DatabaseTyped, ControlTyped DEF OperationOnLostTransaction
<1>3. ASSUME NEW i \in Instances, Restart(i)
      PROVE  TypeOK'
  <2>1. pc' \in [Calls -> PCs]
    BY <1>3 DEF Restart, TypeOK
  <2>2. restarts' \in 0..MaxRestarts
    BY <1>3, WalletServiceAssumption DEF Restart, TypeOK
  <2>3. busy' \in [Instances -> SUBSET Wallets] /\ subscribed' \subseteq Deposits
    BY <1>3 DEF Restart, TypeOK
  <2> QED BY <1>3, <2>1, <2>2, <2>3 DEF Restart, TypeOK, walletVars, DB!DatabaseTypeOK
<1>4. ASSUME NEW w \in Wallets, DisableWallet(w)
      PROVE  TypeOK'
  BY <1>4 DEF DisableWallet, TypeOK, DB!DatabaseTypeOK, callVars, lndVars
<1>5. ASSUME NEW d \in Deposits, InvoicePaid(d)
      PROVE  TypeOK'
  BY <1>5 DEF InvoicePaid, TypeOK, DB!DatabaseTypeOK, callVars, walletVars
<1>6. ASSUME NEW i \in Invoices, PaymentSucceeds(i)
      PROVE  TypeOK'
  BY <1>6 DEF PaymentSucceeds, TypeOK, DB!DatabaseTypeOK, callVars, walletVars
<1>7. ASSUME NEW i \in Invoices, PaymentFails(i)
      PROVE  TypeOK'
  BY <1>7 DEF PaymentFails, TypeOK, DB!DatabaseTypeOK, callVars, walletVars
<1> QED BY <1>1, <1>2, <1>3, <1>4, <1>5, <1>6, <1>7 DEF Environment

LEMMA InitTyped == Init => TypeOK
BY WalletServiceAssumption
   DEF Init, TypeOK, DB!DatabaseInit, DB!DatabaseTypeOK, Sats, PCs

LEMMA StutterTyped ==
    ASSUME TypeOK, UNCHANGED vars
    PROVE  TypeOK'
BY DEF TypeOK, DB!DatabaseTypeOK, vars, walletVars, callVars, lndVars

LEMMA StepTyped ==
    ASSUME TypeOK, [Next]_vars
    PROVE  TypeOK'
BY CreatePayRequestsTyped, StartPayUserTyped, RequestStepTyped, TransferStepTyped,
   DepositStepTyped, EventStepTyped, WithdrawStepTyped, EnvironmentTyped, StutterTyped
   DEF Next, Quiescent

(***************************************************************************)
(* Every variable keeps its type: among others, busyWallets only ever      *)
(* names wallets (lock.service.ts:9-23) and a row is nothing but pending   *)
(* or settled (wallet.service.ts:352-361, 390-397, 484-500, 569-592).      *)
(***************************************************************************)
THEOREM TypeCorrect == Spec => []TypeOK
<1>1. Init => TypeOK
  BY InitTyped
<1>2. TypeOK /\ [Next]_vars => TypeOK'
  BY StepTyped
<1> QED BY <1>1, <1>2, PTL DEF Spec

-----------------------------------------------------------------------------
(* A step of one call leaves the others undisturbed.                       *)

\* What a call does to its own transaction does not touch another call's.
LEMMA OwnTransaction ==
    ASSUME TypeOK, NEW c \in Calls, NEW r \in Calls, c # r, NEW label \in PCs
    PROVE  /\ GoTo(r, label) => pc'[c] = pc[c]
           /\ DB!Begin(r) => /\ c \in open' <=> c \in open
                             /\ \A x \in Rows : Holds(c, x) => holder'[x] = c
           /\ DB!End(r) => /\ c \in open' <=> c \in open
                           /\ \A x \in Rows : Holds(c, x) => holder'[x] = c
           /\ \A y \in Rows : DB!Lock(r, y) =>
                           /\ c \in open' <=> c \in open
                           /\ \A x \in Rows : Holds(c, x) => holder'[x] = c
           /\ UNCHANGED <<holder, open>> =>
                           /\ c \in open' <=> c \in open
                           /\ \A x \in Rows : Holds(c, x) => holder'[x] = c
<1> USE DEF TypeOK, DB!DatabaseTypeOK, Holds
<1>1. GoTo(r, label) => pc'[c] = pc[c]
  BY DEF GoTo
<1>2. DB!Begin(r) => /\ c \in open' <=> c \in open
                     /\ \A x \in Rows : Holds(c, x) => holder'[x] = c
  BY DEF DB!Begin
<1>3. DB!End(r) => /\ c \in open' <=> c \in open
                   /\ \A x \in Rows : Holds(c, x) => holder'[x] = c
  BY DEF DB!End
<1>4. \A y \in Rows : DB!Lock(r, y) =>
                   /\ c \in open' <=> c \in open
                   /\ \A x \in Rows : Holds(c, x) => holder'[x] = c
  <2>1. c # NoClient
    BY WalletServiceAssumption
  <2> QED BY <2>1 DEF DB!Lock, DB!Lockable
<1> QED BY <1>1, <1>2, <1>3, <1>4

LEMMA OwnUpdate ==
    ASSUME TypeOK, NEW c \in Calls, NEW r \in Calls, c # r, NEW x \in Rows,
           NEW guard \in BOOLEAN, NEW matched \in PCs, NEW missed \in PCs,
           GuardedUpdate(r, x, guard, matched, missed)
    PROVE  /\ pc'[c] = pc[c]
           /\ c \in open' <=> c \in open
           /\ \A y \in Rows : Holds(c, y) => holder'[y] = c
<1>1. CASE guard
  BY <1>1, OwnTransaction DEF GuardedUpdate
<1>2. CASE ~guard
  BY <1>2, OwnTransaction DEF GuardedUpdate, Fail
<1> QED BY <1>1, <1>2

LEMMA ControlUndisturbed ==
    ASSUME NEW c \in Calls, UNCHANGED <<walletVars, snap>>,
           pc'[c] = pc[c], c \in open' <=> c \in open,
           \A x \in Rows : Holds(c, x) => holder'[x] = c
    PROVE  Undisturbed(c)
BY DEF Undisturbed, walletVars

LEMMA TransferUndisturbing ==
    ASSUME TypeOK, GuardsHold, NEW t \in Transfers, Transfer(t), NEW c \in Calls, c # t
    PROVE  Undisturbed(c)
<1> USE Labels
<1>0. /\ t \in Calls /\ Payer(t) \in Rows /\ Payee(t) \in Rows
      /\ Payer(t) \in Wallets /\ Payee(t) \in Wallets
  BY TransferTyped DEF Rows
<1>1. CASE ReadPayerWallet(t)
  BY <1>0, <1>1, OwnTransaction, ControlUndisturbed DEF ReadPayerWallet, Fail
<1>2. CASE ReadPayeeWallet(t)
  <2>1. /\ pc'[c] = pc[c]
        /\ c \in open' <=> c \in open
        /\ \A x \in Rows : Holds(c, x) => holder'[x] = c
    BY <1>0, <1>2, OwnTransaction DEF ReadPayeeWallet, Fail
  <2> QED BY <1>2, <2>1, ControlUndisturbed DEF ReadPayeeWallet
<1>3. CASE DebitPayer(t)
  <2>1. DebitMatches(Payer(t), TransferSats(t)) \in BOOLEAN
    BY DEF DebitMatches, Covers
  <2> QED BY <1>0, <1>3, <2>1, OwnUpdate, ControlUndisturbed DEF DebitPayer
<1>4. CASE CreditPayee(t)
  <2>1. CreditMatches(Payee(t), TransferSats(t)) \in BOOLEAN
    BY DEF CreditMatches, HasRoom
  <2> QED BY <1>0, <1>4, <2>1, OwnUpdate, ControlUndisturbed DEF CreditPayee
<1>5. CASE CommitTransfer(t)
  <2>1. /\ pc'[c] = pc[c]
        /\ c \in open' <=> c \in open
        /\ \A x \in Rows : Holds(c, x) => holder'[x] = c
    BY <1>0, <1>5, OwnTransaction DEF CommitTransfer
  <2>2. /\ Holds(t, Payer(t)) /\ Holds(t, Payee(t))
        /\ t \in Settlements => Holds(t, RequestOf[t])
    BY <1>5 DEF GuardsHold, TransferInv, ClaimHeld, DebitHeld, CreditHeld, CommitTransfer, At
  <2>3. \A w \in Wallets : Holds(c, w) => balance'[w] = balance[w]
    BY <1>0, <1>5, <2>2 DEF CommitTransfer, Transferred, Holds, TypeOK
  <2>4. \A p \in PayRequests : Holds(c, p) => request'[p] = request[p]
    BY <1>5, <2>2 DEF CommitTransfer, Holds
  <2>5. \A o \in Calls \ Events : o # t => row'[o] = row[o]
    BY <1>5 DEF CommitTransfer, TypeOK
  <2>6. Deposits \subseteq Calls \ Events /\ t \notin Deposits
    BY WalletServiceAssumption DEF Calls
  <2> QED BY <1>5, <2>1, <2>3, <2>4, <2>5, <2>6 DEF CommitTransfer, Undisturbed
<1> QED BY <1>1, <1>2, <1>3, <1>4, <1>5 DEF Transfer

LEMMA RequestUndisturbing ==
    ASSUME TypeOK, NEW t \in Settlements, PayRequest(t), NEW c \in Calls, c # t
    PROVE  Undisturbed(c)
<1> USE Labels
<1>0. t \in Transfers /\ t \in Calls /\ RequestOf[t] \in Rows
  BY TransferTyped DEF Rows, Transfers
<1>1. CASE StartPayRequest(t)
  BY <1>0, <1>1, OwnTransaction, ControlUndisturbed DEF StartPayRequest
<1>2. CASE FindPayRequest(t)
  BY <1>0, <1>2, OwnTransaction, ControlUndisturbed DEF FindPayRequest, Fail
<1>3. CASE ClaimPayRequest(t)
  <2>1. ClaimMatches(t) \in BOOLEAN
    BY DEF ClaimMatches
  <2> QED BY <1>0, <1>3, <2>1, OwnUpdate, ControlUndisturbed DEF ClaimPayRequest
<1> QED BY <1>1, <1>2, <1>3 DEF PayRequest

LEMMA StartPayUserUndisturbing ==
    ASSUME TypeOK, NEW t \in Payments, StartPayUser(t), NEW c \in Calls, c # t
    PROVE  Undisturbed(c)
<1>1. t \in Calls
  BY DEF Calls, Transfers
<1> QED BY <1>1, Labels, OwnTransaction, ControlUndisturbed DEF StartPayUser

LEMMA CreatePayRequestsUndisturbing ==
    ASSUME TypeOK, NEW b \in Batches, CreatePayRequests(b), NEW c \in Calls
    PROVE  Undisturbed(c)
BY DEF CreatePayRequests, TypeOK, Undisturbed, callVars, Holds

LEMMA DepositUndisturbing ==
    ASSUME TypeOK, NEW d \in Deposits, Deposit(d), NEW c \in Calls, c # d
    PROVE  Undisturbed(c)
<1> USE Labels, DepositTyped
<1>1. CASE StartDeposit(d)
  BY <1>1, OwnTransaction, ControlUndisturbed DEF StartDeposit
<1>2. CASE CheckLimit(d)
  BY <1>2, OwnTransaction, ControlUndisturbed DEF CheckLimit, Fail
<1>3. CASE CreateInvoice(d)
  BY <1>3, OwnTransaction, ControlUndisturbed DEF CreateInvoice
<1>4. CASE InvoiceUnavailable(d)
  BY <1>4, OwnTransaction, ControlUndisturbed DEF InvoiceUnavailable, Fail
<1>5. CASE RecordDeposit(d)
  <2>1. /\ pc'[c] = pc[c]
        /\ c \in open' <=> c \in open
        /\ \A x \in Rows : Holds(c, x) => holder'[x] = c
    BY <1>5, OwnTransaction DEF RecordDeposit
  <2>2. \A o \in Calls \ Events : o # d => row'[o] = row[o]
    BY <1>5 DEF RecordDeposit, TypeOK
  <2>3. d \in Calls \ Events /\ Deposits \subseteq Calls \ Events
    BY WalletServiceAssumption DEF Calls
  <2>4. row'[d] = "pending"
    BY <1>5, <2>3 DEF RecordDeposit, TypeOK
  <2> QED BY <1>5, <2>1, <2>2, <2>3, <2>4 DEF RecordDeposit, Undisturbed
<1> QED BY <1>1, <1>2, <1>3, <1>4, <1>5 DEF Deposit

LEMMA EventUndisturbing ==
    ASSUME TypeOK, GuardsHold, NEW e \in Events, ImpactDeposit(e), NEW c \in Calls, c # e
    PROVE  Undisturbed(c)
<1> USE Labels, EventTyped
<1>0. DepositOf[e] \in Rows /\ WalletOf[DepositOf[e]] \in Rows
  BY DEF Rows
<1>1. CASE InvoiceUpdated(e)
  BY <1>1, OwnTransaction, ControlUndisturbed DEF InvoiceUpdated
<1>2. CASE ClaimDeposit(e)
  <2>1. DepositUnclaimed(e) \in BOOLEAN
    BY DEF DepositUnclaimed
  <2> QED BY <1>0, <1>2, <2>1, OwnUpdate, ControlUndisturbed DEF ClaimDeposit
<1>3. CASE CreditDeposit(e)
  <2>1. DepositFits(e) \in BOOLEAN
    BY DEF DepositFits, HasRoom
  <2> QED BY <1>0, <1>3, <2>1, OwnUpdate, ControlUndisturbed DEF CreditDeposit
<1>4. CASE CommitDeposit(e)
  <2>1. /\ pc'[c] = pc[c]
        /\ c \in open' <=> c \in open
        /\ \A x \in Rows : Holds(c, x) => holder'[x] = c
    BY <1>4, OwnTransaction DEF CommitDeposit
  <2>2. /\ Holds(e, DepositOf[e]) /\ Holds(e, WalletOf[DepositOf[e]])
        /\ row[DepositOf[e]] = "pending"
    BY <1>4 DEF GuardsHold, EventInv, CommitDeposit, At, DepositUnclaimed
  <2>3. \A w \in Wallets : Holds(c, w) => balance'[w] = balance[w]
    BY <1>4, <2>2 DEF CommitDeposit, Holds, TypeOK
  <2>4. DepositOf[e] \in Calls \ Events /\ Deposits \subseteq Calls \ Events
    BY WalletServiceAssumption DEF Calls
  <2>5. /\ \A o \in Calls \ Events : o # DepositOf[e] => row'[o] = row[o]
        /\ row'[DepositOf[e]] = "settled"
    BY <1>4, <2>4 DEF CommitDeposit, TypeOK
  <2>6. ~Holds(c, DepositOf[e])
    BY <2>2 DEF Holds
  <2> QED BY <1>4, <2>1, <2>2, <2>3, <2>4, <2>5, <2>6 DEF CommitDeposit, Undisturbed
<1> QED BY <1>1, <1>2, <1>3, <1>4 DEF ImpactDeposit

LEMMA WithdrawUndisturbing ==
    ASSUME TypeOK, GuardsHold, NEW r \in Withdrawals, Withdraw(r), NEW c \in Calls, c # r
    PROVE  Undisturbed(c)
<1> USE Labels, WithdrawTyped
<1>0. r \in Calls /\ WalletOf[r] \in Rows
  BY DEF Rows
<1>1. CASE ReadWithdrawWallet(r)
  <2>1. /\ pc'[c] = pc[c]
        /\ c \in open' <=> c \in open
        /\ \A x \in Rows : Holds(c, x) => holder'[x] = c
    BY <1>0, <1>1, OwnTransaction DEF ReadWithdrawWallet
  <2>2. c \in Withdrawals => snap'[c] = snap[c]
    BY <1>1 DEF ReadWithdrawWallet, TypeOK
  <2> QED BY <1>1, <2>1, <2>2 DEF ReadWithdrawWallet, Undisturbed, walletVars
<1>2. CASE SetWalletBusy(r)
  BY <1>0, <1>2, OwnTransaction, ControlUndisturbed DEF SetWalletBusy
<1>3. CASE DecodeInvoice(r)
  BY <1>0, <1>3, OwnTransaction, ControlUndisturbed DEF DecodeInvoice
<1>4. CASE WithdrawRefused(r)
  BY <1>0, <1>4, OwnTransaction, ControlUndisturbed DEF WithdrawRefused
<1>5. CASE BeginWithdraw(r)
  BY <1>0, <1>5, OwnTransaction, ControlUndisturbed DEF BeginWithdraw
<1>6. CASE DebitWithdraw(r)
  <2>1. DebitMatches(WalletOf[r], WithdrawTotal(r)) \in BOOLEAN
    BY DEF DebitMatches, Covers
  <2> QED BY <1>0, <1>6, <2>1, OwnUpdate, ControlUndisturbed DEF DebitWithdraw
<1>7. CASE SendPayment(r)
  BY <1>0, <1>7, OwnTransaction, ControlUndisturbed DEF SendPayment
<1>8. CASE PayInvoiceResolves(r)
  BY <1>0, <1>8, OwnTransaction, ControlUndisturbed DEF PayInvoiceResolves
<1>9. CASE PayInvoiceRejects(r)
  BY <1>0, <1>9, OwnTransaction, ControlUndisturbed DEF PayInvoiceRejects, Fail
<1>10. CASE CommitWithdraw(r)
  <2>1. /\ pc'[c] = pc[c]
        /\ c \in open' <=> c \in open
        /\ \A x \in Rows : Holds(c, x) => holder'[x] = c
    BY <1>0, <1>10, OwnTransaction DEF CommitWithdraw
  <2>2. Holds(r, WalletOf[r])
    BY <1>10 DEF GuardsHold, WithdrawInv, CommitWithdraw, At
  <2>3. \A w \in Wallets : Holds(c, w) => balance'[w] = balance[w]
    BY <1>10, <2>2 DEF CommitWithdraw, Charged, Holds, TypeOK
  <2>4. \A o \in Calls \ Events : o # r => row'[o] = row[o]
    BY <1>10 DEF CommitWithdraw, TypeOK
  <2>5. Deposits \subseteq Calls \ Events /\ r \notin Deposits
    BY WalletServiceAssumption DEF Calls
  <2> QED BY <1>10, <2>1, <2>3, <2>4, <2>5 DEF CommitWithdraw, Undisturbed
<1>11. CASE ClearWalletBusy(r)
  BY <1>0, <1>11, OwnTransaction, ControlUndisturbed DEF ClearWalletBusy
<1> QED BY <1>1, <1>2, <1>3, <1>4, <1>5, <1>6, <1>7, <1>8, <1>9, <1>10, <1>11 DEF Withdraw

-----------------------------------------------------------------------------
(* What a call relies on survives the steps of others, and its own.        *)

LEMMA TransferKept ==
    ASSUME TypeOK, NEW t \in Transfers, TransferInv(t), Undisturbed(t)
    PROVE  TransferInv(t)'
<1>0. /\ Payer(t) \in Wallets /\ Payee(t) \in Wallets
      /\ Payer(t) \in Rows /\ Payee(t) \in Rows
      /\ t \in Settlements => RequestOf[t] \in PayRequests /\ RequestOf[t] \in Rows
      /\ t \in Calls \ Events /\ t \notin Deposits
  BY TransferTyped, WalletServiceAssumption DEF Rows
<1> USE DEF Undisturbed, TransferInv
<1>1. TransferChecked(t)'
  BY DEF TransferChecked
<1>2. t \in open' => ClaimHeld(t)'
  BY <1>0 DEF ClaimHeld, Holds, ClaimMatches
<1>3. t \in open' => DebitHeld(t)'
  BY <1>0 DEF DebitHeld, Holds, DebitMatches, Payer, TransferSats
<1>4. t \in open' => CreditHeld(t)'
  BY <1>0 DEF CreditHeld, Holds, CreditMatches, Payee, TransferSats
<1>5. row'[t] # "none" => row'[t] = "settled" /\ pc'[t] = "done"
  BY <1>0
<1> QED BY <1>1, <1>2, <1>3, <1>4, <1>5

LEMMA DepositKept ==
    ASSUME NEW d \in Deposits, DepositInv(d), Undisturbed(d)
    PROVE  DepositInv(d)'
<1>1. d \in Calls \ Events
  BY WalletServiceAssumption DEF Calls
<1> QED BY <1>1 DEF DepositInv, Undisturbed

LEMMA EventKept ==
    ASSUME NEW e \in Events, EventInv(e), Undisturbed(e)
    PROVE  EventInv(e)'
<1>0. /\ DepositOf[e] \in Deposits /\ DepositOf[e] \in Rows
      /\ WalletOf[DepositOf[e]] \in Wallets /\ WalletOf[DepositOf[e]] \in Rows
  BY EventTyped DEF Rows
<1> QED BY <1>0 DEF EventInv, Undisturbed, Holds, DepositUnclaimed, DepositFits

LEMMA WithdrawKept ==
    ASSUME TypeOK, NEW r \in Withdrawals, WithdrawInv(r), Undisturbed(r)
    PROVE  WithdrawInv(r)'
<1>0. /\ WalletOf[r] \in Wallets /\ WalletOf[r] \in Rows
      /\ r \in Calls \ Events /\ r \notin Deposits
  BY WithdrawTyped, WalletServiceAssumption DEF Rows
<1>1. snap'[r] = snap[r]
  BY DEF Undisturbed
<1>2. WithdrawTotal(r)' = WithdrawTotal(r) /\ WithdrawSats(r)' = WithdrawSats(r)
  BY <1>1 DEF WithdrawTotal, WithdrawSats
<1>3. WithdrawAccepts(r)' <=> WithdrawAccepts(r)
  BY <1>1, <1>2 DEF WithdrawAccepts
<1> QED BY <1>0, <1>1, <1>2, <1>3 DEF WithdrawInv, Undisturbed, Holds, DebitMatches

\* A guarded update leaves its guard true, its row locked and the transaction
\* open, or the transaction rolled back.
LEMMA UpdateHolds ==
    ASSUME TypeOK, NEW c \in Calls, NEW x \in Rows, NEW guard \in BOOLEAN,
           NEW matched \in PCs, NEW missed \in PCs, matched # missed,
           GuardedUpdate(c, x, guard, matched, missed)
    PROVE  \/ /\ guard /\ c \in open /\ c \in open' /\ pc'[c] = matched /\ holder'[x] = c
              /\ \A y \in Rows : Holds(c, y) => holder'[y] = c
           \/ c \notin open' /\ pc'[c] = missed
<1> USE DEF TypeOK, DB!DatabaseTypeOK
<1>1. CASE guard
  <2>1. DB!Lock(c, x) /\ GoTo(c, matched)
    BY <1>1 DEF GuardedUpdate
  <2> QED BY <1>1, <2>1 DEF DB!Lock, GoTo, Holds
<1>2. CASE ~guard
  BY <1>2 DEF GuardedUpdate, Fail, DB!End, GoTo
<1> QED BY <1>1, <1>2

LEMMA TransferStepKeeps ==
    ASSUME TypeOK, NEW t \in Transfers, TransferInv(t), Transfer(t)
    PROVE  TransferInv(t)'
<1> USE Labels
<1>0. /\ Payer(t) \in Wallets /\ Payee(t) \in Wallets
      /\ Payer(t) \in Rows /\ Payee(t) \in Rows
      /\ t \in Settlements => RequestOf[t] \in PayRequests /\ RequestOf[t] \in Rows
      /\ t \in Calls \ Events /\ t \notin Deposits
      /\ t \in Transfers => t \in Payments \/ t \in Settlements
  BY TransferTyped, WalletServiceAssumption DEF Rows, Transfers
<1>1. CASE ReadPayerWallet(t)
  <2>1. pc[t] = "payer" /\ pc'[t] \in {"payee", "failed"} /\ UNCHANGED walletVars
    BY <1>0, <1>1 DEF ReadPayerWallet, At, GoTo, Fail, TypeOK
  <2> QED BY <1>0, <2>1 DEF TransferInv, TransferChecked, ClaimHeld, DebitHeld, CreditHeld,
               TransferPCs, walletVars
<1>2. CASE ReadPayeeWallet(t)
  <2>1. /\ pc[t] = "payee" /\ UNCHANGED walletVars
        /\ pc'[t] \in {"claim", "debit", "failed"}
        /\ pc'[t] = "debit" => t \notin Settlements
    BY <1>0, <1>2 DEF ReadPayeeWallet, At, GoTo, Fail, TypeOK
  <2> QED BY <1>0, <2>1 DEF TransferInv, TransferChecked, ClaimHeld, DebitHeld, CreditHeld,
               TransferPCs, walletVars
<1>3. CASE DebitPayer(t)
  <2>1. DebitMatches(Payer(t), TransferSats(t)) \in BOOLEAN
    BY DEF DebitMatches, Covers
  <2>2. pc[t] = "debit" /\ UNCHANGED walletVars
    BY <1>3 DEF DebitPayer, At
  <2>3. \/ /\ DebitMatches(Payer(t), TransferSats(t)) /\ t \in open /\ pc'[t] = "credit"
           /\ holder'[Payer(t)] = t
           /\ \A y \in Rows : Holds(t, y) => holder'[y] = t
        \/ t \notin open' /\ pc'[t] = "failed"
    BY <1>0, <1>3, <2>1, UpdateHolds DEF DebitPayer
  <2>4. TransferChecked(t)' /\ row'[t] = "none"
    BY <1>0, <2>2, <2>3 DEF TransferInv, TransferChecked, TransferPCs, walletVars
  <2>5. t \in open' => ClaimHeld(t)' /\ DebitHeld(t)' /\ CreditHeld(t)'
    BY <1>0, <2>2, <2>3 DEF TransferInv, ClaimHeld, DebitHeld, CreditHeld, ClaimMatches,
       DebitMatches, Holds, walletVars, Payer, TransferSats
  <2> QED BY <2>4, <2>5 DEF TransferInv
<1>4. CASE CreditPayee(t)
  <2>1. CreditMatches(Payee(t), TransferSats(t)) \in BOOLEAN
    BY DEF CreditMatches, HasRoom
  <2>2. pc[t] = "credit" /\ UNCHANGED walletVars
    BY <1>4 DEF CreditPayee, At
  <2>3. \/ /\ CreditMatches(Payee(t), TransferSats(t)) /\ t \in open /\ pc'[t] = "commit"
           /\ holder'[Payee(t)] = t
           /\ \A y \in Rows : Holds(t, y) => holder'[y] = t
        \/ t \notin open' /\ pc'[t] = "failed"
    BY <1>0, <1>4, <2>1, UpdateHolds DEF CreditPayee
  <2>4. TransferChecked(t)' /\ row'[t] = "none"
    BY <1>0, <2>2, <2>3 DEF TransferInv, TransferChecked, TransferPCs, walletVars
  <2>5. t \in open' => ClaimHeld(t)' /\ DebitHeld(t)' /\ CreditHeld(t)'
    BY <1>0, <2>2, <2>3 DEF TransferInv, ClaimHeld, DebitHeld, CreditHeld, ClaimMatches,
       DebitMatches, CreditMatches, Holds, walletVars, Payer, Payee, TransferSats
  <2> QED BY <2>4, <2>5 DEF TransferInv
<1>5. CASE CommitTransfer(t)
  <2>1. pc'[t] = "done" /\ t \notin open' /\ row'[t] = "settled"
    BY <1>0, <1>5 DEF CommitTransfer, DB!End, GoTo, TypeOK
  <2> QED BY <2>1 DEF TransferInv, TransferChecked, TransferPCs
<1> QED BY <1>1, <1>2, <1>3, <1>4, <1>5 DEF Transfer

LEMMA RequestStepKeeps ==
    ASSUME TypeOK, NEW t \in Settlements, TransferInv(t), PayRequest(t)
    PROVE  TransferInv(t)'
<1> USE Labels
<1>0. /\ RequestOf[t] \in PayRequests /\ RequestOf[t] \in Rows
      /\ t \in Calls \ Events /\ t \notin Payments
  BY TransferTyped, WalletServiceAssumption DEF Rows, Transfers, Calls
<1>1. CASE StartPayRequest(t)
  <2>1. pc[t] = "start" /\ pc'[t] = "find" /\ UNCHANGED walletVars
    BY <1>0, <1>1 DEF StartPayRequest, At, GoTo, TypeOK
  <2> QED BY <1>0, <2>1 DEF TransferInv, TransferChecked, ClaimHeld, DebitHeld, CreditHeld,
               walletVars
<1>2. CASE FindPayRequest(t)
  <2>1. /\ pc[t] = "find" /\ UNCHANGED walletVars
        /\ \/ pc'[t] = "payer" /\ Receiver[RequestOf[t]] = PayerOf[t]
           \/ pc'[t] = "failed"
    BY <1>0, <1>2 DEF FindPayRequest, At, GoTo, Fail, TypeOK
  <2> QED BY <1>0, <2>1 DEF TransferInv, TransferChecked, ClaimHeld, DebitHeld, CreditHeld,
               TransferPCs, walletVars
<1>3. CASE ClaimPayRequest(t)
  <2>1. ClaimMatches(t) \in BOOLEAN
    BY DEF ClaimMatches
  <2>2. pc[t] = "claim" /\ UNCHANGED walletVars
    BY <1>3 DEF ClaimPayRequest, At
  <2>3. \/ ClaimMatches(t) /\ pc'[t] = "debit" /\ holder'[RequestOf[t]] = t
        \/ t \notin open' /\ pc'[t] = "failed"
    BY <1>0, <1>3, <2>1, UpdateHolds DEF ClaimPayRequest
  <2> QED BY <1>0, <2>2, <2>3 DEF TransferInv, TransferChecked, ClaimHeld, DebitHeld, CreditHeld,
               TransferPCs, walletVars, ClaimMatches, Holds
<1> QED BY <1>1, <1>2, <1>3 DEF PayRequest

LEMMA StartPayUserKeeps ==
    ASSUME TypeOK, NEW t \in Payments, TransferInv(t), StartPayUser(t)
    PROVE  TransferInv(t)'
<1>0. t \in Calls \ Events /\ t \notin Settlements
  BY WalletServiceAssumption DEF Transfers, Calls
<1>1. /\ pc[t] = "start" /\ UNCHANGED walletVars
      /\ \/ pc'[t] = "payer" /\ PayUserAccepts(t)
         \/ pc'[t] = "failed"
  BY <1>0 DEF StartPayUser, At, GoTo, TypeOK
<1> QED BY <1>0, <1>1 DEF TransferInv, TransferChecked, ClaimHeld, DebitHeld, CreditHeld,
             TransferPCs, walletVars, PayUserAccepts

LEMMA DepositStepKeeps ==
    ASSUME TypeOK, NEW d \in Deposits, DepositInv(d), Deposit(d)
    PROVE  DepositInv(d)'
<1> USE Labels
<1>0. d \in Calls \ Events
  BY WalletServiceAssumption DEF Calls
<1> USE DEF DepositInv, DepositPCs, At
<1>1. CASE StartDeposit(d)
  BY <1>0, <1>1 DEF StartDeposit, GoTo, TypeOK, walletVars
<1>2. CASE CheckLimit(d)
  BY <1>0, <1>2 DEF CheckLimit, GoTo, Fail, TypeOK, walletVars
<1>3. CASE CreateInvoice(d)
  BY <1>0, <1>3 DEF CreateInvoice, GoTo, TypeOK, walletVars
<1>4. CASE InvoiceUnavailable(d)
  BY <1>0, <1>4 DEF InvoiceUnavailable, GoTo, Fail, TypeOK, walletVars
<1>5. CASE RecordDeposit(d)
  BY <1>0, <1>5 DEF RecordDeposit, GoTo, TypeOK
<1> QED BY <1>1, <1>2, <1>3, <1>4, <1>5 DEF Deposit

LEMMA EventStepKeeps ==
    ASSUME TypeOK, NEW e \in Events, EventInv(e), ImpactDeposit(e)
    PROVE  EventInv(e)'
<1> USE Labels
<1>0. /\ DepositOf[e] \in Deposits /\ DepositOf[e] \in Rows
      /\ WalletOf[DepositOf[e]] \in Wallets /\ WalletOf[DepositOf[e]] \in Rows
      /\ e \in Calls
  BY EventTyped DEF Rows
<1>1. CASE InvoiceUpdated(e)
  <2>1. pc'[e] = "claimDeposit"
    BY <1>0, <1>1 DEF InvoiceUpdated, GoTo, TypeOK
  <2> QED BY <2>1 DEF EventInv
<1>2. CASE ClaimDeposit(e)
  <2>1. DepositUnclaimed(e) \in BOOLEAN
    BY DEF DepositUnclaimed
  <2>2. \/ DepositUnclaimed(e) /\ pc'[e] = "creditDeposit" /\ holder'[DepositOf[e]] = e
        \/ e \notin open' /\ pc'[e] = "done"
    BY <1>0, <1>2, <2>1, UpdateHolds DEF ClaimDeposit
  <2> QED BY <1>2, <2>2 DEF EventInv, ClaimDeposit, DepositUnclaimed, Holds, walletVars
<1>3. CASE CreditDeposit(e)
  <2>1. DepositFits(e) \in BOOLEAN
    BY DEF DepositFits, HasRoom
  <2>2. \/ /\ DepositFits(e) /\ e \in open /\ pc'[e] = "commitDeposit"
           /\ holder'[WalletOf[DepositOf[e]]] = e
           /\ \A y \in Rows : Holds(e, y) => holder'[y] = e
        \/ e \notin open' /\ pc'[e] = "failed"
    BY <1>0, <1>3, <2>1, UpdateHolds DEF CreditDeposit
  <2> QED BY <1>0, <1>3, <2>2
          DEF EventInv, CreditDeposit, DepositUnclaimed, DepositFits, Holds, walletVars, At
<1>4. CASE CommitDeposit(e)
  BY <1>4 DEF CommitDeposit, DB!End, EventInv
<1> QED BY <1>1, <1>2, <1>3, <1>4 DEF ImpactDeposit

LEMMA WithdrawStepKeeps ==
    ASSUME TypeOK, NEW r \in Withdrawals, WithdrawInv(r), Withdraw(r)
    PROVE  WithdrawInv(r)'
<1> USE Labels
<1>0. /\ WalletOf[r] \in Wallets /\ WalletOf[r] \in Rows
      /\ r \in Calls \ Events
  BY WithdrawTyped, WalletServiceAssumption DEF Rows
\* What was computed from the snapshot stays, except in the step that takes it.
<1>a. ASSUME snap'[r] = snap[r]
      PROVE  /\ WithdrawTotal(r)' = WithdrawTotal(r)
             /\ WithdrawAccepts(r)' <=> WithdrawAccepts(r)
  BY <1>a DEF WithdrawTotal, WithdrawSats, WithdrawAccepts
<1>1. CASE ReadWithdrawWallet(r)
  <2>1. pc[r] = "start" /\ pc'[r] \in {"acquire", "failed"} /\ UNCHANGED walletVars
    BY <1>0, <1>1 DEF ReadWithdrawWallet, At, GoTo, TypeOK
  <2> QED BY <2>1 DEF WithdrawInv, walletVars
<1>2. CASE SetWalletBusy(r)
  <2>1. pc[r] = "acquire" /\ pc'[r] \in {"decode", "failed"} /\ UNCHANGED walletVars
    BY <1>0, <1>2 DEF SetWalletBusy, At, GoTo, TypeOK
  <2> QED BY <2>1 DEF WithdrawInv, walletVars
<1>3. CASE DecodeInvoice(r)
  <2>1. /\ pc[r] = "decode" /\ UNCHANGED <<walletVars, snap>>
        /\ \/ pc'[r] = "begin" /\ WithdrawAccepts(r)
           \/ pc'[r] = "release"
    BY <1>0, <1>3 DEF DecodeInvoice, At, GoTo, TypeOK
  <2> QED BY <1>a, <2>1 DEF WithdrawInv, walletVars
<1>4. CASE WithdrawRefused(r)
  <2>1. pc[r] \in {"decode", "begin"} /\ pc'[r] = "release" /\ UNCHANGED walletVars
    BY <1>0, <1>4 DEF WithdrawRefused, GoTo, TypeOK
  <2> QED BY <2>1 DEF WithdrawInv, walletVars
<1>5. CASE BeginWithdraw(r)
  <2>1. pc[r] = "begin" /\ pc'[r] = "debitTotal" /\ UNCHANGED <<walletVars, snap>>
    BY <1>0, <1>5 DEF BeginWithdraw, At, GoTo, TypeOK
  <2> QED BY <1>a, <2>1 DEF WithdrawInv, walletVars
<1>6. CASE DebitWithdraw(r)
  <2>1. DebitMatches(WalletOf[r], WithdrawTotal(r)) \in BOOLEAN
    BY DEF DebitMatches, Covers
  <2>2. pc[r] = "debitTotal" /\ UNCHANGED <<walletVars, snap>>
    BY <1>6 DEF DebitWithdraw, At
  <2>3. \/ /\ DebitMatches(WalletOf[r], WithdrawTotal(r)) /\ pc'[r] = "send"
           /\ holder'[WalletOf[r]] = r
        \/ r \notin open' /\ pc'[r] = "release"
    BY <1>0, <1>6, <2>1, UpdateHolds DEF DebitWithdraw
  <2> QED BY <1>a, <2>2, <2>3 DEF WithdrawInv, DebitMatches, Holds, walletVars
<1>7. CASE SendPayment(r)
  <2>1. /\ pc[r] = "send" /\ pc'[r] = "paying"
        /\ UNCHANGED <<walletVars, snap, holder, open>>
    BY <1>0, <1>7 DEF SendPayment, At, GoTo, TypeOK
  <2> QED BY <1>a, <2>1 DEF WithdrawInv, DebitMatches, Holds, walletVars
<1>8. CASE PayInvoiceResolves(r)
  <2>1. /\ pc[r] = "paying" /\ pc'[r] = "commitPaid"
        /\ UNCHANGED <<walletVars, snap, holder, open>>
    BY <1>0, <1>8 DEF PayInvoiceResolves, At, GoTo, TypeOK
  <2> QED BY <1>a, <2>1 DEF WithdrawInv, DebitMatches, Holds, walletVars
<1>9. CASE PayInvoiceRejects(r)
  <2>1. pc[r] \in {"send", "paying"} /\ pc'[r] = "release" /\ UNCHANGED walletVars
    BY <1>0, <1>9 DEF PayInvoiceRejects, At, GoTo, Fail, TypeOK
  <2> QED BY <2>1 DEF WithdrawInv, walletVars
<1>10. CASE CommitWithdraw(r)
  <2>1. pc'[r] = "release" /\ row'[r] = "settled"
    BY <1>0, <1>10 DEF CommitWithdraw, GoTo, TypeOK
  <2> QED BY <2>1 DEF WithdrawInv
<1>11. CASE ClearWalletBusy(r)
  <2>1. /\ UNCHANGED walletVars
        /\ pc'[r] = IF row[r] = "settled" THEN "done" ELSE "failed"
    BY <1>0, <1>11 DEF ClearWalletBusy, GoTo, TypeOK
  <2> QED BY <2>1 DEF WithdrawInv, walletVars
<1> QED BY <1>1, <1>2, <1>3, <1>4, <1>5, <1>6, <1>7, <1>8, <1>9, <1>10, <1>11 DEF Withdraw

\* Steps that disturb nobody keep everything.
LEMMA AllKept ==
    ASSUME TypeOK, GuardsHold, \A c \in Calls : Undisturbed(c)
    PROVE  GuardsHold'
<1>1. Transfers \cup Deposits \cup Events \cup Withdrawals \subseteq Calls
  BY DEF Calls
<1>2. \A t \in Transfers : TransferInv(t)'
  BY <1>1, TransferKept DEF GuardsHold
<1>3. \A d \in Deposits : DepositInv(d)'
  BY <1>1, DepositKept DEF GuardsHold
<1>4. \A e \in Events : EventInv(e)'
  BY <1>1, EventKept DEF GuardsHold
<1>5. \A r \in Withdrawals : WithdrawInv(r)'
  BY <1>1, WithdrawKept DEF GuardsHold
<1> QED BY <1>2, <1>3, <1>4, <1>5 DEF GuardsHold

\* A step of call c keeps everything if it keeps what c relies on.
LEMMA OwnKept ==
    ASSUME TypeOK, GuardsHold, NEW c \in Calls,
           \A o \in Calls : o # c => Undisturbed(o),
           c \in Transfers => TransferInv(c)',
           c \in Deposits => DepositInv(c)',
           c \in Events => EventInv(c)',
           c \in Withdrawals => WithdrawInv(c)'
    PROVE  GuardsHold'
<1>1. Transfers \cup Deposits \cup Events \cup Withdrawals \subseteq Calls
  BY DEF Calls
<1>2. \A t \in Transfers : TransferInv(t)'
  BY <1>1, TransferKept DEF GuardsHold
<1>3. \A d \in Deposits : DepositInv(d)'
  BY <1>1, DepositKept DEF GuardsHold
<1>4. \A e \in Events : EventInv(e)'
  BY <1>1, EventKept DEF GuardsHold
<1>5. \A r \in Withdrawals : WithdrawInv(r)'
  BY <1>1, WithdrawKept DEF GuardsHold
<1> QED BY <1>2, <1>3, <1>4, <1>5 DEF GuardsHold

LEMMA KindsDisjoint ==
    /\ \A t \in Transfers : t \in Calls /\ t \notin Deposits \cup Events \cup Withdrawals
    /\ \A d \in Deposits : d \in Calls /\ d \notin Transfers \cup Events \cup Withdrawals
    /\ \A e \in Events : e \in Calls /\ e \notin Transfers \cup Deposits \cup Withdrawals
    /\ \A r \in Withdrawals : r \in Calls /\ r \notin Transfers \cup Deposits \cup Events
BY WalletServiceAssumption DEF Calls

LEMMA LoseTransactionKeeps ==
    ASSUME TypeOK, GuardsHold, NEW c \in Calls, LoseTransaction(c)
    PROVE  GuardsHold'
<1>1. UNCHANGED <<walletVars, pc, snap>> /\ DB!End(c) /\ c \notin open'
  BY DEF LoseTransaction, callVars, DB!End
<1>2. \A o \in Calls : o # c => Undisturbed(o)
  BY <1>1, OwnTransaction, ControlUndisturbed, Labels
<1>3. c \in Transfers => TransferInv(c)'
  BY <1>1 DEF GuardsHold, TransferInv, TransferChecked, walletVars
<1>4. c \in Deposits => DepositInv(c)'
  BY <1>1 DEF GuardsHold, DepositInv, walletVars
<1>5. c \in Events => EventInv(c)'
  BY <1>1 DEF EventInv
<1>6. c \in Withdrawals => WithdrawInv(c)'
  <2>1. WithdrawAccepts(c)' <=> WithdrawAccepts(c)
    BY <1>1 DEF WithdrawAccepts, WithdrawTotal, WithdrawSats
  <2> QED BY <1>1, <2>1 DEF GuardsHold, WithdrawInv, walletVars
<1> QED BY <1>2, <1>3, <1>4, <1>5, <1>6, OwnKept

LEMMA OperationOnLostTransactionKeeps ==
    ASSUME TypeOK, GuardsHold, NEW c \in Calls, OperationOnLostTransaction(c)
    PROVE  GuardsHold'
<1>1. /\ UNCHANGED <<walletVars, snap, holder, open>>
      /\ pc[c] \in InTransaction
      /\ c \notin open'
      /\ pc'[c] = IF c \in Withdrawals THEN "release" ELSE "failed"
  BY DEF OperationOnLostTransaction, GoTo, TypeOK
<1>2. \A o \in Calls : o # c => Undisturbed(o)
  BY <1>1, OwnTransaction, ControlUndisturbed, Labels DEF OperationOnLostTransaction
<1>3. c \in Transfers => TransferInv(c)'
  BY <1>1, KindsDisjoint
     DEF GuardsHold, TransferInv, TransferChecked, TransferPCs, InTransaction, walletVars
<1>4. c \in Deposits => DepositInv(c)'
  BY <1>1, KindsDisjoint DEF GuardsHold, DepositInv, DepositPCs, InTransaction, walletVars
<1>5. c \in Events => EventInv(c)'
  BY <1>1 DEF EventInv
<1>6. c \in Withdrawals => WithdrawInv(c)'
  BY <1>1 DEF GuardsHold, WithdrawInv, InTransaction, walletVars
<1> QED BY <1>2, <1>3, <1>4, <1>5, <1>6, OwnKept

\* A call that dies holds what it held, but will not go on.
LEMMA RestartKeeps ==
    ASSUME TypeOK, GuardsHold, NEW i \in Instances, Restart(i)
    PROVE  GuardsHold'
<1>1. /\ UNCHANGED <<walletVars, snap, holder, open>>
      /\ \A c \in Calls : \/ pc'[c] = pc[c]
                          \/ pc'[c] = "killed" /\ pc[c] \notin {"start"} \cup Ended
  BY DEF Restart
<1>2. \A c \in Calls : pc'[c] = pc[c] => Undisturbed(c)
  BY <1>1, ControlUndisturbed DEF Holds
<1>3. ASSUME NEW t \in Transfers
      PROVE  TransferInv(t)'
  <2>1. CASE pc'[t] = pc[t]
    BY <1>2, <2>1, KindsDisjoint, TransferKept DEF GuardsHold
  <2>2. CASE pc'[t] = "killed" /\ pc[t] \notin {"start"} \cup Ended
    BY <1>1, <2>2 DEF GuardsHold, TransferInv, TransferChecked, TransferPCs, ClaimHeld,
       DebitHeld, CreditHeld, Ended, walletVars
  <2> QED BY <1>1, <2>1, <2>2, KindsDisjoint
<1>4. ASSUME NEW d \in Deposits
      PROVE  DepositInv(d)'
  <2>1. CASE pc'[d] = pc[d]
    BY <1>2, <2>1, KindsDisjoint, DepositKept DEF GuardsHold
  <2>2. CASE pc'[d] = "killed" /\ pc[d] \notin {"start"} \cup Ended
    BY <1>1, <2>2 DEF GuardsHold, DepositInv, DepositPCs, Ended, walletVars
  <2> QED BY <1>1, <2>1, <2>2, KindsDisjoint
<1>5. ASSUME NEW e \in Events
      PROVE  EventInv(e)'
  <2>1. CASE pc'[e] = pc[e]
    BY <1>2, <2>1, KindsDisjoint, EventKept DEF GuardsHold
  <2>2. CASE pc'[e] = "killed"
    BY <2>2 DEF EventInv
  <2> QED BY <1>1, <2>1, <2>2, KindsDisjoint
<1>6. ASSUME NEW r \in Withdrawals
      PROVE  WithdrawInv(r)'
  <2>1. CASE pc'[r] = pc[r]
    BY <1>2, <2>1, KindsDisjoint, WithdrawKept DEF GuardsHold
  <2>2. CASE pc'[r] = "killed" /\ pc[r] \notin {"start"} \cup Ended
    BY <1>1, <2>2 DEF GuardsHold, WithdrawInv, Ended, walletVars
  <2> QED BY <1>1, <2>1, <2>2, KindsDisjoint
<1> QED BY <1>3, <1>4, <1>5, <1>6 DEF GuardsHold

LEMMA EnvironmentKeeps ==
    ASSUME TypeOK, GuardsHold, Environment
    PROVE  GuardsHold'
<1>1. ASSUME NEW w \in Wallets, DisableWallet(w)
      PROVE  GuardsHold'
  <2>1. \A c \in Calls : ~Holds(c, w)
    BY <1>1, WalletServiceAssumption DEF DisableWallet, DB!Lockable, Holds
  <2>2. \A c \in Calls : Undisturbed(c)
    BY <1>1, <2>1 DEF DisableWallet, Undisturbed, Holds, callVars
  <2> QED BY <2>2, AllKept
<1>2. ASSUME NEW d \in Deposits, InvoicePaid(d)
      PROVE  GuardsHold'
  <2>1. \A c \in Calls : Undisturbed(c)
    BY <1>2, ControlUndisturbed DEF InvoicePaid, Holds, callVars
  <2> QED BY <2>1, AllKept
<1>3. ASSUME NEW i \in Invoices, PaymentSucceeds(i) \/ PaymentFails(i)
      PROVE  GuardsHold'
  <2>1. \A c \in Calls : Undisturbed(c)
    BY <1>3, ControlUndisturbed DEF PaymentSucceeds, PaymentFails, Holds, callVars
  <2> QED BY <2>1, AllKept
<1> QED BY <1>1, <1>2, <1>3, LoseTransactionKeeps, OperationOnLostTransactionKeeps, RestartKeeps
        DEF Environment

LEMMA StepKeeps ==
    ASSUME TypeOK, GuardsHold, [Next]_vars
    PROVE  GuardsHold'
<1> USE KindsDisjoint
<1>1. ASSUME NEW b \in Batches, CreatePayRequests(b)
      PROVE  GuardsHold'
  BY <1>1, CreatePayRequestsUndisturbing, AllKept
<1>2. ASSUME NEW t \in Payments, StartPayUser(t)
      PROVE  GuardsHold'
  <2>1. t \in Transfers
    BY DEF Transfers
  <2>2. TransferInv(t)'
    BY <1>2, <2>1, StartPayUserKeeps DEF GuardsHold
  <2> QED BY <1>2, <2>1, <2>2, StartPayUserUndisturbing, OwnKept
<1>3. ASSUME NEW t \in Settlements, PayRequest(t)
      PROVE  GuardsHold'
  <2>1. t \in Transfers
    BY DEF Transfers
  <2>2. TransferInv(t)'
    BY <1>3, <2>1, RequestStepKeeps DEF GuardsHold
  <2> QED BY <1>3, <2>1, <2>2, RequestUndisturbing, OwnKept
<1>4. ASSUME NEW t \in Transfers, Transfer(t)
      PROVE  GuardsHold'
  <2>1. TransferInv(t)'
    BY <1>4, TransferStepKeeps DEF GuardsHold
  <2> QED BY <1>4, <2>1, TransferUndisturbing, OwnKept
<1>5. ASSUME NEW d \in Deposits, Deposit(d)
      PROVE  GuardsHold'
  <2>1. DepositInv(d)'
    BY <1>5, DepositStepKeeps DEF GuardsHold
  <2> QED BY <1>5, <2>1, DepositUndisturbing, OwnKept
<1>6. ASSUME NEW e \in Events, ImpactDeposit(e)
      PROVE  GuardsHold'
  <2>1. EventInv(e)'
    BY <1>6, EventStepKeeps DEF GuardsHold
  <2> QED BY <1>6, <2>1, EventUndisturbing, OwnKept
<1>7. ASSUME NEW r \in Withdrawals, Withdraw(r)
      PROVE  GuardsHold'
  <2>1. WithdrawInv(r)'
    BY <1>7, WithdrawStepKeeps DEF GuardsHold
  <2> QED BY <1>7, <2>1, WithdrawUndisturbing, OwnKept
<1>8. CASE UNCHANGED vars
  <2>1. \A c \in Calls : Undisturbed(c)
    BY <1>8, ControlUndisturbed DEF vars, callVars, Holds
  <2> QED BY <2>1, AllKept
<1> QED BY <1>1, <1>2, <1>3, <1>4, <1>5, <1>6, <1>7, <1>8, EnvironmentKeeps DEF Next, Quiescent

LEMMA InitKeeps == Init => GuardsHold
<1> SUFFICES ASSUME Init PROVE GuardsHold
  OBVIOUS
<1> USE DEF Init, DB!DatabaseInit
<1>1. \A t \in Transfers : TransferInv(t)
  BY KindsDisjoint DEF TransferInv, TransferChecked, TransferPCs
<1>2. \A d \in Deposits : DepositInv(d)
  BY KindsDisjoint DEF DepositInv, DepositPCs
<1>3. \A e \in Events : EventInv(e)
  BY DEF EventInv
<1>4. \A r \in Withdrawals : WithdrawInv(r)
  BY KindsDisjoint DEF WithdrawInv
<1> QED BY <1>1, <1>2, <1>3, <1>4 DEF GuardsHold

(***************************************************************************)
(* Whatever is interleaved, lost or restarted, a call whose transaction is *)
(* still open may rely on every guard it has evaluated and every check it  *)
(* has made (wallet.service.ts:391-411, 471-478, 543-567, 694-727).        *)
(***************************************************************************)
THEOREM GuardsAlwaysHold == Spec => []GuardsHold
<1>1. Init => TypeOK /\ GuardsHold
  BY InitTyped, InitKeeps
<1>2. TypeOK /\ GuardsHold /\ [Next]_vars => (TypeOK /\ GuardsHold)'
  BY StepTyped, StepKeeps
<1>3. TypeOK /\ GuardsHold => GuardsHold
  OBVIOUS
<1> QED BY <1>1, <1>2, <1>3, PTL DEF Spec

-----------------------------------------------------------------------------
(* The steps that commit something, and what is true when they do.         *)

CommittedVars == <<balance, row, request>>

LEMMA OnlyCommits ==
    ASSUME [Next]_vars
    PROVE  \/ UNCHANGED CommittedVars
           \/ \E b \in Batches : CreatePayRequests(b)
           \/ \E t \in Transfers : CommitTransfer(t)
           \/ \E d \in Deposits : RecordDeposit(d)
           \/ \E e \in Events : CommitDeposit(e)
           \/ \E r \in Withdrawals : CommitWithdraw(r)
<1> USE DEF CommittedVars, walletVars
<1>1. ASSUME NEW t \in Payments, StartPayUser(t)
      PROVE  UNCHANGED CommittedVars
  BY <1>1 DEF StartPayUser
<1>2. ASSUME NEW t \in Settlements, PayRequest(t)
      PROVE  UNCHANGED CommittedVars
  BY <1>2 DEF PayRequest, StartPayRequest, FindPayRequest, ClaimPayRequest
<1>3. ASSUME NEW t \in Transfers, Transfer(t), ~CommitTransfer(t)
      PROVE  UNCHANGED CommittedVars
  BY <1>3 DEF Transfer, ReadPayerWallet, ReadPayeeWallet, DebitPayer, CreditPayee
<1>4. ASSUME NEW d \in Deposits, Deposit(d), ~RecordDeposit(d)
      PROVE  UNCHANGED CommittedVars
  BY <1>4 DEF Deposit, StartDeposit, CheckLimit, CreateInvoice, InvoiceUnavailable
<1>5. ASSUME NEW e \in Events, ImpactDeposit(e), ~CommitDeposit(e)
      PROVE  UNCHANGED CommittedVars
  BY <1>5 DEF ImpactDeposit, InvoiceUpdated, ClaimDeposit, CreditDeposit
<1>6. ASSUME NEW r \in Withdrawals, Withdraw(r), ~CommitWithdraw(r)
      PROVE  UNCHANGED CommittedVars
  BY <1>6 DEF Withdraw, ReadWithdrawWallet, SetWalletBusy, DecodeInvoice, WithdrawRefused,
     BeginWithdraw, DebitWithdraw, SendPayment, PayInvoiceResolves, PayInvoiceRejects,
     ClearWalletBusy
<1>7. ASSUME Environment
      PROVE  UNCHANGED CommittedVars
  BY <1>7 DEF Environment, LoseTransaction, OperationOnLostTransaction, Restart, DisableWallet,
     InvoicePaid, PaymentSucceeds, PaymentFails
<1>8. CASE UNCHANGED vars
  BY <1>8 DEF vars
<1> QED BY <1>1, <1>2, <1>3, <1>4, <1>5, <1>6, <1>7, <1>8 DEF Next, Quiescent

LEMMA AtCommitTransfer ==
    ASSUME TypeOK, GuardsHold, NEW t \in Transfers, CommitTransfer(t)
    PROVE  /\ Payer(t) \in Wallets /\ Payee(t) \in Wallets /\ Payer(t) # Payee(t)
           /\ TransferSats(t) \in Int /\ PositiveSats(TransferSats(t))
           /\ DebitMatches(Payer(t), TransferSats(t))
           /\ CreditMatches(Payee(t), TransferSats(t))
           /\ t \in Settlements => /\ request[RequestOf[t]] = "unpaid"
                                   /\ Receiver[RequestOf[t]] = PayerOf[t]
           /\ row[t] = "none"
<1>1. pc[t] = "commit" /\ t \in open /\ TransferInv(t)
  BY DEF CommitTransfer, At, GuardsHold
<1>2. /\ ClaimHeld(t) /\ DebitHeld(t) /\ CreditHeld(t) /\ TransferChecked(t)
      /\ row[t] = "none"
  BY <1>1 DEF TransferInv
<1>3. CASE t \in Settlements
  <2>1. Receiver[RequestOf[t]] = PayerOf[t]
    BY <1>1, <1>2, <1>3 DEF TransferChecked, TransferPCs
  <2>2. RequestOf[t] \in PayRequests /\ Creator[RequestOf[t]] # Receiver[RequestOf[t]]
    BY <1>3, WalletServiceAssumption
  <2> QED BY <1>1, <1>2, <1>3, <2>1, <2>2, TransferTyped
          DEF ClaimHeld, DebitHeld, CreditHeld, ClaimMatches, Payer, Payee
<1>4. CASE t \notin Settlements
  <2>1. t \in Payments /\ PayUserAccepts(t)
    BY <1>1, <1>2, <1>4 DEF TransferChecked, TransferPCs, Transfers
  <2> QED BY <1>1, <1>2, <1>4, <2>1, TransferTyped
          DEF DebitHeld, CreditHeld, PayUserAccepts, Payer, Payee, TransferSats
<1> QED BY <1>3, <1>4

LEMMA AtCommitDeposit ==
    ASSUME TypeOK, GuardsHold, NEW e \in Events, CommitDeposit(e)
    PROVE  /\ DepositOf[e] \in Deposits /\ WalletOf[DepositOf[e]] \in Wallets
           /\ Amount[DepositOf[e]] \in Int /\ PositiveSats(Amount[DepositOf[e]])
           /\ DepositUnclaimed(e) /\ DepositFits(e)
<1>1. pc[e] = "commitDeposit" /\ e \in open /\ EventInv(e)
  BY DEF CommitDeposit, At, GuardsHold
<1>2. DepositUnclaimed(e) /\ DepositFits(e)
  BY <1>1 DEF EventInv
<1>3. DepositOf[e] \in Deposits /\ DepositInv(DepositOf[e])
  BY EventTyped DEF GuardsHold
<1>4. PositiveSats(Amount[DepositOf[e]])
  BY <1>2, <1>3 DEF DepositUnclaimed, DepositInv
<1> QED BY <1>2, <1>4, EventTyped

LEMMA AtCommitWithdraw ==
    ASSUME TypeOK, GuardsHold, NEW r \in Withdrawals, CommitWithdraw(r)
    PROVE  /\ WalletOf[r] \in Wallets
           /\ WithdrawSats(r) \in Int /\ PositiveSats(WithdrawSats(r))
           /\ WithdrawTotal(r) \in Int /\ WithdrawTotal(r) > 0
           /\ DebitMatches(WalletOf[r], WithdrawTotal(r))
           /\ row[r] = "none"
<1>1. pc[r] = "commitPaid" /\ r \in open /\ WithdrawInv(r)
  BY DEF CommitWithdraw, At, GuardsHold
<1>2. /\ WithdrawAccepts(r) /\ DebitMatches(WalletOf[r], WithdrawTotal(r))
      /\ row[r] = "none"
  BY <1>1 DEF WithdrawInv
<1>3. WithdrawSats(r) \in Int /\ PositiveSats(WithdrawSats(r))
  BY <1>2, WithdrawTyped DEF WithdrawAccepts
<1>4. WithdrawTotal(r) >= WithdrawSats(r) /\ WithdrawSats(r) >= 1
  BY <1>3, TotalCovers DEF WithdrawTotal, PositiveSats
<1> QED BY <1>2, <1>3, <1>4, WithdrawTyped

-----------------------------------------------------------------------------
(* Balances.                                                               *)

LEMMA StepInRange ==
    ASSUME TypeOK, GuardsHold, BalanceInRange, [Next]_vars
    PROVE  BalanceInRange'
<1> USE DEF BalanceInRange, Sats
<1>0. MaxSats \in Int
  BY AmountsAssumption
<1>1. CASE UNCHANGED balance
  BY <1>1
<1>2. ASSUME NEW t \in Transfers, CommitTransfer(t)
      PROVE  BalanceInRange'
  <2> DEFINE n == TransferSats(t)
  <2>1. /\ Payer(t) \in Wallets /\ Payee(t) \in Wallets /\ Payer(t) # Payee(t)
        /\ n \in Int /\ n >= 1
        /\ balance[Payer(t)] >= n
        /\ balance[Payee(t)] <= MaxSats - n
    BY <1>2, AtCommitTransfer DEF PositiveSats, DebitMatches, CreditMatches, Covers, HasRoom
  <2>2. balance' = [balance EXCEPT ![Payer(t)] = @ - n, ![Payee(t)] = @ + n]
    BY <1>2 DEF CommitTransfer, Transferred
  <2> HIDE DEF n
  <2>3. ASSUME NEW w \in Wallets
        PROVE  balance'[w] \in 0..MaxSats
    <3>1. CASE w = Payer(t)
      BY <1>0, <2>1, <2>2, <3>1 DEF TypeOK
    <3>2. CASE w = Payee(t)
      BY <1>0, <2>1, <2>2, <3>2 DEF TypeOK
    <3>3. CASE w # Payer(t) /\ w # Payee(t)
      BY <2>2, <3>3 DEF TypeOK
    <3> QED BY <3>1, <3>2, <3>3
  <2> QED BY <2>3
<1>3. ASSUME NEW e \in Events, CommitDeposit(e)
      PROVE  BalanceInRange'
  <2>1. /\ WalletOf[DepositOf[e]] \in Wallets
        /\ Amount[DepositOf[e]] \in Int /\ Amount[DepositOf[e]] >= 1
        /\ balance[WalletOf[DepositOf[e]]] <= MaxSats - Amount[DepositOf[e]]
    BY <1>3, AtCommitDeposit DEF PositiveSats, DepositFits, HasRoom
  <2> QED BY <1>0, <1>3, <2>1 DEF CommitDeposit, TypeOK
<1>4. ASSUME NEW r \in Withdrawals, CommitWithdraw(r)
      PROVE  BalanceInRange'
  <2>1. /\ WalletOf[r] \in Wallets /\ WithdrawTotal(r) \in Int /\ WithdrawTotal(r) > 0
        /\ balance[WalletOf[r]] >= WithdrawTotal(r)
    BY <1>4, AtCommitWithdraw DEF DebitMatches, Covers
  <2> QED BY <1>0, <1>4, <2>1 DEF CommitWithdraw, Charged, TypeOK
<1>5. ASSUME NEW b \in Batches, CreatePayRequests(b)
      PROVE  UNCHANGED balance
  BY <1>5 DEF CreatePayRequests
<1>6. ASSUME NEW d \in Deposits, RecordDeposit(d)
      PROVE  UNCHANGED balance
  BY <1>6 DEF RecordDeposit
<1> QED BY <1>1, <1>2, <1>3, <1>4, <1>5, <1>6, OnlyCommits DEF CommittedVars

\* The balances the program starts with are in range.
LEMMA InitInRange == Init => BalanceInRange
BY WalletServiceAssumption DEF Init, BalanceInRange

(***************************************************************************)
(* No wallet is ever overdrawn or beyond the integer column, for any       *)
(* number of concurrent transfers, deposits and withdrawals on any number  *)
(* of server instances (wallet.service.ts:405-411, 471-478, 543-567,       *)
(* 703-727).                                                               *)
(***************************************************************************)
THEOREM BalancesStayInRange == Spec => []BalanceInRange
<1>1. Init => BalanceInRange
  BY InitInRange
<1>2. BalanceInRange /\ TypeOK /\ GuardsHold /\ [Next]_vars => BalanceInRange'
  BY StepInRange
<1> QED BY <1>1, <1>2, TypeCorrect, GuardsAlwaysHold, PTL DEF Spec

\* No commit debits a disabled wallet: its guard was true of it when it was locked.
LEMMA StepDoesNotDebit ==
    ASSUME TypeOK, GuardsHold, [Next]_vars, NEW w \in disabled
    PROVE  balance'[w] >= balance[w]
<1>0. w \in Wallets /\ balance \in [Wallets -> Int]
  BY DEF TypeOK
<1>1. CASE UNCHANGED balance
  BY <1>0, <1>1
<1>2. ASSUME NEW t \in Transfers, CommitTransfer(t)
      PROVE  balance'[w] >= balance[w]
  <2>1. /\ Payer(t) \in Wallets /\ Payee(t) \in Wallets /\ Payer(t) # w
        /\ TransferSats(t) \in Int /\ TransferSats(t) >= 1
    BY <1>2, AtCommitTransfer DEF PositiveSats, DebitMatches
  <2>2. balance' = [balance EXCEPT ![Payer(t)] = @ - TransferSats(t),
                                   ![Payee(t)] = @ + TransferSats(t)]
    BY <1>2 DEF CommitTransfer, Transferred
  <2> QED BY <1>0, <2>1, <2>2
<1>3. ASSUME NEW e \in Events, CommitDeposit(e)
      PROVE  balance'[w] >= balance[w]
  <2>1. Amount[DepositOf[e]] \in Int /\ Amount[DepositOf[e]] >= 1
    BY <1>3, AtCommitDeposit DEF PositiveSats
  <2> QED BY <1>0, <1>3, <2>1 DEF CommitDeposit
<1>4. ASSUME NEW r \in Withdrawals, CommitWithdraw(r)
      PROVE  balance'[w] >= balance[w]
  <2>1. WalletOf[r] # w
    BY <1>4, AtCommitWithdraw DEF DebitMatches
  <2> QED BY <1>0, <1>4, <2>1 DEF CommitWithdraw, Charged
<1>5. ASSUME NEW b \in Batches, CreatePayRequests(b)
      PROVE  UNCHANGED balance
  BY <1>5 DEF CreatePayRequests
<1>6. ASSUME NEW d \in Deposits, RecordDeposit(d)
      PROVE  UNCHANGED balance
  BY <1>6 DEF RecordDeposit
<1> QED BY <1>1, <1>2, <1>3, <1>4, <1>5, <1>6, OnlyCommits DEF CommittedVars

(***************************************************************************)
(* A disabled wallet is not debited, not even by a call that had read it   *)
(* as usable before (`disabled: false` in every debit's where clause,      *)
(* wallet.service.ts:474, 546, 706).                                       *)
(***************************************************************************)
THEOREM DisabledWalletsAreNotDebited == Spec => DisabledIsNotDebited
<1>1. TypeOK /\ GuardsHold /\ [Next]_vars => [\A w \in disabled : balance'[w] >= balance[w]]_vars
  BY StepDoesNotDebit
<1> QED BY <1>1, TypeCorrect, GuardsAlwaysHold, PTL DEF Spec, DisabledIsNotDebited

-----------------------------------------------------------------------------
(* Balances and rows.                                                      *)

\* The rows that have settled: only ever finitely many.
SettledRows == {r \in Calls \ Events : Settled(r)}

\* The sats of a row, by its kind.
LEMMA SatsTyped ==
    ASSUME TypeOK
    PROVE  /\ \A r \in Calls \ Events : SatsOf[r] \in Int
           /\ \A t \in Transfers : SatsOf[t] = TransferSats(t)
           /\ \A d \in Deposits : SatsOf[d] = Amount[d]
           /\ \A r \in Withdrawals : SatsOf[r] = WithdrawTotal(r)
<1>1. ASSUME NEW t \in Transfers
      PROVE  SatsOf[t] = TransferSats(t) /\ TransferSats(t) \in Int
  BY TransferTyped, KindsDisjoint DEF SatsOf
<1>2. ASSUME NEW d \in Deposits
      PROVE  SatsOf[d] = Amount[d] /\ Amount[d] \in Int
  BY DepositTyped, KindsDisjoint DEF SatsOf
<1>3. ASSUME NEW r \in Withdrawals
      PROVE  SatsOf[r] = WithdrawTotal(r) /\ WithdrawTotal(r) \in Int
  BY WithdrawTyped, KindsDisjoint DEF SatsOf
<1> QED BY <1>1, <1>2, <1>3 DEF Calls

\* What a withdrawal takes is fixed by the balance it has read first.
LEMMA SnapshotKept ==
    ASSUME TypeOK, [Next]_vars, NEW r \in Withdrawals, pc[r] # "start"
    PROVE  snap'[r] = snap[r]
<1> USE DEF callVars
<1>1. CASE UNCHANGED snap
  BY <1>1
<1>2. ASSUME NEW o \in Withdrawals, ReadWithdrawWallet(o)
      PROVE  snap'[r] = snap[r]
  BY <1>2 DEF ReadWithdrawWallet, At, TypeOK
<1>3. ASSUME NEW o \in Withdrawals, Withdraw(o), ~ReadWithdrawWallet(o)
      PROVE  UNCHANGED snap
  BY <1>3 DEF Withdraw, SetWalletBusy, DecodeInvoice, WithdrawRefused, BeginWithdraw,
     DebitWithdraw, SendPayment, PayInvoiceResolves, PayInvoiceRejects, CommitWithdraw,
     ClearWalletBusy
<1>4. ASSUME NEW t \in Transfers, Transfer(t)
      PROVE  UNCHANGED snap
  BY <1>4 DEF Transfer, ReadPayerWallet, ReadPayeeWallet, DebitPayer, CreditPayee, CommitTransfer
<1>5. ASSUME NEW t \in Settlements, PayRequest(t)
      PROVE  UNCHANGED snap
  BY <1>5 DEF PayRequest, StartPayRequest, FindPayRequest, ClaimPayRequest
<1>6. ASSUME NEW t \in Payments, StartPayUser(t)
      PROVE  UNCHANGED snap
  BY <1>6 DEF StartPayUser
<1>7. ASSUME NEW d \in Deposits, Deposit(d)
      PROVE  UNCHANGED snap
  BY <1>7 DEF Deposit, StartDeposit, CheckLimit, CreateInvoice, InvoiceUnavailable, RecordDeposit
<1>8. ASSUME NEW e \in Events, ImpactDeposit(e)
      PROVE  UNCHANGED snap
  BY <1>8 DEF ImpactDeposit, InvoiceUpdated, ClaimDeposit, CreditDeposit, CommitDeposit
<1>9. ASSUME Environment
      PROVE  UNCHANGED snap
  BY <1>9 DEF Environment, LoseTransaction, OperationOnLostTransaction, Restart, DisableWallet,
     InvoicePaid, PaymentSucceeds, PaymentFails
<1>10. ASSUME NEW b \in Batches, CreatePayRequests(b)
       PROVE  UNCHANGED snap
  BY <1>10 DEF CreatePayRequests
<1>11. CASE UNCHANGED vars
  BY <1>11 DEF vars
<1> QED BY <1>1, <1>2, <1>3, <1>4, <1>5, <1>6, <1>7, <1>8, <1>9, <1>10, <1>11
        DEF Next, Quiescent

\* So a row that has settled, and the one that is settling, keep their sats.
LEMMA SatsKept ==
    ASSUME TypeOK, TypeOK', GuardsHold, [Next]_vars, NEW r \in Calls \ Events,
           Settled(r) \/ pc[r] # "start"
    PROVE  SatsOf'[r] = SatsOf[r]
<1>1. CASE r \in Withdrawals
  <2>1. pc[r] # "start"
    BY <1>1 DEF GuardsHold, WithdrawInv, Settled
  <2>2. snap'[r] = snap[r]
    BY <1>1, <2>1, SnapshotKept
  <2>3. WithdrawTotal(r)' = WithdrawTotal(r)
    BY <2>2 DEF WithdrawTotal, WithdrawSats
  <2> QED BY <1>1, <2>3, KindsDisjoint DEF SatsOf
<1>2. CASE r \notin Withdrawals
  BY <1>2 DEF SatsOf
<1> QED BY <1>1, <1>2

\* The total of a set of rows when none of them settles, and when one does.
LEMMA TotalKept ==
    ASSUME TypeOK, TypeOK', GuardsHold, [Next]_vars,
           NEW S \in SUBSET (Calls \ Events), IsFiniteSet({r \in S : Settled(r)}),
           \A r \in S : Settled(r)' <=> Settled(r)
    PROVE  SumSettled(S)' = SumSettled(S)
<1> DEFINE R == {r \in S : Settled(r)}
<1>1. R' = R /\ IsFiniteSet(R) /\ R \in SUBSET R
  OBVIOUS
<1>2. \A r \in R : SatsOf'[r] = SatsOf[r]
  BY SatsKept
<1>3. SumFunctionOnSet(SatsOf', R) = SumFunctionOnSet(SatsOf, R)
  <2> HIDE DEF R
  <2> QED BY <1>1, <1>2, SumAgrees
<1>4. SumSettled(S)' = SumFunctionOnSet(SatsOf', R')
  BY DEF SumSettled
<1> QED BY <1>1, <1>3, <1>4 DEF SumSettled

LEMMA TotalGrows ==
    ASSUME TypeOK, TypeOK', GuardsHold, [Next]_vars,
           NEW S \in SUBSET (Calls \ Events), IsFiniteSet({r \in S : Settled(r)}),
           NEW a \in S, ~Settled(a), Settled(a)', pc[a] # "start",
           \A r \in S : r # a => (Settled(r)' <=> Settled(r))
    PROVE  SumSettled(S)' = SumSettled(S) + SatsOf[a]
<1> DEFINE R == {r \in S : Settled(r)}
<1>1. R' = R \cup {a} /\ IsFiniteSet(R) /\ a \notin R /\ R \in SUBSET R
  OBVIOUS
<1>2. \A r \in R \cup {a} : SatsOf'[r] = SatsOf[r] /\ SatsOf[r] \in Int
  BY SatsKept, SatsTyped
<1>3. SumSettled(S)' = SumFunctionOnSet(SatsOf', R')
  BY DEF SumSettled
<1>4. SumSettled(S) = SumFunctionOnSet(SatsOf, R)
  BY DEF SumSettled
<1> HIDE DEF R
<1>5. SumFunctionOnSet(SatsOf', R \cup {a}) = SatsOf'[a] + SumFunctionOnSet(SatsOf', R)
  BY <1>1, <1>2, SumAdd
<1>6. SumFunctionOnSet(SatsOf', R) = SumFunctionOnSet(SatsOf, R)
  BY <1>1, <1>2, SumAgrees
<1>7. SumFunctionOnSet(SatsOf, R) \in Int
  BY <1>1, <1>2, SumInt
<1> QED BY <1>1, <1>2, <1>3, <1>4, <1>5, <1>6, <1>7

\* The invariant: finitely many rows have settled, and they explain the balances.
BalanceInv == BalanceExplained /\ IsFiniteSet(SettledRows)

\* Whose rows are whose.
LEMMA WalletRows ==
    ASSUME NEW w \in Wallets
    PROVE  /\ Received(w) \in SUBSET (Calls \ Events) /\ Spent(w) \in SUBSET (Calls \ Events)
           /\ \A t \in Transfers : /\ t \in Received(w) <=> Payee(t) = w
                                   /\ t \in Spent(w) <=> Payer(t) = w
           /\ \A d \in Deposits : /\ d \in Received(w) <=> WalletOf[d] = w
                                  /\ d \notin Spent(w)
           /\ \A r \in Withdrawals : /\ r \notin Received(w)
                                     /\ r \in Spent(w) <=> WalletOf[r] = w
BY KindsDisjoint DEF Received, Spent, Calls

LEMMA SubtotalsFinite ==
    ASSUME IsFiniteSet(SettledRows), NEW S \in SUBSET (Calls \ Events)
    PROVE  IsFiniteSet({r \in S : Settled(r)})
<1>1. {r \in S : Settled(r)} \in SUBSET SettledRows
  BY DEF SettledRows
<1> HIDE DEF SettledRows
<1> QED BY <1>1, FS_Subset

LEMMA StepExplained ==
    ASSUME TypeOK, TypeOK', GuardsHold, BalanceInv, [Next]_vars
    PROVE  BalanceInv'
<1> USE DEF BalanceInv
<1>0. ASSUME NEW S \in SUBSET (Calls \ Events)
      PROVE  IsFiniteSet({r \in S : Settled(r)}) /\ SumSettled(S) \in Int
  <2> DEFINE R == {r \in S : Settled(r)}
  <2>1. IsFiniteSet(R) /\ R \in SUBSET R
    BY SubtotalsFinite
  <2>2. \A r \in R : SatsOf[r] \in Int
    BY SatsTyped
  <2>3. SumSettled(S) = SumFunctionOnSet(SatsOf, R)
    BY DEF SumSettled
  <2> HIDE DEF R
  <2>4. SumSettled(S) \in Int
    BY <2>1, <2>2, <2>3, SumInt
  <2> QED BY <2>1, <2>4 DEF R
\* A step in which no row settles.
<1>1. ASSUME balance' = balance, \A r \in Calls \ Events : Settled(r)' <=> Settled(r)
      PROVE  BalanceInv'
  <2>1. SettledRows' = SettledRows
    BY <1>1 DEF SettledRows
  <2>2. ASSUME NEW w \in Wallets
        PROVE  /\ SumSettled(Received(w))' = SumSettled(Received(w))
               /\ SumSettled(Spent(w))' = SumSettled(Spent(w))
    <3>1. Received(w) \in SUBSET (Calls \ Events) /\ Spent(w) \in SUBSET (Calls \ Events)
      BY WalletRows
    <3> HIDE DEF BalanceInv
    <3> QED BY <1>0, <1>1, <3>1, TotalKept
  <2>3. BalanceExplained'
    <3>1. \A w \in Wallets : balance'[w] = InitialBalance[w] + SumSettled(Received(w))'
                                              - SumSettled(Spent(w))'
      BY <1>1, <2>2 DEF BalanceExplained
    <3> QED BY <3>1 DEF BalanceExplained
  <2> QED BY <2>1, <2>3
\* A step in which row a settles.
<1>2. ASSUME NEW a \in Calls \ Events, ~Settled(a), pc[a] # "start",
             row' = [row EXCEPT ![a] = "settled"],
             \A w \in Wallets :
               balance'[w] = balance[w] + (IF a \in Received(w) THEN SatsOf[a] ELSE 0)
                                        - (IF a \in Spent(w) THEN SatsOf[a] ELSE 0)
      PROVE  BalanceInv'
  <2>1. Settled(a)' /\ \A r \in Calls \ Events : r # a => (Settled(r)' <=> Settled(r))
    BY <1>2 DEF Settled, TypeOK
  <2>2. IsFiniteSet(SettledRows')
    <3>1. SettledRows' = SettledRows \cup {a}
      BY <2>1 DEF SettledRows
    <3> HIDE DEF SettledRows
    <3> QED BY <3>1, FS_AddElement
  <2>3. ASSUME NEW S \in SUBSET (Calls \ Events)
        PROVE  SumSettled(S)' = SumSettled(S) + (IF a \in S THEN SatsOf[a] ELSE 0)
    <3>1. CASE a \in S
      <4>1. \A r \in S : r # a => (Settled(r)' <=> Settled(r))
        BY <2>1
      <4> HIDE DEF BalanceInv
      <4> QED BY <1>0, <1>2, <2>1, <3>1, <4>1, TotalGrows
    <3>2. CASE a \notin S
      <4>1. \A r \in S : Settled(r)' <=> Settled(r)
        BY <2>1, <3>2
      <4> HIDE DEF BalanceInv
      <4>2. SumSettled(S)' = SumSettled(S)
        BY <1>0, <4>1, TotalKept
      <4>3. SumSettled(S) \in Int
        BY <1>0
      <4> QED BY <3>2, <4>2, <4>3
    <3> QED BY <3>1, <3>2
  <2>4. ASSUME NEW w \in Wallets
        PROVE  balance'[w] = InitialBalance[w] + SumSettled(Received(w))' - SumSettled(Spent(w))'
    <3> DEFINE R == Received(w)
               P == Spent(w)
    <3>1. R \in SUBSET (Calls \ Events) /\ P \in SUBSET (Calls \ Events)
      BY WalletRows
    <3>2. /\ SumSettled(R) \in Int /\ SumSettled(P) \in Int
          /\ SumSettled(R)' = SumSettled(R) + (IF a \in R THEN SatsOf[a] ELSE 0)
          /\ SumSettled(P)' = SumSettled(P) + (IF a \in P THEN SatsOf[a] ELSE 0)
      BY <1>0, <2>3, <3>1
    <3>3. balance[w] = InitialBalance[w] + SumSettled(R) - SumSettled(P)
      BY DEF BalanceExplained
    <3>4. InitialBalance[w] \in Int /\ SatsOf[a] \in Int
      BY SatsTyped, WalletServiceAssumption DEF Sats
    <3>5. balance'[w] = balance[w] + (IF a \in R THEN SatsOf[a] ELSE 0)
                                   - (IF a \in P THEN SatsOf[a] ELSE 0)
      BY <1>2
    <3> HIDE DEF R, P
    <3> QED BY <3>2, <3>3, <3>4, <3>5 DEF R, P
  <2> QED BY <2>2, <2>4 DEF BalanceExplained
<1>3. CASE UNCHANGED CommittedVars
  BY <1>1, <1>3 DEF CommittedVars, Settled
<1>4. ASSUME NEW b \in Batches, CreatePayRequests(b)
      PROVE  BalanceInv'
  BY <1>1, <1>4 DEF CreatePayRequests, Settled
<1>5. ASSUME NEW t \in Transfers, CommitTransfer(t)
      PROVE  BalanceInv'
  <2>1. /\ t \in Calls \ Events /\ ~Settled(t) /\ pc[t] # "start"
        /\ Payer(t) \in Wallets /\ Payee(t) \in Wallets /\ Payer(t) # Payee(t)
        /\ TransferSats(t) \in Int /\ SatsOf[t] = TransferSats(t)
        /\ row' = [row EXCEPT ![t] = "settled"]
    BY <1>5, AtCommitTransfer, KindsDisjoint, SatsTyped DEF CommitTransfer, At, Settled
  <2>2. balance' = [balance EXCEPT ![Payer(t)] = @ - TransferSats(t),
                                   ![Payee(t)] = @ + TransferSats(t)]
    BY <1>5 DEF CommitTransfer, Transferred
  <2>3. ASSUME NEW w \in Wallets
        PROVE  balance'[w] = balance[w] + (IF t \in Received(w) THEN SatsOf[t] ELSE 0)
                                        - (IF t \in Spent(w) THEN SatsOf[t] ELSE 0)
    <3>1. (t \in Received(w) <=> Payee(t) = w) /\ (t \in Spent(w) <=> Payer(t) = w)
      BY WalletRows
    <3>2. balance \in [Wallets -> Int]
      BY DEF TypeOK
    <3> QED BY <2>1, <2>2, <3>1, <3>2
  <2> HIDE DEF BalanceInv
  <2> QED BY <1>2, <2>1, <2>3
<1>6. ASSUME NEW d \in Deposits, RecordDeposit(d)
      PROVE  BalanceInv'
  <2>1. row[d] = "none" /\ row' = [row EXCEPT ![d] = "pending"] /\ balance' = balance
    BY <1>6 DEF RecordDeposit, At, GuardsHold, DepositInv
  <2> QED BY <1>1, <2>1 DEF Settled, TypeOK
<1>7. ASSUME NEW e \in Events, CommitDeposit(e)
      PROVE  BalanceInv'
  <2> DEFINE d == DepositOf[e]
  <2>1. /\ d \in Deposits /\ d \in Calls \ Events /\ ~Settled(d) /\ pc[d] # "start"
        /\ WalletOf[d] \in Wallets /\ Amount[d] \in Int /\ SatsOf[d] = Amount[d]
        /\ row' = [row EXCEPT ![d] = "settled"]
        /\ balance' = [balance EXCEPT ![WalletOf[d]] = @ + Amount[d]]
    <3>1. row[d] = "pending" /\ d \in Deposits
      BY <1>7, AtCommitDeposit DEF DepositUnclaimed
    <3>2. pc[d] = "done"
      BY <3>1 DEF GuardsHold, DepositInv
    <3> QED BY <1>7, <3>1, <3>2, AtCommitDeposit, KindsDisjoint, SatsTyped
            DEF CommitDeposit, Settled
  <2> HIDE DEF d
  <2>2. ASSUME NEW w \in Wallets
        PROVE  balance'[w] = balance[w] + (IF d \in Received(w) THEN SatsOf[d] ELSE 0)
                                        - (IF d \in Spent(w) THEN SatsOf[d] ELSE 0)
    <3>1. (d \in Received(w) <=> WalletOf[d] = w) /\ d \notin Spent(w)
      BY <2>1, WalletRows
    <3>2. balance \in [Wallets -> Int]
      BY DEF TypeOK
    <3> QED BY <2>1, <3>1, <3>2
  <2> HIDE DEF BalanceInv
  <2> QED BY <1>2, <2>1, <2>2
<1>8. ASSUME NEW r \in Withdrawals, CommitWithdraw(r)
      PROVE  BalanceInv'
  <2>1. /\ r \in Calls \ Events /\ ~Settled(r) /\ pc[r] # "start"
        /\ WalletOf[r] \in Wallets /\ WithdrawTotal(r) \in Int /\ SatsOf[r] = WithdrawTotal(r)
        /\ row' = [row EXCEPT ![r] = "settled"]
        /\ balance' = [balance EXCEPT ![WalletOf[r]] = @ - WithdrawTotal(r)]
    BY <1>8, AtCommitWithdraw, KindsDisjoint, SatsTyped DEF CommitWithdraw, Charged, At, Settled
  <2>2. ASSUME NEW w \in Wallets
        PROVE  balance'[w] = balance[w] + (IF r \in Received(w) THEN SatsOf[r] ELSE 0)
                                        - (IF r \in Spent(w) THEN SatsOf[r] ELSE 0)
    <3>1. r \notin Received(w) /\ (r \in Spent(w) <=> WalletOf[r] = w)
      BY WalletRows
    <3>2. balance \in [Wallets -> Int]
      BY DEF TypeOK
    <3> QED BY <2>1, <3>1, <3>2
  <2> HIDE DEF BalanceInv
  <2> QED BY <1>2, <2>1, <2>2
<1> QED BY <1>3, <1>4, <1>5, <1>6, <1>7, <1>8, OnlyCommits

\* Nothing has settled when the program starts.
LEMMA InitExplained == Init => BalanceInv
<1> SUFFICES ASSUME Init PROVE BalanceInv
  OBVIOUS
<1>1. SettledRows = {}
  BY DEF Init, SettledRows, Settled
<1>2. IsFiniteSet(SettledRows)
  BY <1>1, FS_EmptySet
<1>3. \A S \in SUBSET (Calls \ Events) : SumSettled(S) = 0
  <2> TAKE S \in SUBSET (Calls \ Events)
  <2>1. {r \in S : Settled(r)} = {}
    BY <1>1 DEF SettledRows
  <2> QED BY <2>1, SumEmpty DEF SumSettled
<1>4. BalanceExplained
  <2> SUFFICES ASSUME NEW w \in Wallets
               PROVE  balance[w] = InitialBalance[w] + SumSettled(Received(w))
                                                     - SumSettled(Spent(w))
    BY DEF BalanceExplained
  <2>1. SumSettled(Received(w)) = 0 /\ SumSettled(Spent(w)) = 0
    BY <1>3, WalletRows
  <2>2. balance[w] = InitialBalance[w] /\ InitialBalance[w] \in Int
    BY WalletServiceAssumption DEF Init, Sats
  <2> QED BY <2>1, <2>2
<1> QED BY <1>2, <1>4 DEF BalanceInv

(***************************************************************************)
(* The balance of every wallet is what it started with and what its rows   *)
(* that have settled say, for any number of wallets and of concurrent      *)
(* calls: no update is lost, doubled or recorded without having happened   *)
(* (wallet.service.ts:393-421, 463-507, 535-597, 694-757).                 *)
(***************************************************************************)
THEOREM BalancesAreExplained == Spec => []BalanceExplained
<1>1. Init => BalanceInv
  BY InitExplained
<1>2. BalanceInv /\ TypeOK /\ TypeOK' /\ GuardsHold /\ [Next]_vars => BalanceInv'
  BY StepExplained
<1>3. BalanceInv => BalanceExplained
  BY DEF BalanceInv
<1> QED BY <1>1, <1>2, <1>3, TypeCorrect, GuardsAlwaysHold, PTL DEF Spec

-----------------------------------------------------------------------------
(* Pay requests.                                                           *)

PaidBy(p) == {t \in Settlements : RequestOf[t] = p /\ Settled(t)}

LEMMA StepPaysOnce ==
    ASSUME TypeOK, GuardsHold, RequestPaidOnce, [Next]_vars
    PROVE  RequestPaidOnce'
<1> USE DEF RequestPaidOnce, Settled
<1>0. Settlements \subseteq Transfers /\ \A t \in Settlements : RequestOf[t] \in PayRequests
  BY WalletServiceAssumption DEF Transfers
<1>1. CASE UNCHANGED <<row, request>>
  BY <1>1
<1>2. ASSUME NEW b \in Batches, CreatePayRequests(b)
      PROVE  RequestPaidOnce'
  <2>1. row' = row /\ \A p \in PayRequests : request'[p] = "paid" <=> request[p] = "paid"
    BY <1>2 DEF CreatePayRequests
  <2> QED BY <2>1
<1>3. ASSUME NEW t \in Transfers, CommitTransfer(t)
      PROVE  RequestPaidOnce'
  <2>1. /\ \A s \in Settlements : s # t => row'[s] = row[s]
        /\ row'[t] = "settled"
    BY <1>0, <1>3, KindsDisjoint DEF CommitTransfer, TypeOK
  <2>2. CASE t \in Settlements
    <3>1. request[RequestOf[t]] = "unpaid"
      BY <1>3, <2>2, AtCommitTransfer
    <3>2. /\ request'[RequestOf[t]] = "paid"
          /\ \A p \in PayRequests : p # RequestOf[t] => request'[p] = request[p]
      BY <1>0, <1>3, <2>2 DEF CommitTransfer
    <3>3. \A s \in Settlements : RequestOf[s] = RequestOf[t] => row[s] # "settled"
      BY <1>0, <2>2, <3>1
    <3>4. ASSUME NEW p \in PayRequests, p # RequestOf[t]
          PROVE  PaidBy(p)' = PaidBy(p)
      BY <2>1, <3>4 DEF PaidBy
    <3>5. PaidBy(RequestOf[t])' = {t}
      BY <2>1, <2>2, <3>3 DEF PaidBy
    <3> QED BY <3>2, <3>4, <3>5 DEF PaidBy
  <2>3. CASE t \notin Settlements
    <3>1. \A p \in PayRequests : request'[p] = request[p]
      BY <1>3, <2>3 DEF CommitTransfer
    <3>2. \A s \in Settlements : row'[s] = row[s]
      BY <2>1, <2>3
    <3> QED BY <3>1, <3>2
  <2> QED BY <2>2, <2>3
<1>4. ASSUME \A t \in Settlements : row'[t] = row[t], request' = request
      PROVE  RequestPaidOnce'
  BY <1>4
<1>5. ASSUME NEW d \in Deposits, RecordDeposit(d)
      PROVE  RequestPaidOnce'
  <2>1. \A t \in Settlements : row'[t] = row[t]
    BY <1>0, <1>5, KindsDisjoint DEF RecordDeposit, TypeOK
  <2> QED BY <1>4, <1>5, <2>1 DEF RecordDeposit
<1>6. ASSUME NEW e \in Events, CommitDeposit(e)
      PROVE  RequestPaidOnce'
  <2>1. \A t \in Settlements : row'[t] = row[t]
    BY <1>0, <1>6, KindsDisjoint, EventTyped DEF CommitDeposit, TypeOK
  <2> QED BY <1>4, <1>6, <2>1 DEF CommitDeposit
<1>7. ASSUME NEW r \in Withdrawals, CommitWithdraw(r)
      PROVE  RequestPaidOnce'
  <2>1. \A t \in Settlements : row'[t] = row[t]
    BY <1>0, <1>7, KindsDisjoint DEF CommitWithdraw, TypeOK
  <2> QED BY <1>4, <1>7, <2>1 DEF CommitWithdraw
<1> QED BY <1>1, <1>2, <1>3, <1>5, <1>6, <1>7, OnlyCommits DEF CommittedVars

\* Nor is any request paid.
LEMMA InitPaysOnce == Init => RequestPaidOnce
<1> SUFFICES ASSUME Init, NEW p \in PayRequests
             PROVE  /\ request[p] = "paid" <=> PaidBy(p) # {}
                    /\ \A s, t \in PaidBy(p) : s = t
  BY DEF RequestPaidOnce, PaidBy
<1>1. request[p] = "absent" /\ \A t \in Settlements : row[t] = "none"
  BY KindsDisjoint DEF Init, Transfers
<1> QED BY <1>1 DEF PaidBy, Settled

(***************************************************************************)
(* However many devices of however many users settle a pay request, at     *)
(* most one of them moves money, and the row says paid exactly when one    *)
(* did (the claim on `paid: false`, wallet.service.ts:694-701).            *)
(***************************************************************************)
THEOREM RequestsArePaidOnce == Spec => []RequestPaidOnce
<1>1. Init => RequestPaidOnce
  BY InitPaysOnce
<1>2. RequestPaidOnce /\ TypeOK /\ GuardsHold /\ [Next]_vars => RequestPaidOnce'
  BY StepPaysOnce
<1> QED BY <1>1, <1>2, TypeCorrect, GuardsAlwaysHold, PTL DEF Spec

-----------------------------------------------------------------------------
(* Refinement.                                                             *)

LEMMA CommitsAreOperations ==
    ASSUME TypeOK, GuardsHold, [Next]_vars
    PROVE  [Ledger!LedgerNext]_Ledger!ledgerVars
<1> USE DEF Ledger!LedgerNext
<1>1. CASE UNCHANGED CommittedVars
  BY <1>1 DEF CommittedVars, Ledger!ledgerVars
<1>2. ASSUME NEW b \in Batches, CreatePayRequests(b)
      PROVE  Ledger!Ask(b)
  BY <1>2 DEF CreatePayRequests, Ledger!Ask
<1>3. ASSUME NEW t \in Transfers, CommitTransfer(t)
      PROVE  Ledger!LedgerNext
  <2>1. row[t] = "none" /\ row' = [row EXCEPT ![t] = "settled"]
    BY <1>3, AtCommitTransfer DEF CommitTransfer
  <2>2. Ledger!Move(Payer(t), Payee(t), TransferSats(t))
    BY <1>3, AtCommitTransfer
       DEF Ledger!Move, Ledger!PositiveSats, Ledger!Covers, Ledger!HasRoom, PositiveSats,
           DebitMatches, CreditMatches, Covers, HasRoom, CommitTransfer, Transferred
  <2>3. CASE t \in Settlements
    <3>1. RequestOf[t] \in PayRequests
      BY <2>3, WalletServiceAssumption
    <3>2. request' = [request EXCEPT ![RequestOf[t]] = "paid"]
      BY <1>3, <2>3, <3>1 DEF CommitTransfer, TypeOK
    <3>3. /\ request[RequestOf[t]] = "unpaid"
          /\ PayerOf[t] = Receiver[RequestOf[t]]
      BY <1>3, <2>3, AtCommitTransfer
    <3>4. Ledger!Settle(t)
      BY <2>1, <2>2, <2>3, <3>2, <3>3 DEF Ledger!Settle, Payer, Payee, TransferSats
    <3> QED BY <2>3, <3>4
  <2>4. CASE t \notin Settlements
    <3>1. request' = request
      BY <1>3, <2>4 DEF CommitTransfer, TypeOK
    <3>2. t \in Payments
      BY <2>4 DEF Transfers
    <3>3. Ledger!Pay(t)
      BY <2>1, <2>2, <2>4, <3>1 DEF Ledger!Pay, Payer, Payee, TransferSats
    <3> QED BY <3>2, <3>3
  <2> QED BY <2>3, <2>4
<1>4. ASSUME NEW d \in Deposits, RecordDeposit(d)
      PROVE  Ledger!Announce(d)
  <2>1. pc[d] = "record" /\ DepositInv(d)
    BY <1>4 DEF RecordDeposit, At, GuardsHold
  <2>2. PositiveSats(Amount[d]) /\ row[d] = "none"
    BY <2>1 DEF DepositInv, DepositPCs
  <2> QED BY <1>4, <2>2 DEF RecordDeposit, Ledger!Announce, PositiveSats, Ledger!PositiveSats
<1>5. ASSUME NEW e \in Events, CommitDeposit(e)
      PROVE  Ledger!Credit(DepositOf[e])
  BY <1>5, AtCommitDeposit
     DEF CommitDeposit, Ledger!Credit, DepositUnclaimed, DepositFits, HasRoom, Ledger!HasRoom
<1>6. ASSUME NEW r \in Withdrawals, CommitWithdraw(r)
      PROVE  Ledger!Charge(r)
  <2> DEFINE n == WithdrawSats(r)
  <2>1. /\ n \in Int /\ PositiveSats(n) /\ row[r] = "none"
        /\ Covers(balance[WalletOf[r]], WithdrawTotal(r))
    BY <1>6, AtCommitWithdraw DEF DebitMatches
  <2>2. Amount[r] # 0 => n = Amount[r]
    BY DEF WithdrawSats
  <2>3. /\ n \in Ledger!Sats /\ Ledger!PositiveSats(n)
        /\ Ledger!Total(n) = WithdrawTotal(r)
    BY <2>1 DEF Ledger!Sats, Ledger!PositiveSats, PositiveSats, Ledger!Total, WithdrawTotal,
       Total, Ledger!FeeReserve, FeeReserve
  <2>4. /\ balance' = [balance EXCEPT ![WalletOf[r]] = @ - Ledger!Total(n)]
        /\ row' = [row EXCEPT ![r] = "settled"]
        /\ request' = request
    BY <1>6, <2>3 DEF CommitWithdraw, Charged
  <2>5. Ledger!Covers(balance[WalletOf[r]], Ledger!Total(n))
    BY <2>1, <2>3 DEF Ledger!Covers, Covers
  <2> HIDE DEF n
  <2> QED BY <2>1, <2>2, <2>3, <2>4, <2>5 DEF Ledger!Charge
<1> QED BY <1>1, <1>2, <1>3, <1>4, <1>5, <1>6, EventTyped, OnlyCommits

\* The program starts with an empty ledger.
LEMMA InitLedger == Init => Ledger!LedgerInit
<1>1. Calls \ Events = Ledger!Operations
  BY KindsDisjoint DEF Calls, Transfers, Ledger!Operations
<1> QED BY <1>1 DEF Init, Ledger!LedgerInit

(***************************************************************************)
(* The service, with its transactions, locks, lost connections, timers and *)
(* restarts, does nothing the ledger does not allow: each of its commits   *)
(* is one whole operation of the ledger, and nothing else moves money      *)
(* (wallet.service.ts:333-763).                                            *)
(***************************************************************************)
THEOREM ServiceImplementsLedger == Spec => LedgerSpec
<1>1. Init => Ledger!LedgerInit
  BY InitLedger
<1>2. TypeOK /\ GuardsHold /\ [Next]_vars => [Ledger!LedgerNext]_Ledger!ledgerVars
  BY CommitsAreOperations
<1> QED BY <1>1, <1>2, TypeCorrect, GuardsAlwaysHold, PTL DEF Spec, LedgerSpec, Ledger!LedgerSpec
==============================================================================
