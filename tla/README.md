# Verification of lightning-accounts

lightning-accounts is an Express server that gives users custodial Lightning
wallets: accounts and tokens, one wallet per user in PostgreSQL (through Prisma),
and one LND node for deposits and withdrawals. This directory holds TLA+ modules
that model its core, TLC configurations that check them on small instances, and
proofs checked by TLAPS. Paths below are relative to the repository.

## The system

| part | state | operations | talks to |
|---|---|---|---|
| wallet service (`src/services/wallet.service.ts`) | rows `Wallet`, `Transaction`, `PayRequest` | `payUser`, `payRequest`, `createPayRequest(s)`, `createDepositInvoice`, `_impactDeposit`, `payWithdrawInvoice`, `checkInconsistentTransactions` | PostgreSQL, lightning service, busy lock |
| busy lock (`lock.service.ts`) | `busyWallets`, a Set per process | `setWalletBusy`, `clearWalletBusy` | wallet service |
| lightning service (`lightning.service.ts`) | the LND client, one promise and timer per payment, one subscription per invoice | `payInvoice`, `createInvoice`, `decodeInvoice`, `checkInvoice`, `initLightning` | LND; calls `_impactDeposit` back |
| start-up, shutdown (`index.ts`, `server.ts`) | `shuttingDown`, `server` | `initializeApp`, `exitHandler` | reconciliation, readiness |
| readiness (`readinessMonitor.ts`, `health.ts`) | `currentRun`, `stopped`, failures, ready flag | probe, start, stop | PostgreSQL |
| tokens, sessions (`token.service.ts`, `auth.service.ts`, `auth.controller.ts`) | rows `Token` | login, refresh, logout, reset, magic link | PostgreSQL, e-mail |
| accounts (`user.service.ts`, `config/passport/*`, `auth.service.ts`) | rows `User`, their identities and wallets | register, get or create, link, update, seed phrase, delete | wallets (foreign key), authorization |
| provisioning (`applicationProvisioning.ts`), `scripts/makeAdmin.ts` | a `User` and its `Wallet.disabled` | find, then create or update | run beside the live process |
| authorization (`roles.ts`, `applications.ts`, `middlewares/auth.ts`) | none | application, then access token, then rights | `User` rows |
| LND middleware (`middlewares/lnd.ts`) | the answer `initLightning` keeps | hold a request until LND answers | lightning service |
| session store (`config/session.ts`) | rows `Session` | get, set, touch, destroy | express-session |

What is hard in it:

* every handler is a chain of awaits, so calls interleave at every await; their
  only coordination is the `where` clause of `updateMany`, the row locks of their
  transaction and a Set per process. During a deployment two processes serve
  (`render.yaml`: one instance, but a zero-downtime switch).
* `payWithdrawInvoice` holds a database transaction open while LND pays. The
  payment cannot be rolled back; the transaction can, by a timer, its expiry, a
  lost connection or a crash.
* a deposit is credited by a callback that lives in the memory of one process.
* start-up repairs rows while another process may still move the same balances.
* a signal may come at any await of the start-up, and a probe that was under way at
  the shutdown answers after it.
* `server.close` waits for connections: a handler whose client is gone is not waited for.
* a cookie, a magic link or a reset link is presented twice at once; of the handlers
  over the `Token` table only three run in a transaction.
* no handler over the `User` table does: all look first and write later, so the
  unique indexes, the foreign key and what other handlers never do must carry it.
* a wallet transaction needs a second connection of its own pool in its middle.
* LND may accept a call and never answer; only `payInvoice` has a time-out.

What makes each part correct: balances stay in range and equal what was received
minus what was spent; a withdrawal is charged exactly when it was paid; a deposit
is credited once, when settled; a pay request is paid once; every call ends and
frees its wallet; a repaired row agrees with the balance; a process reports itself
ready exactly while it can serve, and answers every client still connected before it
exits; a login has one live refresh token, a link is good once, and a reset revokes what was there; an
identity leads to one account, which is never lost and always has a way in.

## The modules

| module | what it is |
|---|---|
| `Amounts` | the arithmetic: fee reserve, total, sweep, the two guards |
| `Database` | row locks and interactive transactions as the code uses them |
| `WalletService` | wallet service, busy lock, and LND as these see it |
| `WalletLedger` | the abstract specification it implements |
| `WalletProperties`, `WalletInvariant` | its safety properties; the inductive invariant |
| `ConnectionPool` | `WalletService` with the connections of each process, its fairness and liveness |
| `PayInvoice`, `PayCall` | one call of `payInvoice` in seconds; what it promises its caller |
| `Reconciliation` | the start-up repair |
| `Lifecycle` | one server process from start to exit, with readiness |
| `Server` | `Lifecycle` with LND, the middleware and the requests that wait for LND |
| `Tokens` | the `Token` table and its handlers, over the row locks of `Database` |
| `Sessions` | the abstract specification they implement |
| `Access` | roles, rights, applications, the test of `verifyCallback` |
| `UserTable` | the `User` table, its indexes, and the calls over it |
| `Accounts` | those calls, statement by statement, behind the auth middleware |
| `Directory` | the abstract specification it implements |

`Server` extends `Lifecycle`, `ConnectionPool` extends `WalletService` (through
`WalletProperties`), `Accounts` and `Directory` extend `UserTable`, which extends
`Access`. The modules `*_proofs` hold the theorems, `MC*` modules and `.cfg` files
are the instances. The slips of code that the mutants use are operators next to the
ones they replace, such as `DebitUncovered` or `Cascades`.

### WalletService

A *call* is one run of a handler; `pc[r]` is the await it is suspended at. A user
and a wallet are one to one and both are named by the wallet.

| code | actions |
|---|---|
| `createPayRequest(s)` | `CreatePayRequests` |
| `payUser` | `StartPayUser`, then the shared `Transfer` |
| `payRequest` | `StartPayRequest`, `FindPayRequest`, `ClaimPayRequest`, `Transfer` |
| both | `ReadPayerWallet`, `ReadPayeeWallet`, `DebitPayer`, `CreditPayee`, `CommitTransfer` |
| `createDepositInvoice`, `createInvoice` | `StartDeposit`, `CheckLimit`, `CreateInvoice`, `InvoiceUnavailable`, `RecordDeposit` |
| `_impactDeposit` | `InvoiceUpdated`, `ClaimDeposit`, `CreditDeposit`, `CommitDeposit` |
| `payWithdrawInvoice`, `payInvoice` | `ReadWithdrawWallet`, `SetWalletBusy`, `DecodeInvoice`, `WithdrawRefused`, `BeginWithdraw`, `DebitWithdraw`, `SendPayment`, `PayInvoiceResolves`, `PayInvoiceRejects`, `CommitWithdraw`, `ClearWalletBusy` |
| PostgreSQL, Prisma | `LoseTransaction` (deadlock victim, expiry, dead client), `OperationOnLostTransaction` |
| a process dies or is replaced | `Restart` |
| `provisionApplicationServiceAccount` | `DisableWallet` |
| LND and payers | `InvoicePaid`, `PaymentSucceeds`, `PaymentFails` |

Two decisions carry the model. A guarded `updateMany` (READ COMMITTED) sees
committed rows: guard false, no row; guard true and row free, the row is locked;
guard true and row taken, the call waits and evaluates the guard again. And what
a transaction wrote is applied in its commit step: nobody can read it before, and
the locks keep what it was computed from. (`findFirst` and `getUserWallet` do not
lock and may read between any two steps.)

### ConnectionPool

A transaction keeps a connection of its process from its begin to its end;
`getUserWallet` in the middle of `payUser`, `payRequest` and `createDepositInvoice`,
and at the start of a withdrawal, asks for another one. `Granted` is what the pool
adds to every step of `WalletService`: one that begins a transaction, or in which a
call receives what it read, needs a free connection. `PoolTimeout` is the call that
finds none in time (`maxWait` of `PRISMA_TRANSACTION_OPTS`, Prisma's
`pool_timeout` for a single statement). The other statements of a handler run in its
transaction, or are of calls that hold nothing.

### PayInvoice

The promise, the timer, the callback of `lightning.pay`, and the retried
`checkInvoice` after the timer, with a clock in seconds. LND may answer early,
late, never or with an error, and the stream may break while the payment goes on.
`PayCall` is what `WalletService` assumes of it (`PaymentConfirmed`,
`PaymentRejected`, with `Late` for its `doubt`); `CallSpec` shows `PayInvoice`
implements it.

### Reconciliation

Rows whose flags differ are scanned and handled one by one: check with retries,
read of the wallet, one transaction with two unconditional updates, a catch block
that marks the row failed. `Restart` starts over at any await, `OtherProcess` is a
guarded operation of the process still serving, `InvoicePaid` may fall between
check and write. `Init` allows any flags: the present code writes both flags in
one transaction, so rows that differ come from earlier versions or operators (the
end-to-end tests create them by hand).

### Lifecycle

| code | state and actions |
|---|---|
| `initializeApp` | `boot`: `Connected`, `ConnectFails`, `LightningConnected`, `LightningFails`, `ReconciliationEnds` |
| its continuation in `index.ts` | `Serve`, part of the step in which `initializeApp` resolves; the error event of `listen` calls `ExitHandler` |
| `exitHandler` | `exit`, `activeServer`, `exitCode`: `ExitHandler` up to the first await, `ServerClosed` or `CloseFails`, `Disconnected` |
| signals, unexpected errors | `SignalOrError` |
| the monitor | `monitor`, `currentRun`, `failures`: `RunNow`, `ProbeSucceeds`, `ProbeFails` (rejected, or the time-out won) |
| clients, the handlers they leave behind | `requests`, `abandoned`: `RequestArrives`, `RequestAnswered`, `ClientAborts`, `AbandonedEnds` |
| PostgreSQL | `DatabaseChanges` |

A step of JavaScript runs to its next await, so a handler of several awaits is
several actions and everything else may come between them. A second call of
`exitHandler` returns at once; a signal in a process that is shutting down is
therefore no action, while the calls that the start-up makes are
(`ExitHandler` leaves everything alone then). `failures` stops counting at the
threshold: what is above it makes no difference. After the handler found no server,
a start-up that is still pending goes on and may listen while `$disconnect` runs;
the model keeps this, and the properties say which shutdowns they speak of.

`activeServer.close` calls back when no connection is left (`NoConnection`), which is
not when no handler is left: one whose client or proxy dropped the connection
(`ClientAborts`) works on, unknown to `close`, and `$disconnect` and `process.exit` may
cut it at any await. To a withdrawal among them this is a `Restart` of `WalletService`:
its debit is rolled back while LND may still pay. `Drained` therefore speaks of clients
still connected only; no document of the repository promises more
(`maxShutdownDelaySeconds` of `render.yaml` bounds the wait from outside).

### Server

| code | actions |
|---|---|
| `initializeApp` | `StartConnected`, `StartLightningConnected`, `StartLightningFails` |
| `lndConnected`, `initLightning` | `AskLnd`, `LndAnswers`, `LndRefuses` |
| `decodeInvoice`, `checkInvoice` in a handler | `CallLnd`, `CallAnswered` |
| other handlers and the end of all, with or without a client | `HandlerAnswers` (`HandlerEnds`) |
| LND | `LndChanges` |

`connected` is exported by value when the module is loaded, so it is FALSE for ever
and the middleware calls `initLightning` for every request; `lndInfo` is what makes
that return at once. A handler waits for LND in `asking` or `calling` whether its client
still waits or not; of the handlers at work (`requests + abandoned`) the others are
`Handled`. Until `lndInfo` is kept, every request has a query of its own: one whose
query fails is answered with 503 although another has succeeded meanwhile. The other
actions of `Lifecycle` are taken as they are (`Elsewhere`), so `Server` implements it.

### Accounts

| code | actions |
|---|---|
| `auth`, `optionalAuth`, the strategies `application` and `jwt` | `AuthenticateApplication`, `NoApplication`, `AuthenticateUser`, `NotAuthenticated`, `Anonymous` |
| `getOrCreateMagicLinkUser`, `registerUserWithMagicLink`, `register`, `createUser`, `createUserWithSeed`, `createNostrUser` | `FindUser`, `FindNobody`, `CheckEmail`, `CreateUser`, and after a lost race (`LoseRace`) `FindUser` again or `FindNobodyAgain` |
| `resolveNostrUser` with a user | `FindLinkedUser`, `Link` |
| `upsertTwitterUser` (Prisma: a SELECT, then an INSERT or an UPDATE) | `FindUpsert`, `Link`, `CreateUser` |
| `login`, the seed strategy | `FindPasswordUser`, `LogIn`, `LogInWithSeed` |
| `updateUserById` | `FindTarget`, `CheckNewEmail`, `ReadOwnPassword`, `VerifyPassword`, `AmendUser` |
| `addSeedToUser` | `FindSeedUser`, `AddSeed` |
| `deleteUserById` | `FindDeleted`, `DeleteUser` |
| `provisionApplicationServiceAccount` | `FindApplication`, then `CreateUser`, `RenewApplication`, or `ConfirmApplication` if the password matched |
| `makeAdmin.ts` | `FindPromoted`, `PromoteUser` |
| `getUserById` | `ReadUser` |

A statement is a transaction of its own. A row is named by the call that inserts it,
an e-mail, a key, a password and a fresh seed phrase are values; `answer[r]` is the
user a call is about, or `Refused`. An update on which a unique index fails ends the
call (`Saving`). `DeleteUser` keeps the case of a user without a wallet, although no
code makes such a user: every creation writes the wallet in the same statement, so
`Wallet_userId_fkey` refuses each deletion. `Directory` has one step per answered call.
`released` remembers identities that were taken off an account: without it one could
not say that a sign-in is refused only if somebody gave the identity up meanwhile.
`replaced` is a history variable, the passwords that accounts had: a provisioning whose
password matched at its read does not write it, and `Directory!Confirm` says what that
amounts to when it is answered: the account has this password or had it.

### Tokens

Every statement is restricted to one user, so there is one; a token is a row with a
type, and the row a call inserts is named by the call. `origin` is the login a
refresh token descends from.

| code | actions |
|---|---|
| `verifyToken`, the `findFirst` of `logout` | `VerifyToken`, `TokenNotFound` |
| `refreshAuth` | `ConsumeRefreshToken`, `DeleteExpired`, `SaveToken`: three statements, no transaction |
| `logout` | `RevokeRefreshToken` |
| `consumeMagicLink` | `BeginTransaction`, `ConsumeToken`, `StartSweep`, `SweepTokens`, `UpdateUser`, `CommitTransaction`, then `SaveToken` |
| `resetPassword` | the same with `UpdateUser` before the sweep and nothing to save |
| `verifyEmail` | the same without `ConsumeToken` |
| login, registration, requests for an e-mail | `StartIssue`, `SaveToken` |
| an error, a deadlock victim, an expired transaction, a crash | `Fail` |
| the clock | `Expire` |

`deleteMany` over several rows is two steps: the snapshot decides which rows it may
find, then it waits for their locks and skips what is gone. A row inserted in
between escapes it, as under READ COMMITTED. An answer may be lost after the last
write (`Answer`): the row is there, and nobody holds the token.

`Sessions` is what all this is for: tokens are valid from their issue until they are
used or withdrawn, and never again; a login is a line of refresh tokens passed on
from one to the next. `SessionsSpec` maps its valid tokens to the rows that are not
blacklisted, and the token that is being passed on to a refresh between its two
statements.

## What the runs check

| run | instance and bounds | properties |
|---|---|---|
| `transfers` | two users paying each other, one pay request of a third settled by two devices on two processes and tried by another user, amounts that only some orders cover or fit; a wallet may be disabled; one transaction may expire, one restart | `BalanceInRange`, `BalanceExplained`, `RequestPaidOnce`, `DisabledIsNotDebited` |
| `withdrawals` | withdrawals of one wallet on two processes, two of them to one invoice, a zero-value one, a late answer, an expiry, one restart | `TypeOK`, `BusyIsExact`, `ChargedWasPaid`, `AnsweredIsCharged`, `LedgerSpec` |
| `deposits` | two deposits, a repeated event, the integer limit in reach, a withdrawal of the other wallet to one of them, a transfer, an expiry, one restart | `CreditedWasSettled`, `LedgerSpec` |
| `progress` | crossing transfers, a deposit, a withdrawal, one restart, two connections per process, under fairness | `CallsEnd`, `WalletFreed`, `DepositCredited` |
| `pay_invoice` | the real 60 s timer and 3 retries; LND takes up to 2 s to decode, 1 s to check | `AnswersInTime`, `CallSpec`, `ClearedTimerIsSilent`, `Answered` |
| `reconciliation` | three rows in all flag combinations, dry run or not, one retry, one operation of the other process, one restart | `Reconciled`, `BalanceFollowsRows`, `SettledWasConfirmed`, `DryRunWritesNothing`, `LoopAdvances`, `LoopEnds` |
| `lifecycle` | the real threshold of 3 probes, up to 3 handlers at work at once, clients that drop their connection at any time, LND and PostgreSQL going away and coming back at any time, with and without the wallet, under fairness | `ServerTypeOK`, `ReadyTracksFailures`, `WithdrawnForGood`, `Drained`, `Exits`, `Recovers`, `OutageSeen`, `AskingEnds` |
| `tokens` | a session and four links of one user; any 3 of two refreshes, a logout, two magic logins, two resets, a verification and a request for a link; the session or a link may expire, failures anywhere | `OneLivePerLogin`, `ConsumedOnce`, `RevokesOlder`, `SessionsSpec` |
| `accounts` | a person, an administrator, an application and a holder of a seed phrase; any 3 of the 18 calls that compete for one new e-mail, one public key and one X account, and any 2 of all 25 calls, among them two provisionings with different passwords | `Sound`, `SignInSucceeds`, `DirectorySpec`, `WritesArePermitted` |
| `late_answer` | as `withdrawals` | violates `PaidOutIsCharged` |
| `wallet_limit` | as `deposits` | violates `WithinWalletLimit` |
| `stranded_withdrawal` | as `reconciliation`, all invoices usable, among them that of a withdrawal to another node | violates `FailedIsReverted` |

The bounds: an interleaving error in this code needs two calls that meet on a row
and one that disturbs them, so each instance has at least three calls that share
wallets, requests or invoices, two processes and one restart or lost transaction.
Amounts are small, but the balances are placed so that guards succeed in one order
of the calls and fail in another, fees round both ways and the limit is in reach.
`MaxRestarts`, `Expiring`, `Late`, `MaxTraffic`, `MaxDecode`, `Latency`,
`MaxRequests`, `MaxCalls`, `MaxTogether`, `MaxExpired` and `PoolSize` are the only
bounds; all are constants. Three calls of `tokens` and of `accounts` (`Scenarios`) are
two that race and one that disturbs them; the theorems hold for any number. These two
runs switch the deadlock check off because all their calls end; `tokens` leaves type
correctness to the theorem `TokensTyped`, `pay_invoice` to `TypeCorrect` of
`PayInvoice_proofs`, `reconciliation` to `LoopTypeCorrect`. The pool of production has 10 connections (`databaseTarget.spec.ts`);
with 2 and four calls the case that matters, all connections held by calls that each
want one more, is reached, and each crossing pair of transfers is such a case.
`LedgerSpec` is the strongest statement about balances:
a step may change a balance only together with the row that explains it, and within
the limits; `BalanceExplained`, the same as a sum over the rows, is checked where
transfers cross and meet a pay request, in `transfers`. Late answers and expiries are confined to named
calls because the properties about timely calls are stated for the others.

What the violations show is written in `PROJECT.json` under findings: a
withdrawal that is rolled back while its payment is in flight is paid out and
never charged; the wallet limit holds at the creation of an invoice only; an impacted
withdrawal to another node, whose invoice our LND does not know and whose check
therefore throws, is given up without a refund (`FailedIsReverted` is about these
withdrawals only).

Met while modelling, and not claimed by any run:

* After the timer an invoice of our own node that somebody else paid counts as this
  payment (`lightning.service.ts:113`); `ChargedWasPaid` allows it.
* The reconciliation decrements without a guard (`wallet.service.ts:114`): reverting a
  deposit whose sats are spent takes the wallet below zero, in the model as well.
* Of two provisionings at once, one whose password matched when it looked may end
  successfully on an account that has the other's password
  (`applicationProvisioning.ts:58-82`). It takes two operators; `DirectorySpec` allows
  just that (`Confirm`).
* A handler whose client is gone may be cut by a shutdown (above, Lifecycle).
* `DELETE /users/:userId` never succeeds (above), while `user.route.ts` documents 200;
  a duplicate e-mail in PATCH gets 406 and is documented as 400; a request with neither
  credentials nor cookies gets 400 where 401 is documented; applications may read users
  although the route says that only administrators can.
* `errorHandler` has three parameters, so Express does not take it for an error handler.

### Fairness

`ConnectionPool!FairSpec`: weak fairness of every call that is past its start
(the event loop runs ready callbacks, PostgreSQL answers, LND answers decodings
and checks, the timer of `payInvoice` bounds the payment, and who waits for a
connection gets one or gives up), of the reaping of deadlocked and dead
transactions, of the delivery of an update to a live subscription, and of the end of
a payment at LND. No call must come, no payer pay, no process die, no transaction
expire. Every step of a call is a step of its own code, so weak fairness suffices:
while a call waits for a row lock its step is disabled, and the holder's own fairness
frees the row. While it waits for a connection its way out, `PoolTimeout`, is enabled
instead; were it not (the mutant `NeverGivesUp`), the calls would wait for ever.
`PayInvoice!FairSpec` and `Reconciliation!FairSpec` ask for the code's own steps and
the clock, nothing of payments.

`Server!ServerFairSpec` asks that the interval fires and a probe ends (its time-out
sees to that), that `$connect`, `$disconnect` and `close` call back, and, strongly,
that a handler ends which does not wait for LND: it makes a bounded number of LND
calls, so it cannot avoid its end by waiting for LND again and again. It asks nothing
of LND, so `initializeApp` and a request may wait for it for ever: nothing in
`lndConnected` and `decodeInvoice` gives up. Nor must a client ever drop its
connection. `Exits` and `AskingEnds` therefore have
the condition `LndResponds`; `OutageSeen` and `Recovers` do not need it. `Tokens` and
`Accounts` claim no liveness.

## What is proved

For all values of the constants that satisfy `WalletServiceAssumption` and
`AmountsAssumption` (calls of different kinds are different, amounts of pay
requests passed `assertPositiveSats`, nobody sends a pay request to himself, the
event of a deposit is handled by the process that created it, a withdrawal to an
invoice of our node carries its amount):

* `TypeCorrect`: `Spec => []TypeOK`, one lemma per kind of step.
* `GuardsAlwaysHold`: `Spec => []GuardsHold`. None of the properties is inductive:
  that a debit at commit does not overdraw depends on the guard having been
  evaluated two awaits earlier *and still being true*. `GuardsHold` says just
  that: a call whose transaction is open and that is past an update holds the row
  and the guard of that update is true of it; a call past a check knows the check.
  It is preserved because a step of another call leaves alone what is locked
  (`Undisturbed`, one lemma per kind of step), and because each own step extends
  it by the guard it has just evaluated. A restart keeps it: a dead call holds its
  locks, or has lost its transaction, and will not go on.
* From it, with a lemma for what is true at each of the three commits
  (`AtCommitTransfer`, `AtCommitDeposit`, `AtCommitWithdraw`) and `OnlyCommits`
  (nothing else writes): `BalancesStayInRange`, `DisabledWalletsAreNotDebited`,
  `RequestsArePaidOnce`, and `ServiceImplementsLedger`, the refinement of
  `WalletLedger` by the identity on the balances, rows and pay requests.
* `WalletPayments_proofs`: `BusyFlagsAreExact`, `ChargesArePaid` and
  `CreditsAreSettled`, from a second inductive invariant, `PaymentsSound` of
  `WalletInvariant`. `BusyIsExact` is inductive once calls are known to be suspended
  only where their own handler suspends (`OwnLabel`); the other two need that what
  `payInvoice` or an event reported is still true of LND when it is committed, which
  rests on `LndMonotone`: no step un-pays a payment or un-settles an invoice.
  First one lemma per handler says what its steps change (`TransferMoves`, ...),
  then one says that the invariant survives it (`TransferSound`, ...).
* `BalancesAreExplained`: what `BalanceExplained` adds up is a sum over a set of rows,
  so the proof needs facts about sums. `Amounts_proofs` derives them by induction over
  the subsets of a finite set (`SubsetInduction`; the library's strict subset order is
  well-founded): the recursion behind `SumFunctionOnSet` has one solution, the order of
  its CHOOSE does not matter (`SumRemove`), one more element adds its value (`SumAdd`).
  Here, a step settles at most one row (`TotalGrows`, or none, `TotalKept`), and what a
  settled withdrawal was worth does not change because its snapshot is never taken
  again (`SnapshotKept`).
* `AnsweredCallsAreCharged`, in `WalletPayments_proofs`: for a call without late answer
  and without expiry the invariant `AnswersHold` follows the transaction and the payment
  together: from the debit to the commit the transaction is open (no other call
  can end it, and a call that waits for no row is never in a deadlock), and a payment
  launched is awaited, charged, or its process died.
* `ExhaustedPoolIsHarmless`, `PooledWalletsAreNotDebited` and
  `PooledServiceImplementsLedger`, at its end: the same
  invariants with a pool of any size. A call that gives up is at its first read, before
  any update (`GivenUp`), so nothing that others rely on goes with it. This is not a
  refinement of `Spec`, which has no such step, but a further step of the induction.
* `Reconciliation_proofs`: `LoopTypeCorrect`, `LoopReconciles`, `SettlingIsConfirmed`,
  `DryRunIsHarmless`, `BalancesFollowRows` and `LoopIsBounded`, for every finite set of rows, any amounts,
  retries and restarts (`ReconciliationAssumption`: a row is a deposit or a withdrawal
  and belongs to a wallet). The invariant is `LoopInvariant` of `Reconciliation`: the
  flags scanned of the rows in hand and to come still are those of the database
  (`ScanIsCurrent`), no other row differs (`OthersAgree`), a row that was given up never
  comes back (`StrandedIsOver`), and an answer "confirmed" stays true until the write
  (`AnswerHolds`). Without the first, a revert could hit a row that is not impacted any
  more; without the third, a row could be counted twice. `BalancesFollowRows` then takes
  one row into or out of the sum in the step that moves its sats (`FollowingKeeps`).
  `LoopIsBounded` is the part of `LoopEnds` that needs no fairness: each step of the
  loop lowers a lexicographic rank, and only a restart raises it.
* `Server_proofs`, first part, about `Lifecycle`: `ReadinessTracksFailures`,
  `WithdrawnStaysWithdrawn` and `ExitDrains` (before the database is left every client
  still connected has its answer), for every threshold. That a withdrawn server stays withdrawn is not
  inductive: it needs that a handler which found a server runs after the start-up is
  over and after it has stopped the monitor (`ExitSound`); and that readiness follows
  the probes needs the flag which the start-up leaves to the monitor (`BootSound`).
* `Tokens_proofs`: `TokensTyped`, `RotationKeepsOne`, `LinksAreConsumedOnce` and
  `OlderTokensAreRevoked`, for every set of calls and tokens (`TokensAssumption`:
  calls of different kinds are different). The invariant `IInv` adds what the awaits
  hide: between its statements a refresh stands for the live token of its login
  (`LineInv`); what an open transaction has deleted is locked and still in the table
  (`LockInv`), so nobody else can find the link in between (`OnceInv`); and every
  older row of the revoked types is in the snapshot, deleted, or gone (`SweepInv`).
  One lemma per action shows that it survives. `TokensImplementSessions` adds that only
  refresh tokens are blacklisted, so the link that a transaction commits is still valid
  in that step; each statement is one step of `Sessions` (`SaveTokenIsIssue`,
  `CommitIsRedemption`, ...) or changes nothing a user could notice.
* The rest of `Server_proofs`: `ServerImplementsLifecycle` (every step of `Server` is a step of
  `Lifecycle` or leaves it alone), so the theorems above hold of it; `ServerTypeCorrect`,
  which needs the invariant of `Lifecycle` (a handler that ends was at work), and
  `ServerDrains`: of the handlers that wait for LND when a closed server leaves the
  database there are no more than clients that dropped their connection.
* `Accounts_proofs`: `AccountsAreSound`, `SignInsSucceed`, `WritesPermitted` and
  `AccountsImplementDirectory`, for all calls, values, applications and initial
  tables that satisfy `UserTableAssumption` (given users have a wallet and a way in;
  calls carry what their validation asks for). `Sound` is inductive: it says of a
  suspended call what it may still rely on. A call about to promote or renew an
  account holds an id whose role no other call turns around, because promotions leave
  applications alone and provisioning leaves people alone; a seed phrase about to be
  replaced belongs to an account with another identity, because identities are
  replaced and never removed; rows stay, because the foreign key refuses to delete
  them; an administrator stays one. One lemma per group of actions says that it
  survives; the refinement maps the last statement of a call to its operation and the
  others to stuttering (`StepForms`). That a matching password still is the account's or
  was replaced (`HadPassword`) is part of `Sound`: it survives the writes of others
  because each records what it replaces.
* `PayInvoice_proofs`: `CallsAreAnsweredInTime`, `PayInvoiceKeepsItsPromise` (the
  refinement of `PayCall`), `TimersStayCleared` and `TypeCorrect`, for every time-out,
  number of retries, delay and latency. The invariant adds that a pending call always
  has a callback to come (`TimerAndCheck`) and when each is due at the latest, as a
  function of the retries left (`OnTime`).
* `Amounts_proofs`: `Math.round(n / 20)` as a rounding, `SweepIsCovered` (the sweep
  of a wallet is never refused for its fee) and `SweepLeavesLittle`.

TLC checked each inductive invariant (`GuardsHold`, `PaymentsSound`, `AnswersHold`,
`LoopInvariant`, ...) on the instances above before it was proved.

Only model-checked: the liveness properties `CallsEnd`, `WalletFreed`,
`DepositCredited`, `Answered`, `LoopEnds`, `Exits`, `Recovers`, `OutageSeen` and
`AskingEnds`, because fairness and ENABLED are outside the prover. Every other property
of a passing run is the statement of a theorem.

## What is not modelled

Formatting, logging, request validation, error conversion, rate limits, HTTP and
e-mail: no state, or state of a library. The read-only queries. The session store:
each of its methods is one statement on the row of one sid, called by
express-session, and it holds the X handshake only. Of tokens: access and identity
tokens, which are signed and never stored. Of users: names, avatars and invitations,
which decide nothing. Of provisioning: the checks of its environment before the first
statement, and the rights of the wallet routes, functions of one request. Of the pool:
the statements of calls that hold no transaction (they wait, and end). Amounts are
integers in the model; the guards of the code keep them inside JavaScript's safe
integers and the Int column, which `BalanceInRange` states.

## Plan

1. *Done:* Amounts, Database, WalletService with WalletLedger, its properties, its
   invariants and proofs; ConnectionPool, with the service's theorems carried over;
   PayInvoice with PayCall, Reconciliation, Lifecycle and Server, Tokens with Sessions,
   Accounts with Directory, each with proofs. Every invariant and action property of a
   passing run is a theorem.
2. Ranks for the other calls that must end, as `LoopIsBounded` has one: the steps of a
   wallet call between its start and its end, and those of a shutdown.
3. What follows from the abstract specifications alone: the total of all balances from
   `WalletLedger`, one valid token per line from `Sessions`.
