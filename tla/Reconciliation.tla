--------------------------- MODULE Reconciliation ----------------------------
(***************************************************************************)
(* checkInconsistentTransactions, which initializeApp runs before the      *)
(* server listens: rows whose two flags differ are brought in line with    *)
(* what LND says of their invoices, one after the other.  The process may  *)
(* die between any two awaits and starts over; during a rolling deployment *)
(* the previous process still serves and moves the same balances.          *)
(***************************************************************************)
EXTENDS Amounts, FiniteSetsExt

CONSTANTS
    Wallets,
    Deposits, Withdrawals,  \* the Transaction rows with an invoice column
    WalletOf, Amount,
    Invalid,                \* rows without a usable invoice column
    Own,                    \* rows whose invoice our node issued
    Retries,                \* of checkInvoice: 3
    InitialBalance,
    Traffic,                \* sats one operation of the other process moves
    MaxTraffic,             \* bound on those operations
    MaxRestarts,            \* bound on deaths of this process
    NoRow

Txs == Deposits \cup Withdrawals

ASSUME ReconciliationAssumption ==
    /\ Deposits \cap Withdrawals = {}
    /\ IsFiniteSet(Txs)
    /\ NoRow \notin Txs
    /\ WalletOf \in [Txs -> Wallets]
    /\ Amount \in [Txs -> Sats]
    /\ Invalid \subseteq Txs
    /\ Own \subseteq Txs
    /\ Retries \in Nat /\ Traffic \in Nat /\ MaxTraffic \in Nat /\ MaxRestarts \in Nat
    /\ InitialBalance \in [Wallets -> Sats]

VARIABLES
    dryRun,         \* config.wallet.reconcileDryRun
    balance,
    impacted,       \* rows with walletImpacted
    settled,        \* rows with invoiceSettled
    confirmed,      \* rows whose invoice LND reports as confirmed
    pc,             \* "scan", "next", "check", "decide", "write", "catch",
                    \* "delay", "done" or "aborted"
    todo,           \* inconsistentTransactions not yet processed
    seen,           \* those of them read with walletImpacted
    current,        \* the row being processed
    left,           \* retries left for its check
    answer,         \* what checkInvoice said of it
    wallet,         \* the balance findUnique returned for it
    moved,          \* history: what the other process added to each wallet
    stranded,       \* history: rows whose effect stayed in the balance when
                    \* walletImpacted was cleared
    moves, restarts

rowVars == <<impacted, settled>>
loopVars == <<todo, seen, current, left, answer, wallet>>
boundVars == <<moves, restarts>>
vars == <<dryRun, balance, rowVars, confirmed, pc, loopVars, moved, stranded, boundVars>>

TypeOK ==
    /\ dryRun \in BOOLEAN
    /\ balance \in [Wallets -> Int]
    /\ impacted \subseteq Txs
    /\ settled \subseteq Txs
    /\ confirmed \subseteq Own
    /\ pc \in {"scan", "next", "check", "delay", "decide", "write", "catch", "done",
              "aborted"}
    /\ todo \subseteq Txs
    /\ seen \subseteq Txs
    /\ current \in Txs \cup {NoRow}
    /\ left \in 0..Retries
    /\ answer \in {"none", "confirmed", "unconfirmed"}
    /\ wallet \in Int
    /\ moved \in [Wallets -> Int]
    /\ stranded \subseteq Txs
    /\ moves \in 0..MaxTraffic
    /\ restarts \in 0..MaxRestarts

\* Any rows an earlier version or an operator may have left.  A row whose
\* invoiceSettled is NULL, which no service writes, matches neither branch of the
\* query, stays as it is, and is not among Txs.
Init ==
    /\ dryRun \in BOOLEAN
    /\ balance = InitialBalance
    /\ impacted \in SUBSET Txs
    /\ settled \in SUBSET Txs
    /\ confirmed \in SUBSET Own
    /\ pc = "scan"
    /\ todo = {} /\ seen = {}
    /\ current = NoRow /\ left = 0 /\ answer = "none" /\ wallet = 0
    /\ moved = [w \in Wallets |-> 0]
    /\ stranded = {}
    /\ moves = 0 /\ restarts = 0

-----------------------------------------------------------------------------

OnlyUnsettled == impacted \ settled
Inconsistent == (impacted \ settled) \cup (settled \ impacted)

\* What an impacted row has done to its wallet.
Effect == [t \in Txs |-> IF t \in Deposits THEN Amount[t] ELSE -Total(Amount[t])]

Scan ==
    /\ pc = "scan"
    /\ todo' = Inconsistent
    /\ seen' = impacted \cap Inconsistent
    /\ pc' = "next"
    /\ UNCHANGED <<dryRun, balance, rowVars, confirmed, current, left, answer, wallet,
                   moved, stranded, boundVars>>

\* The row is marked (false, false); nothing is done to the wallet.
MarkFailed(t) ==
    IF dryRun
      THEN UNCHANGED <<impacted, settled, stranded>>
      ELSE /\ impacted' = impacted \ {t}
           /\ settled' = settled \ {t}
           /\ stranded' = IF t \in impacted THEN stranded \cup {t} ELSE stranded

\* The next row; one without an invoice is marked failed at once.
TakeRow ==
    /\ pc = "next"
    /\ \E t \in todo :
         /\ todo' = todo \ {t}
         /\ IF t \in Invalid
              THEN MarkFailed(t) /\ UNCHANGED <<pc, current, left>>
              ELSE /\ pc' = "check" /\ current' = t /\ left' = Retries
                   /\ UNCHANGED <<rowVars, stranded>>
    /\ UNCHANGED <<dryRun, balance, confirmed, seen, answer, wallet, moved, boundVars>>

Finish ==
    /\ pc = "next"
    /\ todo = {}
    /\ pc' = "done"
    /\ UNCHANGED <<dryRun, balance, rowVars, confirmed, loopVars, moved, stranded, boundVars>>

\* LND knows the invoices of our own node only.
IsOurs == current \in Own
IsConfirmed == current \in confirmed

InvoiceAnswered ==
    /\ pc = "check"
    /\ current \in Own
    /\ answer' = IF IsConfirmed THEN "confirmed" ELSE "unconfirmed"
    /\ pc' = "decide"
    /\ UNCHANGED <<dryRun, balance, rowVars, confirmed, todo, seen, current, left, wallet,
                   moved, stranded, boundVars>>

\* The check fails, is repeated, and at last throws.
RetriesNotNegative == left >= 0
CanRetry == left > 0
SameRetries == left
FewerRetries == left - 1

CheckFails ==
    /\ pc = "check"
    /\ pc' = IF CanRetry THEN "delay" ELSE "catch"
    /\ UNCHANGED <<dryRun, balance, rowVars, confirmed, loopVars, moved, stranded, boundVars>>

CheckAgain ==
    /\ pc = "delay"
    /\ left' = FewerRetries
    /\ pc' = "check"
    /\ UNCHANGED <<dryRun, balance, rowVars, confirmed, todo, seen, current, answer, wallet,
                   moved, stranded, boundVars>>

\* The wallet is read where the branch needs it.
ReadWallet ==
    /\ pc = "decide"
    /\ wallet' = balance[WalletOf[current]]
    /\ pc' = "write"
    /\ UNCHANGED <<dryRun, balance, rowVars, confirmed, todo, seen, current, left, answer,
                   moved, stranded, boundVars>>

\* One branch of the loop: what is written of the row and the wallet, from the
\* flags that were scanned.  Only the last condition looks at the wallet.
RowImpacted == current \in seen
RowPayable == current \in Deposits \/ Covers(wallet, Total(Amount[current]))
FlagsFollowed(imp, set) ==
    /\ impacted' = IF imp THEN impacted \cup {current} ELSE impacted \ {current}
    /\ settled' = IF set THEN settled \cup {current} ELSE settled \ {current}
AddToWallet(sats) == balance' = [balance EXCEPT ![WalletOf[current]] = @ + sats]

RevertTwice == 2 * Effect[current]
Reverted == Effect[current]

FollowLnd ==
    \/ /\ answer = "confirmed" /\ RowImpacted
       /\ FlagsFollowed(TRUE, TRUE) /\ UNCHANGED balance
    \/ /\ answer = "unconfirmed" /\ RowImpacted
       /\ FlagsFollowed(FALSE, FALSE) /\ AddToWallet(-Reverted)
    \/ /\ answer = "confirmed" /\ ~RowImpacted /\ RowPayable
       /\ FlagsFollowed(TRUE, TRUE) /\ AddToWallet(Effect[current])
    \/ /\ answer = "confirmed" /\ ~RowImpacted /\ ~RowPayable
       /\ FlagsFollowed(FALSE, FALSE) /\ UNCHANGED balance
    \/ /\ answer = "unconfirmed" /\ ~RowImpacted
       /\ FlagsFollowed(FALSE, FALSE) /\ UNCHANGED balance

\* Under dryRun the branch only logs.
Always(dry) == TRUE
Unless(dry) == ~dry
Writes == Unless(dryRun)

\* The writes of a branch are one transaction, or a single update.
Write ==
    /\ pc = "write"
    /\ IF Writes THEN FollowLnd ELSE UNCHANGED <<balance, rowVars>>
    /\ \A w \in Wallets : balance'[w] <= MaxSats
    /\ pc' = "next"
    /\ UNCHANGED <<dryRun, confirmed, loopVars, moved, stranded, boundVars>>

\* It throws: the wallet cannot be read, the integer column overflows, or the
\* database refuses.
WriteFails ==
    /\ pc = "decide" \/ (pc = "write" /\ ~dryRun)
    /\ pc' = "catch"
    /\ UNCHANGED <<dryRun, balance, rowVars, confirmed, loopVars, moved, stranded, boundVars>>

CatchError ==
    /\ pc = "catch"
    /\ MarkFailed(current)
    /\ pc' = "next"
    /\ UNCHANGED <<dryRun, balance, confirmed, loopVars, moved, boundVars>>

\* The scan, or the update that marks a row as failed, throws: the outer catch
\* rethrows and initializeApp goes on without the rest.
Abort ==
    /\ \/ pc = "scan"
       \/ pc = "next" /\ todo \cap Invalid # {} /\ ~dryRun
       \/ pc = "catch" /\ ~dryRun
    /\ pc' = "aborted"
    /\ UNCHANGED <<dryRun, balance, rowVars, confirmed, loopVars, moved, stranded, boundVars>>

Loop ==
    \/ Scan
    \/ TakeRow
    \/ Finish
    \/ InvoiceAnswered
    \/ CheckFails
    \/ CheckAgain
    \/ ReadWallet
    \/ Write
    \/ WriteFails
    \/ CatchError
    \/ Abort

\* The process dies, or is started again later.
Restart ==
    /\ restarts < MaxRestarts
    /\ restarts' = restarts + 1
    /\ pc' = "scan"
    /\ todo' = {} /\ seen' = {} /\ current' = NoRow /\ left' = 0 /\ answer' = "none"
    /\ wallet' = 0
    /\ UNCHANGED <<dryRun, balance, rowVars, confirmed, moved, stranded, moves>>

\* An operation of the process that still serves: guarded, as in WalletService.
OtherProcess(w) ==
    /\ moves < MaxTraffic
    /\ moves' = moves + 1
    /\ \E sats \in {-Traffic, Traffic} :
         /\ balance[w] + sats \in Sats
         /\ balance' = [balance EXCEPT ![w] = @ + sats]
         /\ moved' = [moved EXCEPT ![w] = @ + sats]
    /\ UNCHANGED <<dryRun, rowVars, confirmed, pc, loopVars, stranded, restarts>>

\* An invoice of ours is paid at last.
InvoicePaid(t) ==
    /\ t \in Own \ confirmed
    /\ confirmed' = confirmed \cup {t}
    /\ UNCHANGED <<dryRun, balance, rowVars, pc, loopVars, moved, stranded, boundVars>>

Started == pc \in {"done", "aborted"} /\ UNCHANGED vars

Next ==
    \/ Loop
    \/ Restart
    \/ \E w \in Wallets : OtherProcess(w)
    \/ \E t \in Txs : InvoicePaid(t)
    \/ Started

Spec == Init /\ [][Next]_vars
FairSpec == Spec /\ WF_vars(Loop)

-----------------------------------------------------------------------------

(***************************************************************************)
(* Why the loop is right: the flags it scanned of the rows it has not      *)
(* finished still are those of the database, no other row has differing    *)
(* flags, and a row that was given up never comes back.                    *)
(***************************************************************************)
Processing == pc \in {"check", "delay", "decide", "write", "catch"}
Pending == IF Processing THEN todo \cup {current} ELSE todo

ScanIsCurrent ==
    /\ Pending \subseteq Inconsistent
    /\ seen \cap Pending = impacted \cap Pending
OthersAgree == ~dryRun /\ pc \notin {"scan", "aborted"} => Inconsistent \subseteq Pending
StrandedIsOver == stranded \cap (impacted \cup settled) = {}
CurrentIsTaken == Processing => current \in Txs \ todo
RetryRemains == pc = "delay" => left > 0
AnswerHolds ==
    pc \in {"decide", "write"} =>
        /\ answer # "none"
        /\ answer = "confirmed" => current \in confirmed
NothingLeft == pc = "done" => todo = {}

LoopInvariant ==
    /\ TypeOK
    /\ ScanIsCurrent
    /\ OthersAgree
    /\ StrandedIsOver
    /\ CurrentIsTaken
    /\ RetryRemains
    /\ AnswerHolds
    /\ NothingLeft

-----------------------------------------------------------------------------

\* What a balance holds beyond the other process's operations and the rows.
Unexplained(w) ==
    balance[w] - moved[w]
      - SumFunctionOnSet(Effect, {t \in impacted \cup stranded : WalletOf[t] = w})

(***************************************************************************)
(* Reverting and applying (wallet.service.ts:99-126, 128-154, 179-208,     *)
(* 210-253) touch the flag and the wallet together: whatever the other     *)
(* process does, wherever this one dies and however often it starts over,  *)
(* no row is reverted or applied twice or halfway, unless the catch block  *)
(* gave the row up.                                                        *)
(***************************************************************************)
BalanceFollowsRows == [][\A w \in Wallets : Unexplained(w)' = Unexplained(w)]_vars

(***************************************************************************)
(* A loop that reaches its end, on the first start or a later one, leaves  *)
(* no row with differing flags, whichever checks and writes failed         *)
(* (wallet.service.ts:20-281).                                             *)
(***************************************************************************)
Reconciled == pc = "done" /\ ~dryRun => impacted = settled

(***************************************************************************)
(* A row ends as impacted and settled only if LND confirmed its invoice:   *)
(* a failed or repeated check never lets an effect through                 *)
(* (wallet.service.ts:82-98, 128-154, 168-178, 210-253).                   *)
(***************************************************************************)
SettledWasConfirmed ==
    [][\A t \in Txs : t \in (impacted \cap settled)' \ (impacted \cap settled)
                        => t \in confirmed]_vars

(***************************************************************************)
(* WALLET_RECONCILE_DRY_RUN: no path of the loop, the catch block          *)
(* included, writes a row or a wallet (wallet.service.ts:23-25, 69, 90,    *)
(* 108, 137, 156, 170, 189, 220, 233, 256, 269).                           *)
(***************************************************************************)
DryRunWritesNothing ==
    [][dryRun => /\ UNCHANGED rowVars
                 /\ \A w \in Wallets : balance'[w] - moved'[w] = balance[w] - moved[w]]_vars

(***************************************************************************)
(* The server listens only after the loop (server.ts:28, index.ts:59): it  *)
(* ends although every check may fail, because the retries are bounded.    *)
(***************************************************************************)
LoopEnds == <>(pc \in {"done", "aborted"})

(***************************************************************************)
(* What makes it end: a lexicographic rank.  First come the rows it has    *)
(* not taken, then how far it is with the one in hand, where each failed   *)
(* check costs a retry (wallet.service.ts:20-281, 40-81).  Nothing but a   *)
(* new start raises it, so only finitely many steps can be taken.          *)
(***************************************************************************)
Untaken == Cardinality(IF pc = "scan" THEN Txs ELSE todo)
Ahead ==
    CASE pc = "check" -> 2 * left + 5
      [] pc = "delay" -> 2 * left + 4
      [] pc = "decide" -> 4
      [] pc = "write" -> 3
      [] pc \in {"catch", "scan"} -> 2
      [] pc = "next" -> 1
      [] OTHER -> 0

Nearer ==
    \/ Untaken' < Untaken
    \/ Untaken' = Untaken /\ Ahead' < Ahead
LoopAdvances ==
    [][ /\ Loop => Nearer
        /\ restarts' = restarts => Nearer \/ UNCHANGED <<Untaken, Ahead>> ]_vars

(***************************************************************************)
(* "Check for inconsistent transactions (walletImpacted !==                *)
(* invoiceSettled) and attempt to reconcile" (wallet.service.ts:21): what  *)
(* an impacted withdrawal that is not settled took is returned, as in      *)
(* transactions.spec.ts:797-917, where the mocked check answers.  Here, of *)
(* withdrawals to invoices of other nodes, whose check always throws.      *)
(***************************************************************************)
FailedIsReverted == stranded \cap (Withdrawals \ Own) = {}
==============================================================================
