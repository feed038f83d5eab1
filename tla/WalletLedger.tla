---------------------------- MODULE WalletLedger -----------------------------
(***************************************************************************)
(* What the wallet promises its users, without transactions, locks, server *)
(* instances or a Lightning node: the balances change in whole operations, *)
(* each operation happens at most once, no balance leaves 0..MaxSats.      *)
(***************************************************************************)
EXTENDS Amounts

CONSTANTS
    Wallets, Payments, Settlements, Deposits, Withdrawals, PayRequests,
    Batches,            \* pay requests that are created together
    InitialBalance,
    Amount,             \* by payment, deposit, withdrawal (0: as much as
                        \* possible) and pay request
    PayerOf, PayeeOf,   \* of transfers, of payments
    RequestOf,          \* of settlements
    Creator, Receiver,  \* of pay requests
    WalletOf            \* of deposits and withdrawals

VARIABLES balance, row, request

ledgerVars == <<balance, row, request>>

Operations == Payments \cup Settlements \cup Deposits \cup Withdrawals

LedgerInit ==
    /\ balance = InitialBalance
    /\ row = [o \in Operations |-> "none"]
    /\ request = [p \in PayRequests |-> "absent"]

\* Pay requests come into being together.
Ask(b) ==
    /\ \A p \in b : request[p] = "absent"
    /\ request' = [p \in PayRequests |-> IF p \in b THEN "unpaid" ELSE request[p]]
    /\ UNCHANGED <<balance, row>>

\* An amount moves from one wallet to another, or does not move at all.
Move(from, to, sats) ==
    /\ from # to
    /\ PositiveSats(sats)
    /\ Covers(balance[from], sats)
    /\ HasRoom(balance[to], sats)
    /\ balance' = [balance EXCEPT ![from] = @ - sats, ![to] = @ + sats]

Pay(t) ==
    /\ row[t] = "none"
    /\ Move(PayerOf[t], PayeeOf[t], Amount[t])
    /\ row' = [row EXCEPT ![t] = "settled"]
    /\ UNCHANGED request

\* A pay request is paid by the user it was sent to, once.
Settle(t) ==
    /\ row[t] = "none"
    /\ request[RequestOf[t]] = "unpaid"
    /\ PayerOf[t] = Receiver[RequestOf[t]]
    /\ Move(PayerOf[t], Creator[RequestOf[t]], Amount[RequestOf[t]])
    /\ row' = [row EXCEPT ![t] = "settled"]
    /\ request' = [request EXCEPT ![RequestOf[t]] = "paid"]

Announce(d) ==
    /\ row[d] = "none"
    /\ PositiveSats(Amount[d])
    /\ row' = [row EXCEPT ![d] = "pending"]
    /\ UNCHANGED <<balance, request>>

\* An announced deposit is credited once, whole, if it fits.
Credit(d) ==
    /\ row[d] = "pending"
    /\ HasRoom(balance[WalletOf[d]], Amount[d])
    /\ balance' = [balance EXCEPT ![WalletOf[d]] = @ + Amount[d]]
    /\ row' = [row EXCEPT ![d] = "settled"]
    /\ UNCHANGED request

\* A withdrawal takes its amount and the fee reserve, if the wallet has both.
Charge(r) ==
    /\ row[r] = "none"
    /\ \E sats \in Sats :
         /\ PositiveSats(sats)
         /\ Amount[r] # 0 => sats = Amount[r]
         /\ Covers(balance[WalletOf[r]], Total(sats))
         /\ balance' = [balance EXCEPT ![WalletOf[r]] = @ - Total(sats)]
    /\ row' = [row EXCEPT ![r] = "settled"]
    /\ UNCHANGED request

LedgerNext ==
    \/ \E b \in Batches : Ask(b)
    \/ \E t \in Payments : Pay(t)
    \/ \E t \in Settlements : Settle(t)
    \/ \E d \in Deposits : Announce(d) \/ Credit(d)
    \/ \E r \in Withdrawals : Charge(r)

LedgerSpec == LedgerInit /\ [][LedgerNext]_ledgerVars
==============================================================================
