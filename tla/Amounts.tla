------------------------------- MODULE Amounts -------------------------------
(***************************************************************************)
(* The arithmetic of wallet.service.ts: what is reserved for routing fees, *)
(* what a zero-value invoice withdraws, and the bounds every balance       *)
(* update is guarded with.  Balances are PostgreSQL Int columns, so the    *)
(* guards of the code keep them in 0..MaxSats (MAX_WALLET_SATS).           *)
(***************************************************************************)
EXTENDS Integers

CONSTANTS
    MaxSats,        \* MAX_WALLET_SATS, the largest value of an Int column
    WalletLimit     \* config.wallet.limit; 0 means "the integer limit"

ASSUME AmountsAssumption ==
    /\ MaxSats \in Nat
    /\ WalletLimit \in Nat

Sats == 0..MaxSats

\* Math.round(n / 20): halves are rounded up.
FeeReserve(n) == (n + 10) \div 20

\* What a withdrawal of n sats takes from the wallet.
Total(n) == n + FeeReserve(n)

\* What a zero-value invoice withdraws from a wallet holding `balance`.
SweepAmount(balance) == balance - FeeReserve(balance)

\* assertPositiveSats: anything that is not in 1..MaxSats is refused.
PositiveSats(n) == n \in 1..MaxSats

\* The guard `balanceInSats: { gte: sats }` of every debit.
Covers(balance, sats) == balance >= sats

\* The guard `balanceInSats: { lte: MAX_WALLET_SATS - sats }` of every credit.
HasRoom(balance, sats) == balance <= MaxSats - sats

\* walletLimit of createDepositInvoice.
EffectiveLimit == IF WalletLimit > 0 THEN WalletLimit ELSE MaxSats
==============================================================================
