---------------------------- MODULE MCWithdrawals ----------------------------
(***************************************************************************)
(* One wallet withdraws three times through two server instances: twice to *)
(* the same invoice of another node, once to a zero-value invoice, while a *)
(* transfer leaves the same wallet.  LND may answer late, a transaction    *)
(* may expire under the payment and a process may die.                     *)
(***************************************************************************)
EXTENDS WalletProperties, TLC

CONSTANTS alice, bob, i1, i2, first, again, sweep, toBob, shop, open0

MCInstanceOf == first :> i1 @@ again :> i2 @@ sweep :> i1 @@ toBob :> i1
MCAmount == first :> 10 @@ again :> 10 @@ sweep :> 0 @@ toBob :> 2
MCPayerOf == toBob :> alice
MCPayeeOf == toBob :> bob
MCWalletOf == first :> alice @@ again :> alice @@ sweep :> alice
MCTarget == first :> shop @@ again :> shop @@ sweep :> open0
MCInitialBalance == alice :> 23 @@ bob :> 0
NoFunction == <<>>
==============================================================================
