----------------------------- MODULE MCDeposits ------------------------------
(***************************************************************************)
(* One wallet asks for two deposit invoices.  One is settled by an outside *)
(* payer or by another wallet's withdrawal, and LND reports it twice; the  *)
(* wallet also spends.  The integer limit can refuse a credit.             *)
(***************************************************************************)
EXTENDS WalletProperties, TLC

CONSTANTS alice, bob, i1, i2, small, large, report, repeat, other, cross, toAlice

MCInstanceOf == small :> i1 @@ large :> i2 @@ report :> i1 @@ repeat :> i1
                  @@ other :> i2 @@ cross :> i2 @@ toAlice :> i1
MCAmount == small :> 4 @@ large :> 10 @@ cross :> 4 @@ toAlice :> 2
MCPayerOf == toAlice :> bob
MCPayeeOf == toAlice :> alice
MCWalletOf == small :> bob @@ large :> bob @@ cross :> alice
MCDepositOf == report :> small @@ repeat :> small @@ other :> large
MCTarget == cross :> small
MCInitialBalance == alice :> 6 @@ bob :> 2
NoFunction == <<>>
==============================================================================
