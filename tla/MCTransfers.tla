----------------------------- MODULE MCTransfers -----------------------------
(***************************************************************************)
(* Two users pay each other in both directions while two devices of one of *)
(* them settle the same pay request of a third, through two instances, and *)
(* the other tries to settle it too; one wallet may be disabled meanwhile  *)
(* and one transaction may expire.  Not every order of the payments is     *)
(* covered by the payer's balance, or fits into the payee's.               *)
(***************************************************************************)
EXTENDS WalletProperties, TLC

CONSTANTS alice, bob, carol, i1, i2, toBob, toAlice, settle1, settle2, notMine, bill

MCInstanceOf == toBob :> i1 @@ toAlice :> i2 @@ settle1 :> i1 @@ settle2 :> i2
                  @@ notMine :> i1
MCAmount == toBob :> 3 @@ toAlice :> 2 @@ bill :> 2
MCPayerOf == toBob :> alice @@ toAlice :> bob @@ settle1 :> alice @@ settle2 :> alice
                @@ notMine :> bob
MCPayeeOf == toBob :> bob @@ toAlice :> alice
MCRequestOf == settle1 :> bill @@ settle2 :> bill @@ notMine :> bill
MCCreator == bill :> carol
MCReceiver == bill :> alice
MCBatches == {{bill}}
MCInitialBalance == alice :> 4 @@ bob :> 2 @@ carol :> 0
NoFunction == <<>>
==============================================================================
