----------------------------- MODULE MCProgress ------------------------------
(***************************************************************************)
(* Two transfers that lock the same two rows in opposite orders, a deposit *)
(* with its event and a withdrawal whose answer may be late, in a process  *)
(* that has two connections and may die once: what must still happen.      *)
(***************************************************************************)
EXTENDS ConnectionPool, TLC

CONSTANTS alice, bob, i1, toBob, toAlice, topUp, report, out, shop

MCInstanceOf == [c \in Calls |-> i1]
MCAmount == toBob :> 2 @@ toAlice :> 2 @@ topUp :> 3 @@ out :> 10
MCPayerOf == toBob :> alice @@ toAlice :> bob
MCPayeeOf == toBob :> bob @@ toAlice :> alice
MCWalletOf == topUp :> bob @@ out :> alice
MCDepositOf == report :> topUp
MCTarget == out :> shop
MCInitialBalance == alice :> 12 @@ bob :> 2
NoFunction == <<>>
==============================================================================
