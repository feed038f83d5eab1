-------------------------- MODULE MCReconciliation ---------------------------
(***************************************************************************)
(* A deposit, a withdrawal to an invoice of our own node and another one,  *)
(* in every combination of flags.  The previous process moves sats of the  *)
(* same wallet: with them the integer limit or the balance may not allow   *)
(* what the rows ask for.                                                  *)
(***************************************************************************)
EXTENDS Reconciliation, TLC

CONSTANTS alice, deposit, internal, other

MCWalletOf == [t \in {deposit, internal, other} |-> alice]
MCAmount == deposit :> 5 @@ internal :> 10 @@ other :> 3
MCInitialBalance == alice :> 12
==============================================================================
