------------------------------- MODULE PayCall -------------------------------
(***************************************************************************)
(* What payWithdrawInvoice may rely on when it awaits payInvoice: one      *)
(* answer, a success only for an invoice that is paid, a failure of a      *)
(* payment that may still succeed only once the call is in doubt.  These   *)
(* are the guards PaymentConfirmed and PaymentRejected of WalletService,   *)
(* with doubt for its set Late.                                            *)
(***************************************************************************)
VARIABLES
    promise,    \* "pending", "resolved" or "rejected"
    payment,    \* the payment at LND: "none", "inflight", "paid", "failed"
    own,        \* the invoice at our node: "foreign", "open", "settled"
    doubt       \* LND did not answer in time, or its answer was lost

callVars == <<promise, payment, own, doubt>>

CallInit ==
    /\ promise = "pending"
    /\ payment = "none"
    /\ own \in {"foreign", "open"}
    /\ doubt = FALSE

Launch == payment = "none" /\ promise = "pending" /\ payment' = "inflight"
          /\ UNCHANGED <<promise, own, doubt>>

Succeed ==
    /\ payment = "inflight"
    /\ own # "settled"
    /\ payment' = "paid"
    /\ own' = IF own = "open" THEN "settled" ELSE own
    /\ UNCHANGED <<promise, doubt>>

FailPayment == payment = "inflight" /\ payment' = "failed" /\ UNCHANGED <<promise, own, doubt>>

\* Somebody else pays the invoice.
PayOwn == own = "open" /\ own' = "settled" /\ UNCHANGED <<promise, payment, doubt>>

Doubt == ~doubt /\ doubt' = TRUE /\ UNCHANGED <<promise, payment, own>>

Resolve ==
    /\ promise = "pending"
    /\ payment = "paid" \/ (doubt /\ own = "settled")
    /\ promise' = "resolved"
    /\ UNCHANGED <<payment, own, doubt>>

Reject ==
    /\ promise = "pending"
    /\ payment \in {"none", "failed"} \/ doubt
    /\ promise' = "rejected"
    /\ UNCHANGED <<payment, own, doubt>>

CallNext == Launch \/ Succeed \/ FailPayment \/ PayOwn \/ Doubt \/ Resolve \/ Reject

CallSpec == CallInit /\ [][CallNext]_callVars
==============================================================================
