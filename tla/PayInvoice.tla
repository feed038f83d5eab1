----------------------------- MODULE PayInvoice ------------------------------
(***************************************************************************)
(* payInvoice of lightning.service.ts: one promise, settled by whichever   *)
(* comes first of the callback of lightning.pay and the timer with its     *)
(* retried invoice check.  Time is counted in seconds; a callback runs at  *)
(* the second it is due.  (The client `lnd` is never null once the module  *)
(* is loaded: nothing calls close().)                                      *)
(***************************************************************************)
EXTENDS Integers

CONSTANTS
    LndTimeout,     \* LND_TIMEOUT
    Retries,        \* retries of retryCheckInvoice: 3
    Delay,          \* and the wait between them: 1 s
    Latency,        \* bound on how long LND takes to answer getInvoice
    MaxDecode       \* bound on how long decodePaymentRequest takes

ASSUME PayInvoiceAssumption ==
    /\ LndTimeout \in Nat \ {0}
    /\ Retries \in Nat
    /\ Delay \in Nat \ {0}
    /\ Latency \in Nat
    /\ MaxDecode \in Nat

\* How long after lightning.pay the last invoice check ends at the latest, and
\* the bound on time that follows.
GivesUp == LndTimeout + Retries * Delay + (Retries + 1) * Latency
Horizon == MaxDecode + GivesUp

VARIABLES
    now,
    promise,        \* "pending", "resolved" or "rejected"
    phase,          \* "decode", "waiting" for lightning.pay, "over"
    timer,          \* "unset", "armed", "cleared" or "fired"
    fires,          \* when the armed timer is due
    check,          \* of the invoice: "none", "asked", "delayed" or "done"
    due,            \* when LND answers the check at the latest, or when the
                    \* delayed one is repeated
    left,           \* retries left
    payment,        \* at LND: "none", "inflight", "paid", "failed"
    own,            \* the invoice at our node: "foreign", "open", "settled"
    lost            \* the stream of lightning.pay broke: its callback gets an
                    \* error whatever becomes of the payment

vars == <<now, promise, phase, timer, fires, check, due, left, payment, own, lost>>

Times == 0..Horizon

TypeOK ==
    /\ now \in Times
    /\ promise \in {"pending", "resolved", "rejected"}
    /\ phase \in {"decode", "waiting", "over"}
    /\ timer \in {"unset", "armed", "cleared", "fired"}
    /\ fires \in Nat
    /\ check \in {"none", "asked", "delayed", "done"}
    /\ due \in Nat
    /\ left \in 0..Retries
    /\ payment \in {"none", "inflight", "paid", "failed"}
    /\ own \in {"foreign", "open", "settled"}
    /\ lost \in BOOLEAN

Init ==
    /\ now = 0
    /\ promise = "pending"
    /\ phase = "decode"
    /\ timer = "unset"
    /\ fires = 0
    /\ check = "none"
    /\ due = 0
    /\ left = Retries
    /\ payment = "none"
    /\ own \in {"foreign", "open"}
    /\ lost = FALSE

\* resolve and reject have no effect on a promise that is settled.
Settle(answer) == promise' = IF promise = "pending" THEN answer ELSE promise

-----------------------------------------------------------------------------
(* The call.                                                               *)

\* decodePaymentRequest fails: no timer, no payment.
DecodeFails ==
    /\ phase = "decode"
    /\ phase' = "over"
    /\ Settle("rejected")
    /\ UNCHANGED <<now, timer, fires, check, due, left, payment, own, lost>>

\* The invoice is decoded: the timer is armed and lightning.pay is called.
Pay ==
    /\ phase = "decode"
    /\ phase' = "waiting"
    /\ timer' = "armed"
    /\ fires' = now + LndTimeout
    /\ payment' = "inflight"
    /\ UNCHANGED <<now, promise, check, due, left, own, lost>>

\* clearTimeout does nothing to a timer that has fired.  The timer would stay
\* armed if it were forgotten.
KeepTimer == timer
ClearTimer == IF timer = "armed" THEN "cleared" ELSE timer

\* The callback of lightning.pay, with a payment or with an error.
PaySucceeded ==
    /\ phase = "waiting"
    /\ payment = "paid"
    /\ ~lost
    /\ phase' = "over"
    /\ timer' = ClearTimer
    /\ Settle("resolved")
    /\ UNCHANGED <<now, fires, check, due, left, payment, own, lost>>

PayFailed ==
    /\ phase = "waiting"
    /\ payment = "failed" \/ lost
    /\ phase' = "over"
    /\ timer' = ClearTimer
    /\ Settle("rejected")
    /\ UNCHANGED <<now, fires, check, due, left, payment, own, lost>>

-----------------------------------------------------------------------------
(* The timer.                                                              *)

AskForInvoice ==
    /\ check' = "asked"
    /\ due' = now + Latency

TimerFires ==
    /\ timer = "armed"
    /\ now = fires
    /\ timer' = "fired"
    /\ AskForInvoice
    /\ UNCHANGED <<now, promise, phase, fires, left, payment, own, lost>>

\* checkInvoice resolves: LND knows its own invoices only.  What an answer
\* means, and how to misread it.
AnyAnswerConfirms == "resolved"
Verdict == IF own = "settled" THEN "resolved" ELSE "rejected"

InvoiceChecked ==
    /\ check = "asked"
    /\ own # "foreign"
    /\ check' = "done"
    /\ Settle(Verdict)
    /\ UNCHANGED <<now, phase, timer, fires, due, left, payment, own, lost>>

\* checkInvoice rejects, as it always does for an invoice of another node:
\* one attempt less, or the promise is rejected.  (The slip: no count.)
RetryForEver == TRUE
MayRetry == left > 0

CheckFails ==
    /\ check = "asked"
    /\ IF MayRetry
         THEN /\ check' = "delayed"
              /\ due' = now + Delay
              /\ UNCHANGED promise
         ELSE /\ check' = "done"
              /\ Settle("rejected")
              /\ UNCHANGED due
    /\ UNCHANGED <<now, phase, timer, fires, left, payment, own, lost>>

CheckAgain ==
    /\ check = "delayed"
    /\ now = due
    /\ left' = left - 1
    /\ AskForInvoice
    /\ UNCHANGED <<now, promise, phase, timer, fires, payment, own, lost>>

-----------------------------------------------------------------------------
(* LND, the payers and the clock.                                          *)

PaymentSucceeds ==
    /\ payment = "inflight"
    /\ own # "settled"
    /\ payment' = "paid"
    /\ own' = IF own = "open" THEN "settled" ELSE own
    /\ UNCHANGED <<now, promise, phase, timer, fires, check, due, left, lost>>

PaymentFails ==
    /\ payment = "inflight"
    /\ payment' = "failed"
    /\ UNCHANGED <<now, promise, phase, timer, fires, check, due, left, own, lost>>

StreamBreaks ==
    /\ phase = "waiting"
    /\ ~lost
    /\ lost' = TRUE
    /\ UNCHANGED <<now, promise, phase, timer, fires, check, due, left, payment, own>>

InvoicePaid ==
    /\ own = "open"
    /\ own' = "settled"
    /\ UNCHANGED <<now, promise, phase, timer, fires, check, due, left, payment, lost>>

\* Time passes no callback that is due.
Tick ==
    /\ now < (IF phase = "decode" THEN MaxDecode ELSE Horizon)
    /\ ~(timer = "armed" /\ now = fires)
    /\ ~(check \in {"asked", "delayed"} /\ now = due)
    /\ now' = now + 1
    /\ UNCHANGED <<promise, phase, timer, fires, check, due, left, payment, own, lost>>

Call == DecodeFails \/ Pay \/ PaySucceeded \/ PayFailed
Timer == TimerFires \/ InvoiceChecked \/ CheckFails \/ CheckAgain
Node == PaymentSucceeds \/ PaymentFails \/ StreamBreaks \/ InvoicePaid

\* The call is answered; LND may still leave the payment open for ever.
Over == promise # "pending" /\ check \in {"none", "done"} /\ UNCHANGED vars

Next == Call \/ Timer \/ Node \/ Tick \/ Over

Spec == Init /\ [][Next]_vars

\* The event loop runs what is due and time goes on; LND answers the decoding
\* and the invoice checks, even if with an error.  Nothing says that lightning.pay calls back.
FairSpec == Spec /\ WF_vars(DecodeFails \/ Pay) /\ WF_vars(Timer) /\ WF_vars(Tick)

-----------------------------------------------------------------------------

\* LND did not answer in time or its answer was lost.
doubt == timer = "fired" \/ lost

\* payInvoice keeps what PayCall promises to payWithdrawInvoice.
Abstract == INSTANCE PayCall
CallSpec == Abstract!CallSpec

\* The retries are bounded: once the timer has fired, the promise is settled
\* within the retries, their delays and LND's answers to them.  (The
\* transaction around the call lives LND_TIMEOUT + 5 s, counted from before.)
AnswersInTime ==
    promise = "pending" /\ timer # "unset" => now <= (fires - LndTimeout) + GivesUp

\* When lightning.pay called back before the timer, the timer never runs: LND
\* is not asked about an invoice whose payment is already answered.
ClearedTimerIsSilent == [][phase = "over" /\ check = "none" => check' = "none"]_vars

\* Whatever LND does, a call whose invoice was decoded is answered.
Answered == phase = "waiting" ~> promise # "pending"
==============================================================================
