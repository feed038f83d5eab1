-------------------------- MODULE PayInvoice_proofs --------------------------
(***************************************************************************)
(* The safety of payInvoice for every time-out, number of retries, delay   *)
(* and latency.                                                            *)
(***************************************************************************)
EXTENDS PayInvoice, TLAPS

\* When the next invoice check ends at the latest, with l retries left.
Round == Delay + Latency
LastDue(l) == fires + (Retries - l) * Round + Latency

\* Before the invoice is decoded there is nothing to answer about.
NotCalled ==
    phase = "decode" =>
        /\ timer = "unset"
        /\ payment = "none"
        /\ promise = "pending"
        /\ ~lost
        /\ now <= MaxDecode

\* The timer and the check go together, and the promise is pending only as long
\* as one of them is still to come.
TimerAndCheck ==
    /\ timer = "unset" <=> phase = "decode" \/ (phase = "over" /\ payment = "none")
    /\ phase = "waiting" => payment # "none"
    /\ timer = "fired" <=> check # "none"
    /\ timer = "armed" => phase = "waiting" /\ promise = "pending"
    /\ timer \in {"unset", "cleared"} /\ phase # "decode" => promise # "pending"
    /\ timer = "cleared" => phase = "over"
    /\ check = "done" => promise # "pending"
    /\ check = "none" => left = Retries

\* No callback is late.
OnTime ==
    /\ timer # "unset" => fires - LndTimeout \in 0..MaxDecode
    /\ timer = "armed" => now <= fires
    /\ check = "asked" => now <= due /\ due <= LastDue(left)
    /\ check = "delayed" => left > 0 /\ now <= due /\ due <= LastDue(left) + Delay

IInv == TypeOK /\ NotCalled /\ TimerAndCheck /\ OnTime

-----------------------------------------------------------------------------
(* Products of constants, for the provers.                                 *)

LEMMA RoundIsNatural == Round \in Nat
BY PayInvoiceAssumption DEF Round

LEMMA GivesUpInRounds ==
    /\ GivesUp \in Nat
    /\ Horizon \in Nat
    /\ Retries * Round \in Nat
    /\ GivesUp = LndTimeout + Retries * Round + Latency
<1>1. /\ LndTimeout \in Nat /\ Retries \in Nat /\ Delay \in Nat
      /\ Latency \in Nat /\ MaxDecode \in Nat
  BY PayInvoiceAssumption
<1>2. Retries * Delay \in Nat /\ Retries * Latency \in Nat
  BY <1>1
<1>3. (Retries + 1) * Latency = Retries * Latency + Latency
  BY <1>1
<1>4. Retries * Round = Retries * Delay + Retries * Latency
  BY <1>1 DEF Round
<1> QED
  BY <1>1, <1>2, <1>3, <1>4 DEF GivesUp, Horizon

\* One retry less moves the last check by one round; all of them, by all rounds.
LEMMA LaterByOneRound ==
    ASSUME NEW l \in 0..Retries, fires \in Nat
    PROVE  /\ LastDue(l) \in Nat
           /\ fires + Latency <= LastDue(l)
           /\ LastDue(l) <= fires + Retries * Round + Latency
           /\ LastDue(Retries) = fires + Latency
           /\ l > 0 => LastDue(l - 1) = LastDue(l) + Round
<1>1. /\ Retries \in Nat /\ Latency \in Nat /\ Round \in Nat
  BY PayInvoiceAssumption, RoundIsNatural
<1>2. (Retries - l) * Round \in Nat /\ l * Round \in Nat /\ Retries * Round \in Nat
  BY <1>1
<1>3. Retries * Round = (Retries - l) * Round + l * Round
  BY <1>1
<1>4. (Retries - (l - 1)) * Round = (Retries - l) * Round + Round
  BY <1>1
<1>5. (Retries - Retries) * Round = 0
  BY <1>1
<1> QED
  BY <1>1, <1>2, <1>3, <1>4, <1>5 DEF LastDue

-----------------------------------------------------------------------------

LEMMA InitHolds == Init => IInv
<1> SUFFICES ASSUME Init PROVE IInv
  OBVIOUS
<1>1. TypeOK
  <2>1. now \in Times /\ fires \in Nat /\ due \in Nat /\ left \in 0..Retries
    BY PayInvoiceAssumption, GivesUpInRounds DEF Init, Times
  <2> QED
    BY <2>1, Zenon DEF Init, TypeOK
<1>2. NotCalled
  BY PayInvoiceAssumption DEF Init, NotCalled
<1>3. TimerAndCheck /\ OnTime
  BY DEF Init, TimerAndCheck, OnTime
<1> QED
  BY <1>1, <1>2, <1>3 DEF IInv

\* The promise and the timer are settled; no deadline moves.
LEMMA AnswersPreserveIInv ==
    ASSUME IInv, DecodeFails \/ PaySucceeded \/ PayFailed \/ InvoiceChecked
    PROVE  IInv'
<1> USE DEF IInv, TypeOK, NotCalled, TimerAndCheck, OnTime, LastDue, Times
<1>1. CASE DecodeFails
  BY <1>1, Z3 DEF DecodeFails, Settle
<1>2. CASE PaySucceeded
  BY <1>2, Z3 DEF PaySucceeded, Settle, ClearTimer
<1>3. CASE PayFailed
  BY <1>3, Z3 DEF PayFailed, Settle, ClearTimer
<1>4. CASE InvoiceChecked
  BY <1>4, Z3 DEF InvoiceChecked, Settle, Verdict
<1> QED
  BY <1>1, <1>2, <1>3, <1>4

\* The timer is armed, and what follows when it fires.
LEMMA DeadlinesPreserveIInv ==
    ASSUME IInv, Pay \/ TimerFires \/ CheckFails \/ CheckAgain
    PROVE  IInv'
<1> USE PayInvoiceAssumption, RoundIsNatural
<1> USE DEF IInv, TypeOK, NotCalled, TimerAndCheck, OnTime, Times
<1>1. CASE Pay
  BY <1>1 DEF Pay
<1>2. CASE TimerFires
  <2>1. LastDue(left)' = LastDue(left) /\ fires + Latency <= LastDue(left)
    BY <1>2, LaterByOneRound DEF TimerFires, LastDue
  <2> QED
    BY <1>2, <2>1 DEF TimerFires, AskForInvoice
<1>3. CASE CheckFails
  <2>1. LastDue(left)' = LastDue(left) /\ LastDue(left) \in Nat
    BY <1>3, LaterByOneRound DEF CheckFails, LastDue
  <2> QED
    BY <1>3, <2>1 DEF CheckFails, MayRetry, Settle
<1>4. CASE CheckAgain
  <2>1. LastDue(left)' = LastDue(left) + Round /\ LastDue(left) \in Nat
    BY <1>4, LaterByOneRound DEF CheckAgain, LastDue
  <2> QED
    BY <1>4, <2>1 DEF CheckAgain, AskForInvoice, Round
<1> QED
  BY <1>1, <1>2, <1>3, <1>4

\* LND, other payers and the clock.
LEMMA OthersPreserveIInv ==
    ASSUME IInv, Node \/ Tick
    PROVE  IInv'
<1> USE DEF IInv, TypeOK, NotCalled, TimerAndCheck, OnTime, Times, LastDue
<1>1. CASE PaymentSucceeds
  BY <1>1, Z3 DEF PaymentSucceeds
<1>2. CASE PaymentFails
  BY <1>2, Z3 DEF PaymentFails
<1>3. CASE StreamBreaks
  BY <1>3, Z3 DEF StreamBreaks
<1>4. CASE InvoicePaid
  BY <1>4, Z3 DEF InvoicePaid
<1>5. CASE Tick
  BY <1>5, PayInvoiceAssumption, GivesUpInRounds DEF Tick, Horizon
<1> QED
  BY <1>1, <1>2, <1>3, <1>4, <1>5 DEF Node

\* Some callback is always still to come for a pending call, and none is late.
THEOREM PayInvoiceInvariant == Spec => []IInv
<1>1. Init => IInv
  BY InitHolds
<1>2. IInv /\ [Next]_vars => IInv'
  <2> SUFFICES ASSUME IInv, [Next]_vars PROVE IInv'
    OBVIOUS
  <2>1. CASE Call \/ Timer
    BY <2>1, AnswersPreserveIInv, DeadlinesPreserveIInv DEF Call, Timer
  <2>2. CASE Node \/ Tick
    BY <2>2, OthersPreserveIInv
  <2>3. CASE Over \/ UNCHANGED vars
    BY <2>3 DEF Over, vars, IInv, TypeOK, NotCalled, TimerAndCheck, OnTime, LastDue
  <2> QED
    BY <2>1, <2>2, <2>3 DEF Next
<1> QED
  BY <1>1, <1>2, PTL DEF Spec

\* Every variable keeps its range; the retries never run below zero.
THEOREM TypeCorrect == Spec => []TypeOK
<1>1. IInv => TypeOK
  BY DEF IInv
<1> QED
  BY <1>1, PayInvoiceInvariant, PTL

\* However LND behaves, a pending call is at most LND_TIMEOUT and the rounds of its
\* retried check old.
THEOREM CallsAreAnsweredInTime == Spec => []AnswersInTime
<1>1. IInv => AnswersInTime
  <2> SUFFICES ASSUME IInv, promise = "pending", timer # "unset"
               PROVE  now <= (fires - LndTimeout) + GivesUp
    BY DEF AnswersInTime
  <2>1. /\ LndTimeout \in Nat /\ Latency \in Nat /\ Delay \in Nat /\ Retries \in Nat
        /\ now \in Int /\ fires \in Nat /\ due \in Nat /\ left \in 0..Retries
    BY PayInvoiceAssumption DEF IInv, TypeOK, Times
  <2>2. GivesUp = LndTimeout + Retries * Round + Latency /\ Retries * Round \in Nat
    BY GivesUpInRounds
  <2>3. CASE timer = "armed"
    BY <2>1, <2>2, <2>3 DEF IInv, OnTime
  <2>4. CASE check = "asked"
    BY <2>1, <2>2, <2>4, LaterByOneRound DEF IInv, OnTime
  <2>5. CASE check = "delayed"
    <3>1. left - 1 \in 0..Retries /\ LastDue(left - 1) = LastDue(left) + Round
      BY <2>1, <2>5, LaterByOneRound DEF IInv, OnTime
    <3>2. LastDue(left - 1) <= fires + Retries * Round + Latency
      BY <2>1, <3>1, LaterByOneRound
    <3> QED
      BY <2>1, <2>2, <2>5, <3>1, <3>2, LaterByOneRound DEF IInv, OnTime, Round
  <2> QED
    BY <2>3, <2>4, <2>5 DEF IInv, TypeOK, TimerAndCheck, NotCalled
<1> QED
  BY <1>1, PayInvoiceInvariant, PTL

-----------------------------------------------------------------------------
(* What payWithdrawInvoice relies on.                                      *)

LEMMA AnswerIsACallStep ==
    ASSUME IInv, DecodeFails \/ PaySucceeded \/ PayFailed \/ InvoiceChecked \/ CheckFails
    PROVE  [Abstract!CallNext]_(Abstract!callVars)
<1> USE DEF IInv, TypeOK, NotCalled, TimerAndCheck, doubt, Settle, Abstract!callVars
<1>1. CASE DecodeFails
  BY <1>1 DEF DecodeFails, Abstract!CallNext, Abstract!Reject
<1>2. CASE PaySucceeded
  BY <1>2 DEF PaySucceeded, ClearTimer, Abstract!CallNext, Abstract!Resolve
<1>3. CASE PayFailed
  BY <1>3 DEF PayFailed, ClearTimer, Abstract!CallNext, Abstract!Reject
<1>4. CASE InvoiceChecked
  BY <1>4 DEF InvoiceChecked, Verdict, Abstract!CallNext, Abstract!Resolve, Abstract!Reject
<1>5. CASE CheckFails
  BY <1>5 DEF CheckFails, Abstract!CallNext, Abstract!Reject
<1> QED
  BY <1>1, <1>2, <1>3, <1>4, <1>5

LEMMA OtherStepIsACallStep ==
    ASSUME IInv, Pay \/ TimerFires \/ CheckAgain \/ Node \/ Tick
    PROVE  [Abstract!CallNext]_(Abstract!callVars)
<1> USE DEF IInv, TypeOK, NotCalled, TimerAndCheck, doubt, Abstract!callVars
<1>1. CASE Pay
  BY <1>1 DEF Pay, Abstract!CallNext, Abstract!Launch
<1>2. CASE TimerFires
  BY <1>2 DEF TimerFires, Abstract!CallNext, Abstract!Doubt
<1>3. CASE CheckAgain \/ Tick
  BY <1>3 DEF CheckAgain, Tick
<1>4. CASE PaymentSucceeds
  BY <1>4 DEF PaymentSucceeds, Abstract!CallNext, Abstract!Succeed
<1>5. CASE PaymentFails
  BY <1>5 DEF PaymentFails, Abstract!CallNext, Abstract!FailPayment
<1>6. CASE StreamBreaks
  BY <1>6 DEF StreamBreaks, Abstract!CallNext, Abstract!Doubt
<1>7. CASE InvoicePaid
  BY <1>7 DEF InvoicePaid, Abstract!CallNext, Abstract!PayOwn
<1> QED
  BY <1>1, <1>2, <1>3, <1>4, <1>5, <1>6, <1>7 DEF Node

\* A payment is answered once, a success means that the invoice is paid, and a
\* failure that it is not, unless LND did not answer in time.
THEOREM PayInvoiceKeepsItsPromise == Spec => CallSpec
<1>1. Init => Abstract!CallInit
  BY DEF Init, doubt, Abstract!CallInit
<1>2. IInv /\ [Next]_vars => [Abstract!CallNext]_(Abstract!callVars)
  <2> SUFFICES ASSUME IInv, [Next]_vars PROVE [Abstract!CallNext]_(Abstract!callVars)
    OBVIOUS
  <2>1. CASE Call \/ Timer \/ Node \/ Tick
    BY <2>1, AnswerIsACallStep, OtherStepIsACallStep DEF Call, Timer
  <2>2. CASE Over \/ UNCHANGED vars
    BY <2>2 DEF Over, vars, doubt, Abstract!callVars
  <2> QED
    BY <2>1, <2>2 DEF Next
<1> QED
  BY <1>1, <1>2, PayInvoiceInvariant, PTL DEF Spec, CallSpec, Abstract!CallSpec

\* A cleared timer asks LND for nothing: when lightning.pay called back and no
\* check had begun, none ever does.
THEOREM TimersStayCleared == Spec => ClearedTimerIsSilent
<1>1. IInv /\ [Next]_vars => [phase = "over" /\ check = "none" => check' = "none"]_vars
  <2> SUFFICES ASSUME IInv, Next, phase = "over", check = "none"
               PROVE  check' = "none"
    OBVIOUS
  <2>1. timer # "armed"
    BY DEF IInv, TimerAndCheck
  <2> QED
    BY <2>1 DEF Next, Call, DecodeFails, Pay, PaySucceeded, PayFailed,
        Timer, TimerFires, InvoiceChecked, CheckFails, CheckAgain,
        Node, PaymentSucceeds, PaymentFails, StreamBreaks, InvoicePaid, Tick, Over, vars
<1> QED
  BY <1>1, PayInvoiceInvariant, PTL DEF Spec, ClearedTimerIsSilent
==============================================================================
