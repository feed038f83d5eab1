------------------------ MODULE Reconciliation_proofs -------------------------
(***************************************************************************)
(* Proofs about the loop that reconciles rows with LND at start-up, for    *)
(* any finite set of rows, any amounts and any number of restarts: its     *)
(* types, the invariant LoopInvariant and what follows from it, and the    *)
(* bookkeeping of balances against rows.                                   *)
(***************************************************************************)
EXTENDS Reconciliation, Amounts_proofs

USE ReconciliationAssumption

-----------------------------------------------------------------------------
(* Rows, amounts and sums.                                                 *)

\* What a row does to its wallet is a number of sats.
LEMMA EffectTyped == Effect \in [Txs -> Int]
<1> SUFFICES ASSUME NEW t \in Txs
             PROVE  (IF t \in Deposits THEN Amount[t] ELSE -Total(Amount[t])) \in Int
  BY DEF Effect
<1>1. Amount[t] \in Int /\ Amount[t] >= 0
  BY AmountsAssumption DEF Sats
<1>2. Total(Amount[t]) \in Int
  BY <1>1, TotalCovers
<1> QED BY <1>1, <1>2

\* The rows of a wallet that its balance contains.
Counted(w) == {t \in impacted \cup stranded : WalletOf[t] = w}
Worth(w) == SumFunctionOnSet(Effect, Counted(w))

\* They are finitely many, and so is what they are worth.
LEMMA WorthTyped ==
    ASSUME NEW S \in SUBSET Txs
    PROVE  IsFiniteSet(S) /\ SumFunctionOnSet(Effect, S) \in Int
<1>1. IsFiniteSet(S)
  BY FS_Subset
<1>2. \A t \in S : Effect[t] \in Int
  BY EffectTyped
<1>3. S \in SUBSET S
  OBVIOUS
<1> QED BY <1>1, <1>2, <1>3, SumInt

\* One row more, one row less.
LEMMA WorthAdds ==
    ASSUME NEW S \in SUBSET Txs, NEW t \in Txs \ S
    PROVE  SumFunctionOnSet(Effect, S \cup {t}) = Effect[t] + SumFunctionOnSet(Effect, S)
<1>1. \A x \in S \cup {t} : Effect[x] \in Int
  BY EffectTyped
<1>2. IsFiniteSet(S) /\ t \notin S
  BY WorthTyped
<1> QED BY <1>1, <1>2, SumAdd

-----------------------------------------------------------------------------
(* The invariant.                                                          *)

LEMMA InitSound == Init => LoopInvariant
<1> SUFFICES ASSUME Init PROVE LoopInvariant
  OBVIOUS
<1>1. TypeOK
  BY DEF Init, TypeOK, Sats
<1>2. Pending = {} /\ ~Processing
  BY DEF Init, Pending, Processing
<1>3. ScanIsCurrent /\ OthersAgree
  BY <1>2 DEF Init, ScanIsCurrent, OthersAgree
<1>4. StrandedIsOver /\ CurrentIsTaken /\ RetryRemains /\ AnswerHolds /\ NothingLeft
  BY <1>2 DEF Init, StrandedIsOver, CurrentIsTaken, RetryRemains, AnswerHolds, NothingLeft
<1> QED BY <1>1, <1>3, <1>4 DEF LoopInvariant

\* Every operation keeps the types; a retry needs one that remains.
LEMMA StepTyped ==
    ASSUME LoopInvariant, [Next]_vars
    PROVE  TypeOK'
<1> USE DEF LoopInvariant, TypeOK, rowVars, loopVars, boundVars
<1>1. CASE Scan
  BY <1>1 DEF Scan, Inconsistent
<1>2. CASE TakeRow
  BY <1>2 DEF TakeRow, MarkFailed
<1>3. CASE Finish
  BY <1>3 DEF Finish
<1>4. CASE InvoiceAnswered
  BY <1>4 DEF InvoiceAnswered
<1>5. CASE CheckFails
  BY <1>5 DEF CheckFails
<1>6. CASE CheckAgain
  BY <1>6 DEF CheckAgain, RetryRemains, FewerRetries
<1>7. CASE ReadWallet
  <2>1. WalletOf[current] \in Wallets
    BY <1>7 DEF ReadWallet, CurrentIsTaken, Processing
  <2> QED BY <1>7, <2>1 DEF ReadWallet
<1>8. CASE Write
  <2>1. current \in Txs /\ WalletOf[current] \in Wallets /\ Effect[current] \in Int
    BY <1>8, EffectTyped DEF Write, CurrentIsTaken, Processing
  <2>2. /\ balance' \in [Wallets -> Int]
        /\ impacted' \subseteq Txs /\ settled' \subseteq Txs
    BY <1>8, <2>1 DEF Write, FollowLnd, FlagsFollowed, AddToWallet, Reverted
  <2> QED BY <1>8, <2>2 DEF Write
<1>9. CASE WriteFails
  BY <1>9 DEF WriteFails
<1>10. CASE CatchError
  BY <1>10 DEF CatchError, MarkFailed, CurrentIsTaken, Processing
<1>11. CASE Abort
  BY <1>11 DEF Abort
<1>12. CASE Restart
  BY <1>12 DEF Restart
<1>13. ASSUME NEW w \in Wallets, OtherProcess(w) PROVE TypeOK'
  BY <1>13 DEF OtherProcess, Sats
<1>14. ASSUME NEW t \in Txs, InvoicePaid(t) PROVE TypeOK'
  BY <1>14 DEF InvoicePaid
<1>15. CASE UNCHANGED vars
  BY <1>15 DEF vars
<1> QED BY <1>1, <1>2, <1>3, <1>4, <1>5, <1>6, <1>7, <1>8, <1>9, <1>10, <1>11, <1>12,
           <1>13, <1>14, <1>15 DEF Next, Loop, Started

\* A step that leaves the rows, what was scanned and the row in hand alone keeps what
\* the scan found; the row in hand is finished only if its flags agree.
LEMMA ScanKept ==
    ASSUME LoopInvariant, UNCHANGED <<dryRun, rowVars, todo, seen, current, stranded>>,
           Processing' <=> Processing, pc \in {"scan", "aborted"} => pc' = pc
    PROVE  ScanIsCurrent' /\ OthersAgree' /\ StrandedIsOver'
<1>1. Pending' = Pending /\ Inconsistent' = Inconsistent
  BY DEF Pending, Processing, Inconsistent, rowVars
<1>2. ScanIsCurrent' /\ StrandedIsOver'
  BY <1>1 DEF LoopInvariant, ScanIsCurrent, StrandedIsOver, rowVars
<1>3. OthersAgree'
  BY <1>1 DEF LoopInvariant, OthersAgree
<1> QED BY <1>2, <1>3

\* Finishing row t: without dryRun its flags agree afterwards, and if it was given up
\* they are clear.  It was pending, so it had not been given up before.
LEMMA RowFinished ==
    ASSUME LoopInvariant, NEW t \in Pending, Pending' = Pending \ {t},
           pc \notin {"scan", "aborted"}, UNCHANGED <<dryRun, seen>>,
           \/ dryRun /\ UNCHANGED <<impacted, settled, stranded>>
           \/ /\ impacted' \ {t} = impacted \ {t} /\ settled' \ {t} = settled \ {t}
              /\ t \in impacted' <=> t \in settled'
              /\ \/ stranded' = stranded
                 \/ stranded' = stranded \cup {t} /\ t \notin impacted'
    PROVE  ScanIsCurrent' /\ OthersAgree' /\ StrandedIsOver'
<1>1. /\ \A u \in Pending : u \in (impacted \ settled) \cup (settled \ impacted)
      /\ \A u \in Pending : u \in seen <=> u \in impacted
      /\ \A u \in stranded : u \notin impacted /\ u \notin settled
  BY DEF LoopInvariant, ScanIsCurrent, StrandedIsOver, Inconsistent
<1>2. t \notin stranded
  BY <1>1
<1>3. ~dryRun => Inconsistent \subseteq Pending
  BY DEF LoopInvariant, OthersAgree
<1>4. /\ \A u : u # t => (u \in impacted' <=> u \in impacted)
      /\ \A u : u # t => (u \in settled' <=> u \in settled)
  OBVIOUS
<1>5. ScanIsCurrent'
  BY <1>1, <1>4 DEF ScanIsCurrent, Inconsistent
<1>6. OthersAgree'
  BY <1>3, <1>4 DEF OthersAgree, Inconsistent
<1>7. StrandedIsOver'
  BY <1>1, <1>2, <1>4 DEF StrandedIsOver
<1> QED BY <1>5, <1>6, <1>7

\* What a branch writes of the row in hand: both flags set or both clear.
LEMMA FlagsAgree ==
    ASSUME FollowLnd
    PROVE  /\ impacted' \ {current} = impacted \ {current}
           /\ settled' \ {current} = settled \ {current}
           /\ current \in impacted' <=> current \in settled'
BY DEF FollowLnd, FlagsFollowed

LEMMA StepScan ==
    ASSUME LoopInvariant, [Next]_vars
    PROVE  ScanIsCurrent' /\ OthersAgree' /\ StrandedIsOver'
<1> USE DEF Processing, rowVars, loopVars, boundVars
<1> DEFINE Kept == ScanIsCurrent' /\ OthersAgree' /\ StrandedIsOver'
<1>1. CASE Scan
  <2>1. Pending' = Inconsistent /\ Inconsistent' = Inconsistent
    BY <1>1 DEF Scan, Pending, Inconsistent
  <2>2. ScanIsCurrent' /\ OthersAgree'
    BY <1>1, <2>1 DEF Scan, ScanIsCurrent, OthersAgree
  <2>3. StrandedIsOver'
    BY <1>1 DEF Scan, LoopInvariant, StrandedIsOver
  <2> QED BY <2>2, <2>3
<1>2. CASE TakeRow
  <2>1. PICK t \in todo :
          /\ todo' = todo \ {t}
          /\ IF t \in Invalid
               THEN MarkFailed(t) /\ UNCHANGED <<pc, current, left>>
               ELSE /\ pc' = "check" /\ current' = t /\ left' = Retries
                    /\ UNCHANGED <<rowVars, stranded>>
    BY <1>2 DEF TakeRow
  <2>2. pc = "next" /\ t \in Pending /\ Pending = todo /\ UNCHANGED <<dryRun, seen>>
    BY <1>2 DEF TakeRow, Pending
  <2>3. CASE t \in Invalid
    <3>1. Pending' = Pending \ {t}
      BY <2>1, <2>2, <2>3 DEF Pending
    <3>2. \/ dryRun /\ UNCHANGED <<impacted, settled, stranded>>
          \/ /\ impacted' \ {t} = impacted \ {t} /\ settled' \ {t} = settled \ {t}
             /\ t \in impacted' <=> t \in settled'
             /\ \/ stranded' = stranded
                \/ stranded' = stranded \cup {t} /\ t \notin impacted'
      BY <2>1, <2>3 DEF MarkFailed
    <3> QED BY <2>2, <3>1, <3>2, RowFinished
  <2>4. CASE t \notin Invalid
    <3>1. Pending' = Pending /\ Inconsistent' = Inconsistent
      BY <2>1, <2>2, <2>4 DEF Pending, Inconsistent
    <3>2. ScanIsCurrent' /\ StrandedIsOver'
      BY <2>1, <2>2, <2>4, <3>1 DEF LoopInvariant, ScanIsCurrent, StrandedIsOver
    <3>3. OthersAgree'
      BY <2>2, <3>1 DEF LoopInvariant, OthersAgree
    <3> QED BY <3>2, <3>3
  <2> QED BY <2>3, <2>4
<1>3. CASE Finish
  BY <1>3, ScanKept DEF Finish
<1>4. CASE InvoiceAnswered
  BY <1>4, ScanKept DEF InvoiceAnswered
<1>5. CASE CheckFails
  BY <1>5, ScanKept DEF CheckFails
<1>6. CASE CheckAgain
  BY <1>6, ScanKept DEF CheckAgain
<1>7. CASE ReadWallet
  BY <1>7, ScanKept DEF ReadWallet
<1>8. CASE Write
  <2>1. current \in Pending /\ Pending' = Pending \ {current}
    BY <1>8 DEF Write, Pending, LoopInvariant, CurrentIsTaken
  <2>2. pc \notin {"scan", "aborted"} /\ UNCHANGED <<dryRun, seen, stranded>>
    BY <1>8 DEF Write
  <2>3. CASE dryRun
    BY <1>8, <2>1, <2>2, <2>3, RowFinished DEF Write, Writes, Unless
  <2>4. CASE ~dryRun
    BY <1>8, <2>1, <2>2, <2>4, FlagsAgree, RowFinished DEF Write, Writes, Unless
  <2> QED BY <2>3, <2>4
<1>9. CASE WriteFails
  BY <1>9, ScanKept DEF WriteFails
<1>10. CASE CatchError
  <2>1. current \in Pending /\ Pending' = Pending \ {current}
    BY <1>10 DEF CatchError, Pending, LoopInvariant, CurrentIsTaken
  <2>2. pc \notin {"scan", "aborted"} /\ UNCHANGED <<dryRun, seen>>
    BY <1>10 DEF CatchError
  <2>3. \/ dryRun /\ UNCHANGED <<impacted, settled, stranded>>
        \/ /\ impacted' \ {current} = impacted \ {current}
           /\ settled' \ {current} = settled \ {current}
           /\ current \in impacted' <=> current \in settled'
           /\ \/ stranded' = stranded
              \/ stranded' = stranded \cup {current} /\ current \notin impacted'
    BY <1>10 DEF CatchError, MarkFailed
  <2> QED BY <2>1, <2>2, <2>3, RowFinished
<1>11. CASE Abort
  <2>1. Pending' \subseteq Pending /\ Inconsistent' = Inconsistent /\ pc' = "aborted"
    BY <1>11 DEF Abort, Pending, Inconsistent
  <2>2. ScanIsCurrent' /\ StrandedIsOver'
    BY <1>11, <2>1 DEF Abort, LoopInvariant, ScanIsCurrent, StrandedIsOver
  <2>3. OthersAgree'
    BY <2>1 DEF OthersAgree
  <2> QED BY <2>2, <2>3
<1>12. CASE Restart
  <2>1. Pending' = {} /\ pc' = "scan" /\ UNCHANGED <<impacted, settled, stranded>>
    BY <1>12 DEF Restart, Pending
  <2> QED BY <2>1 DEF LoopInvariant, ScanIsCurrent, OthersAgree, StrandedIsOver
<1>13. ASSUME NEW w \in Wallets, OtherProcess(w) PROVE Kept
  BY <1>13, ScanKept DEF OtherProcess
<1>14. ASSUME NEW t \in Txs, InvoicePaid(t) PROVE Kept
  BY <1>14, ScanKept DEF InvoicePaid
<1>15. CASE UNCHANGED vars
  BY <1>15, ScanKept DEF vars
<1> QED BY <1>1, <1>2, <1>3, <1>4, <1>5, <1>6, <1>7, <1>8, <1>9, <1>10, <1>11, <1>12,
           <1>13, <1>14, <1>15 DEF Next, Loop, Started

\* The row in hand is out of todo; what was read of it holds until it is finished.
LEMMA StepRow ==
    ASSUME LoopInvariant, [Next]_vars
    PROVE  CurrentIsTaken' /\ RetryRemains' /\ AnswerHolds' /\ NothingLeft'
<1> USE DEF LoopInvariant, CurrentIsTaken, RetryRemains, AnswerHolds, NothingLeft,
            Processing, rowVars, loopVars, boundVars
<1> DEFINE Kept == CurrentIsTaken' /\ RetryRemains' /\ AnswerHolds' /\ NothingLeft'
<1>1. CASE Scan
  BY <1>1 DEF Scan
<1>2. CASE TakeRow
  BY <1>2 DEF TakeRow, TypeOK
<1>3. CASE Finish
  BY <1>3 DEF Finish
<1>4. CASE InvoiceAnswered
  BY <1>4 DEF InvoiceAnswered, IsConfirmed
<1>5. CASE CheckFails
  BY <1>5 DEF CheckFails, CanRetry
<1>6. CASE CheckAgain
  BY <1>6 DEF CheckAgain
<1>7. CASE ReadWallet
  BY <1>7 DEF ReadWallet
<1>8. CASE Write
  BY <1>8 DEF Write
<1>9. CASE WriteFails
  BY <1>9 DEF WriteFails
<1>10. CASE CatchError
  BY <1>10 DEF CatchError
<1>11. CASE Abort
  BY <1>11 DEF Abort
<1>12. CASE Restart
  BY <1>12 DEF Restart
<1>13. ASSUME NEW w \in Wallets, OtherProcess(w) PROVE Kept
  BY <1>13 DEF OtherProcess
<1>14. ASSUME NEW t \in Txs, InvoicePaid(t) PROVE Kept
  BY <1>14 DEF InvoicePaid
<1>15. CASE UNCHANGED vars
  BY <1>15 DEF vars
<1> QED BY <1>1, <1>2, <1>3, <1>4, <1>5, <1>6, <1>7, <1>8, <1>9, <1>10, <1>11, <1>12,
           <1>13, <1>14, <1>15 DEF Next, Loop, Started

\* The flags scanned stay those of the database until their row is finished, whatever
\* the other process, the payers and deaths of this process do.
THEOREM LoopIsSound == Spec => []LoopInvariant
<1>1. LoopInvariant /\ [Next]_vars => LoopInvariant'
  BY StepTyped, StepScan, StepRow DEF LoopInvariant
<1> QED BY <1>1, InitSound, PTL DEF Spec

\* Every variable keeps its type: retries do not run below zero, and only invoices of
\* our node are reported as confirmed.
THEOREM LoopTypeCorrect == Spec => []TypeOK
<1>1. LoopInvariant => TypeOK
  BY DEF LoopInvariant
<1> QED BY <1>1, LoopIsSound, PTL

-----------------------------------------------------------------------------
(* What the loop promises.                                                 *)

(***************************************************************************)
(* A loop that reaches its end leaves no row with differing flags, however *)
(* many rows there are, whichever checks and writes failed                 *)
(* (wallet.service.ts:20-281).                                             *)
(***************************************************************************)
THEOREM LoopReconciles == Spec => []Reconciled
<1>1. LoopInvariant => Reconciled
  <2> SUFFICES ASSUME LoopInvariant, pc = "done", ~dryRun PROVE impacted = settled
    BY DEF Reconciled
  <2>1. Pending = {}
    BY DEF LoopInvariant, NothingLeft, Pending, Processing
  <2>2. Inconsistent = {}
    BY <2>1 DEF LoopInvariant, OthersAgree
  <2> QED BY <2>2 DEF Inconsistent
<1> QED BY <1>1, LoopIsSound, PTL

(***************************************************************************)
(* A row ends as impacted and settled only if LND confirmed its invoice,   *)
(* however often checks fail and the loop starts over                      *)
(* (wallet.service.ts:82-98, 128-154, 168-178, 210-253).                   *)
(***************************************************************************)
THEOREM SettlingIsConfirmed == Spec => SettledWasConfirmed
<1> DEFINE Step == \A t \in Txs : t \in (impacted \cap settled)' \ (impacted \cap settled)
                                   => t \in confirmed
<1>1. ASSUME LoopInvariant, [Next]_vars
      PROVE  Step
  <2>1. CASE Write
    <3>1. CASE dryRun
      BY <2>1, <3>1 DEF Write, Writes, Unless, rowVars
    <3>2. CASE ~dryRun /\ answer = "confirmed"
      <4>1. current \in confirmed
        BY <1>1, <2>1, <3>2 DEF Write, LoopInvariant, AnswerHolds
      <4>2. FollowLnd
        BY <2>1, <3>2 DEF Write, Writes, Unless
      <4>3. \A t \in Txs : t # current => /\ t \in impacted' <=> t \in impacted
                                          /\ t \in settled' <=> t \in settled
        BY <4>2, FlagsAgree
      <4> QED BY <4>1, <4>3
    <3>3. CASE ~dryRun /\ answer # "confirmed"
      BY <2>1, <3>3 DEF Write, Writes, Unless, FollowLnd, FlagsFollowed
    <3> QED BY <3>1, <3>2, <3>3
  <2>2. CASE TakeRow \/ CatchError
    BY <2>2 DEF TakeRow, CatchError, MarkFailed, rowVars
  <2>3. CASE ~(Write \/ TakeRow \/ CatchError)
    <3>1. UNCHANGED rowVars
      BY <1>1, <2>3 DEF Next, Loop, Scan, Finish, InvoiceAnswered, CheckFails, CheckAgain,
        ReadWallet, WriteFails, Abort, Restart, OtherProcess, InvoicePaid, Started, vars
    <3> QED BY <3>1 DEF rowVars
  <2> QED BY <2>1, <2>2, <2>3
<1>2. LoopInvariant /\ [Next]_vars => [Step]_vars
  BY <1>1
<1> QED BY <1>2, LoopIsSound, PTL DEF Spec, SettledWasConfirmed

(***************************************************************************)
(* WALLET_RECONCILE_DRY_RUN: no path of the loop, the catch block          *)
(* included, writes a row or a wallet (wallet.service.ts:23-25, 69, 90,    *)
(* 108, 137, 156, 170, 189, 220, 233, 256, 269).                           *)
(***************************************************************************)
THEOREM DryRunIsHarmless == Spec => DryRunWritesNothing
<1> DEFINE Step ==
             dryRun => /\ UNCHANGED rowVars
                       /\ \A w \in Wallets : balance'[w] - moved'[w] = balance[w] - moved[w]
<1>1. ASSUME LoopInvariant, [Next]_vars, dryRun
      PROVE  /\ UNCHANGED rowVars
             /\ \A w \in Wallets : balance'[w] - moved'[w] = balance[w] - moved[w]
  <2>1. CASE \E w \in Wallets : OtherProcess(w)
    <3>1. PICK w \in Wallets : OtherProcess(w)
      BY <2>1
    <3>2. PICK sats \in {-Traffic, Traffic} :
            /\ balance' = [balance EXCEPT ![w] = @ + sats]
            /\ moved' = [moved EXCEPT ![w] = @ + sats]
      BY <3>1 DEF OtherProcess
    <3>3. /\ balance \in [Wallets -> Int] /\ moved \in [Wallets -> Int] /\ sats \in Int
      BY <1>1 DEF LoopInvariant, TypeOK
    <3>4. \A v \in Wallets : balance'[v] - moved'[v] = balance[v] - moved[v]
      BY <3>2, <3>3
    <3> QED BY <3>1, <3>4 DEF OtherProcess
  <2>2. CASE ~\E w \in Wallets : OtherProcess(w)
    <3>1. UNCHANGED <<rowVars, balance, moved>>
      BY <1>1, <2>2 DEF Next, Loop, Scan, TakeRow, Finish, InvoiceAnswered, CheckFails,
        CheckAgain, ReadWallet, Write, Writes, Unless, WriteFails, CatchError, MarkFailed,
        Abort, Restart, InvoicePaid, Started, vars, rowVars
    <3> QED BY <3>1
  <2> QED BY <2>1, <2>2
<1>2. LoopInvariant /\ [Next]_vars => [Step]_vars
  BY <1>1
<1> QED BY <1>2, LoopIsSound, PTL DEF Spec, DryRunWritesNothing

-----------------------------------------------------------------------------
(* Balances follow rows.                                                   *)

\* A wallet whose rows and whose balance, beyond what the other process moved, stay
\* the same keeps what is unexplained.
LEMMA SameRows ==
    ASSUME UNCHANGED <<balance, moved>>, impacted' \cup stranded' = impacted \cup stranded,
           NEW w \in Wallets
    PROVE  Unexplained(w)' = Unexplained(w)
<1>1. Counted(w)' = Counted(w)
  BY DEF Counted
<1> QED BY <1>1 DEF Unexplained, Counted

\* Giving a row up leaves its effect in the balance and among the rows counted.
LEMMA MarkingKeeps ==
    ASSUME NEW t \in Txs, MarkFailed(t), UNCHANGED <<balance, moved>>, NEW w \in Wallets
    PROVE  Unexplained(w)' = Unexplained(w)
<1>1. impacted' \cup stranded' = impacted \cup stranded
  BY DEF MarkFailed
<1> QED BY <1>1, SameRows

\* A branch writes the row in hand and its wallet together: the row enters the sum, or
\* leaves it, when its effect enters or leaves the balance.
LEMMA FollowingKeeps ==
    ASSUME LoopInvariant, Processing, FollowLnd, UNCHANGED <<moved, stranded>>,
           NEW w \in Wallets
    PROVE  Unexplained(w)' = Unexplained(w)
<1> DEFINE t == current
<1>1. /\ t \in Txs /\ WalletOf[t] \in Wallets /\ Effect[t] \in Int
      /\ balance \in [Wallets -> Int] /\ moved[w] \in Int
      /\ impacted \subseteq Txs /\ stranded \subseteq Txs
  BY EffectTyped DEF LoopInvariant, TypeOK, CurrentIsTaken
<1>2. t \notin stranded /\ (RowImpacted <=> t \in impacted)
  <2>1. t \in Pending
    BY DEF Pending
  <2>2. t \in impacted \cup settled /\ (t \in seen <=> t \in impacted)
    BY <2>1 DEF LoopInvariant, ScanIsCurrent, Inconsistent
  <2> QED BY <2>2 DEF LoopInvariant, StrandedIsOver, RowImpacted
<1>3. /\ Counted(w) \in SUBSET Txs /\ Worth(w) \in Int
      /\ Unexplained(w) = balance[w] - moved[w] - Worth(w)
  <2>1. Counted(w) \in SUBSET Txs
    BY <1>1 DEF Counted
  <2> QED BY <2>1, WorthTyped DEF Worth, Counted, Unexplained
<1>4. Unexplained(w)' = balance'[w] - moved[w] - SumFunctionOnSet(Effect, Counted(w)')
  BY DEF Unexplained, Counted
<1>5. CASE impacted' = impacted /\ balance' = balance
  BY <1>5, SameRows
<1>6. CASE /\ answer = "unconfirmed" /\ RowImpacted
           /\ FlagsFollowed(FALSE, FALSE) /\ AddToWallet(-Reverted)
  <2>1. impacted' = impacted \ {t} /\ t \in impacted
    BY <1>2, <1>6 DEF FlagsFollowed
  <2>2. CASE w = WalletOf[t]
    <3>1. Counted(w) = Counted(w)' \cup {t} /\ t \notin Counted(w)'
      BY <1>2, <2>1, <2>2 DEF Counted
    <3>2. Worth(w) = Effect[t] + SumFunctionOnSet(Effect, Counted(w)')
      BY <1>1, <1>3, <3>1, WorthAdds DEF Worth
    <3>3. balance'[w] = balance[w] + (-Effect[t])
      BY <1>1, <1>6, <2>2 DEF AddToWallet, Reverted
    <3>4. SumFunctionOnSet(Effect, Counted(w)') \in Int
      BY <1>3, <3>1, WorthTyped
    <3>5. balance[w] \in Int
      BY <1>1
    <3> QED BY <1>1, <1>3, <1>4, <3>2, <3>3, <3>4, <3>5
  <2>3. CASE w # WalletOf[t]
    <3>1. Counted(w)' = Counted(w)
      BY <2>1, <2>3 DEF Counted
    <3>2. balance'[w] = balance[w]
      BY <1>1, <1>6, <2>3 DEF AddToWallet
    <3> QED BY <1>3, <1>4, <3>1, <3>2 DEF Worth
  <2> QED BY <2>2, <2>3
<1>7. CASE /\ answer = "confirmed" /\ ~RowImpacted /\ RowPayable
           /\ FlagsFollowed(TRUE, TRUE) /\ AddToWallet(Effect[current])
  <2>1. impacted' = impacted \cup {t} /\ t \notin impacted
    BY <1>2, <1>7 DEF FlagsFollowed
  <2>2. CASE w = WalletOf[t]
    <3>1. Counted(w)' = Counted(w) \cup {t} /\ t \notin Counted(w)
      BY <1>2, <2>1, <2>2 DEF Counted
    <3>2. SumFunctionOnSet(Effect, Counted(w)') = Effect[t] + Worth(w)
      BY <1>1, <1>3, <3>1, WorthAdds DEF Worth
    <3>3. balance'[w] = balance[w] + Effect[t]
      BY <1>1, <1>7, <2>2 DEF AddToWallet
    <3>4. balance[w] \in Int
      BY <1>1
    <3> QED BY <1>1, <1>3, <1>4, <3>2, <3>3, <3>4
  <2>3. CASE w # WalletOf[t]
    <3>1. Counted(w)' = Counted(w)
      BY <2>1, <2>3 DEF Counted
    <3>2. balance'[w] = balance[w]
      BY <1>1, <1>7, <2>3 DEF AddToWallet
    <3> QED BY <1>3, <1>4, <3>1, <3>2 DEF Worth
  <2> QED BY <2>2, <2>3
<1>8. FollowLnd => \/ impacted' = impacted /\ balance' = balance
                   \/ /\ answer = "unconfirmed" /\ RowImpacted
                      /\ FlagsFollowed(FALSE, FALSE) /\ AddToWallet(-Reverted)
                   \/ /\ answer = "confirmed" /\ ~RowImpacted /\ RowPayable
                      /\ FlagsFollowed(TRUE, TRUE) /\ AddToWallet(Effect[current])
  <2>1. /\ t \in impacted => impacted \cup {t} = impacted
        /\ t \notin impacted => impacted \ {t} = impacted
    OBVIOUS
  <2>2. /\ FlagsFollowed(TRUE, TRUE) => impacted' = impacted \cup {t}
        /\ FlagsFollowed(FALSE, FALSE) => impacted' = impacted \ {t}
    BY DEF FlagsFollowed
  <2> QED BY <1>2, <2>1, <2>2 DEF FollowLnd
<1> QED BY <1>5, <1>6, <1>7, <1>8

(***************************************************************************)
(* Whatever the other process does, wherever this one dies and however     *)
(* often it starts over, no row is reverted or applied twice or halfway:   *)
(* the balance beyond the other process's operations is, as it was at the  *)
(* start, what the impacted rows and those given up are worth              *)
(* (wallet.service.ts:99-126, 128-154, 179-208, 210-253).                  *)
(***************************************************************************)
THEOREM BalancesFollowRows == Spec => BalanceFollowsRows
<1> DEFINE Step == \A w \in Wallets : Unexplained(w)' = Unexplained(w)
<1>1. ASSUME LoopInvariant, [Next]_vars, NEW w \in Wallets
      PROVE  Unexplained(w)' = Unexplained(w)
  <2>1. CASE Write
    <3>1. CASE dryRun
      BY <2>1, <3>1, SameRows DEF Write, Writes, Unless, rowVars
    <3>2. CASE ~dryRun
      BY <1>1, <2>1, <3>2, FollowingKeeps DEF Write, Writes, Unless, Processing
    <3> QED BY <3>1, <3>2
  <2>2. CASE TakeRow
    <3>1. PICK t \in todo : MarkFailed(t) \/ UNCHANGED <<rowVars, stranded>>
      BY <2>2 DEF TakeRow
    <3>2. t \in Txs /\ UNCHANGED <<balance, moved>>
      BY <1>1, <2>2 DEF TakeRow, LoopInvariant, TypeOK
    <3> QED BY <3>1, <3>2, MarkingKeeps, SameRows DEF rowVars
  <2>3. CASE CatchError
    <3>1. current \in Txs /\ MarkFailed(current) /\ UNCHANGED <<balance, moved>>
      BY <1>1, <2>3 DEF CatchError, LoopInvariant, CurrentIsTaken, Processing
    <3> QED BY <3>1, MarkingKeeps
  <2>4. ASSUME NEW v \in Wallets, OtherProcess(v)
        PROVE  Unexplained(w)' = Unexplained(w)
    <3>1. PICK sats \in {-Traffic, Traffic} :
            /\ balance' = [balance EXCEPT ![v] = @ + sats]
            /\ moved' = [moved EXCEPT ![v] = @ + sats]
      BY <2>4 DEF OtherProcess
    <3>2. Counted(w)' = Counted(w)
      BY <2>4 DEF OtherProcess, Counted, rowVars
    <3>3. balance \in [Wallets -> Int] /\ moved \in [Wallets -> Int] /\ sats \in Int
      BY <1>1 DEF LoopInvariant, TypeOK
    <3>4. balance'[w] - moved'[w] = balance[w] - moved[w]
      BY <3>1, <3>3
    <3> QED BY <3>2, <3>4 DEF Unexplained, Counted
  <2>5. CASE ~(Write \/ TakeRow \/ CatchError \/ \E v \in Wallets : OtherProcess(v))
    <3>1. UNCHANGED <<rowVars, stranded, balance, moved>>
      BY <1>1, <2>5 DEF Next, Loop, Scan, Finish, InvoiceAnswered, CheckFails, CheckAgain,
        ReadWallet, WriteFails, Abort, Restart, InvoicePaid, Started, vars
    <3> QED BY <3>1, SameRows DEF rowVars
  <2> QED BY <2>1, <2>2, <2>3, <2>4, <2>5
<1>2. LoopInvariant /\ [Next]_vars => [Step]_vars
  BY <1>1
<1> QED BY <1>2, LoopIsSound, PTL DEF Spec, BalanceFollowsRows

-----------------------------------------------------------------------------
(* Why the loop ends.                                                      *)

LEMMA RankTyped == TypeOK => Untaken \in Nat /\ Ahead \in Int
<1> SUFFICES ASSUME TypeOK PROVE Untaken \in Nat /\ Ahead \in Int
  OBVIOUS
<1>1. IsFiniteSet(Txs) /\ IsFiniteSet(todo)
  BY FS_Subset DEF TypeOK
<1>2. Untaken \in Nat
  BY <1>1, FS_CardinalityType DEF Untaken
<1>3. left \in Nat
  BY DEF TypeOK
<1> QED BY <1>2, <1>3 DEF Ahead

\* The scan finds at most all rows, and a row that is taken leaves fewer.
LEMMA ScanAdvances == LoopInvariant /\ Scan => Nearer
<1> SUFFICES ASSUME LoopInvariant, Scan PROVE Nearer
  OBVIOUS
<1>1. todo' \in SUBSET Txs /\ Untaken = Cardinality(Txs) /\ Untaken' = Cardinality(todo')
  BY DEF Scan, LoopInvariant, TypeOK, Inconsistent, Untaken
<1>2. Untaken' <= Untaken /\ Untaken \in Int /\ Untaken' \in Int
  BY <1>1, FS_Subset, FS_CardinalityType
<1>3. Ahead = 2 /\ Ahead' = 1
  BY DEF Scan, Ahead
<1> QED BY <1>2, <1>3 DEF Nearer

LEMMA TakeRowAdvances == LoopInvariant /\ TakeRow => Nearer
<1> SUFFICES ASSUME LoopInvariant, TakeRow PROVE Nearer
  OBVIOUS
<1>1. PICK t \in todo : todo' = todo \ {t}
  BY DEF TakeRow
<1>2. pc = "next" /\ pc' \in {"next", "check"}
  BY DEF TakeRow
<1>3. IsFiniteSet(todo)
  BY FS_Subset DEF LoopInvariant, TypeOK
<1>4. Cardinality(todo') = Cardinality(todo) - 1 /\ Cardinality(todo) \in Nat
  BY <1>1, <1>3, FS_RemoveElement, FS_CardinalityType
<1>5. Untaken = Cardinality(todo) /\ Untaken' = Cardinality(todo')
  BY <1>2 DEF Untaken
<1> QED BY <1>4, <1>5 DEF Nearer

\* With a row in hand, the rows not taken stay as they are and the rest shrinks.
LEMMA RowAdvances ==
    LoopInvariant /\ (InvoiceAnswered \/ CheckFails \/ CheckAgain \/ ReadWallet \/ Write
                       \/ WriteFails \/ CatchError \/ Finish \/ (Abort /\ pc # "scan"))
        => Nearer
<1> SUFFICES ASSUME LoopInvariant,
                    InvoiceAnswered \/ CheckFails \/ CheckAgain \/ ReadWallet \/ Write
                       \/ WriteFails \/ CatchError \/ Finish \/ (Abort /\ pc # "scan")
             PROVE  Nearer
  OBVIOUS
<1>1. left \in Nat /\ (pc = "delay" => left > 0)
  BY DEF LoopInvariant, TypeOK, RetryRemains
<1>2. Untaken' = Untaken
  BY DEF InvoiceAnswered, CheckFails, CheckAgain, ReadWallet, Write, WriteFails, CatchError,
    Finish, Abort, loopVars, Untaken
<1>3. Ahead' < Ahead
  <2>1. CASE InvoiceAnswered
    BY <1>1, <2>1 DEF InvoiceAnswered, Ahead
  <2>2. CASE CheckFails
    BY <1>1, <2>2 DEF CheckFails, CanRetry, loopVars, Ahead
  <2>3. CASE CheckAgain
    BY <1>1, <2>3 DEF CheckAgain, FewerRetries, Ahead
  <2>4. CASE ReadWallet
    BY <2>4 DEF ReadWallet, Ahead
  <2>5. CASE Write
    BY <2>5 DEF Write, Ahead
  <2>6. CASE WriteFails
    BY <2>6 DEF WriteFails, Ahead
  <2>7. CASE CatchError
    BY <2>7 DEF CatchError, Ahead
  <2>8. CASE Finish
    BY <2>8 DEF Finish, Ahead
  <2>9. CASE Abort /\ pc # "scan"
    BY <2>9 DEF Abort, Ahead
  <2> QED BY <2>1, <2>2, <2>3, <2>4, <2>5, <2>6, <2>7, <2>8, <2>9
<1> QED BY <1>2, <1>3 DEF Nearer

\* A scan that throws ends the loop without having looked at a row.
LEMMA AbortedScanAdvances == LoopInvariant /\ Abort /\ pc = "scan" => Nearer
<1> SUFFICES ASSUME LoopInvariant, Abort, pc = "scan" PROVE Nearer
  OBVIOUS
<1>1. todo \in SUBSET Txs /\ Untaken = Cardinality(Txs) /\ Untaken' = Cardinality(todo)
  BY DEF Abort, loopVars, LoopInvariant, TypeOK, Untaken
<1>2. Untaken' <= Untaken /\ Untaken \in Int /\ Untaken' \in Int
  BY <1>1, FS_Subset, FS_CardinalityType
<1>3. Ahead = 2 /\ Ahead' = 0
  BY DEF Abort, Ahead
<1> QED BY <1>2, <1>3 DEF Nearer

\* Each step of the loop lowers the rank and only a restart raises it, so the loop takes
\* finitely many steps however many checks and writes fail: the part of LoopEnds that
\* does not speak of fairness.
THEOREM LoopIsBounded == Spec => LoopAdvances
<1> DEFINE Step ==
      /\ Loop => Nearer
      /\ restarts' = restarts => Nearer \/ UNCHANGED <<Untaken, Ahead>>
<1>1. ASSUME LoopInvariant, [Next]_vars PROVE Step
  <2>1. Loop => Nearer
    BY <1>1, ScanAdvances, TakeRowAdvances, RowAdvances, AbortedScanAdvances DEF Loop
  <2>2. Restart => restarts' # restarts
    BY <1>1 DEF Restart, LoopInvariant, TypeOK
  <2>3. ASSUME ~Loop, ~Restart PROVE UNCHANGED <<Untaken, Ahead>>
    <3>1. UNCHANGED <<pc, todo, left>>
      BY <1>1, <2>3 DEF Next, OtherProcess, InvoicePaid, Started, loopVars, vars
    <3> QED BY <3>1 DEF Untaken, Ahead
  <2> QED BY <2>1, <2>2, <2>3
<1>2. LoopInvariant /\ [Next]_vars => [Step]_vars
  BY <1>1
<1> QED BY <1>2, LoopIsSound, PTL DEF Spec, LoopAdvances
==============================================================================
