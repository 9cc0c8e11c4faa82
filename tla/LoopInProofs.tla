---------------------------- MODULE LoopInProofs ----------------------------
(***************************************************************************)
(* Proofs about LoopIn, for every expiry, publish delta, height and number *)
(* of failures.  Inv is the inductive strengthening of the safety          *)
(* properties: what the goroutine believes about the invoice is true, it   *)
(* only reaches a refund when it believes the invoice dead, and what is    *)
(* stored never runs ahead of what happened.                               *)
(***************************************************************************)
EXTENDS LoopIn, TLAPS

\* The flags and the states only claim what is true of the invoice.
Beliefs ==
    /\ invoiceCanceled => invoice \in Dead
    /\ invoiceSettled => invoice = "Settled"
    /\ state \in {"InvoiceSettled", "Success"} => invoice = "Settled"
    /\ dbState \in {"InvoiceSettled", "Success"} => invoice = "Settled"

\* A refund is only under way once the invoice is known to be dead.
Refunds ==
    /\ pc \in {"startRefund", "blockRefund"} => invoiceCanceled
    /\ RefundOnlyUnpaid
    /\ htlc = "refunded" => timeoutTx

\* Until HtlcPublished is stored nothing has been sent, and the goroutine is
\* about to send only what was not sent before.
Sends ==
    /\ SingleHtlc
    /\ dbState = "Initiated" => sends = 0
    /\ dbState = "Initiated" /\ ~ external => htlc = "none"
    /\ pc = "execute" => state = dbState
    /\ pc = "sendOutputs" => sends = 0 /\ state = "HtlcPublished"
    /\ pc = "sendOutputs" => htlc = "none" /\ ~ external
    /\ pc \in {"sendOutputs", "recordTx"} => dbState = "HtlcPublished"
    /\ pc = "recordTx" => state = "HtlcPublished"

\* What the goroutine is about to store as the outcome.
Outcomes ==
    /\ OutcomeMatchesChain
    /\ dbState = "FailTimeout" /\ htlc = "none" => ~ external
    /\ Executing /\ state = "FailTimeout" => htlc = "refunded"
    /\ state = "FailIncorrectHtlcAmtSwept" => htlc = "refunded" /\ ~ valueOK
    /\ state = "FailIncorrectHtlcAmt" => ~ valueOK
    /\ dbState = "FailIncorrectHtlcAmt" => ~ valueOK

Waiting == pc \in {"startTimeout", "startRefund", "wait", "blockTimeout",
                   "blockRefund", "pushKey"}

\* How the state in memory relates to the stored one.
Stores ==
    /\ state = "FailTemporary" => pc \in {"stopped", "down"}
    /\ dbState # "FailTemporary"
    /\ Executing /\ pc # "cancelAbandoned" => IsPending(dbState)
    /\ Waiting /\ state = "HtlcPublished" => dbState = "HtlcPublished" /\ valueOK
    /\ Waiting => state # "Initiated" /\ dbState # "Initiated"
    /\ pc = "waitConf" => state = dbState /\ state # "Initiated"
    /\ dbState = "InvoiceSettled" => valueOK
    /\ Waiting /\ htlcSpend => IsFinal(state)
    /\ Waiting /\ IsFinal(state)
         => state \in {"Success", "FailTimeout", "FailIncorrectHtlcAmtSwept"}

\* The fee of the timeout transaction is added when its confirmation is seen, which
\* makes the state final, so that no pending state is stored with it.
Costing ==
    /\ RefundFeeCountedOnce
    /\ Executing => cost.sweepFees <= 1
    /\ pc \in {"execute", "sendOutputs", "recordTx", "waitConf"} => cost.sweepFees = 0
    /\ Waiting /\ ~ htlcSpend => cost.sweepFees = 0
    /\ Executing /\ cost.sweepFees = 1 => htlc = "refunded"

Inv == TypeOK /\ Beliefs /\ Refunds /\ ClaimedOnlyPaid /\ Sends /\ Outcomes /\ Stores

-----------------------------------------------------------------------------
\* Where publishTxOnTimeout goes from its entry points.
LEMMA ReturnRefund ==
    /\ \A p \in {"startTimeout", "startRefund", "blockTimeout", "blockRefund"} :
         Return[p] \in {"wait", "pushKey"}
    /\ \A p \in {"startTimeout", "blockTimeout"} :
         Refund[p] \in {"startRefund", "blockRefund"}
BY DEF Return, Refund

\* Every step keeps the types.
LEMMA TypeStep == TypeOK /\ [Next]_vars => TypeOK'
<1>. SUFFICES ASSUME TypeOK, [Next]_vars PROVE TypeOK'
  OBVIOUS
<1>. USE MaxHeightAssumption, MaxFaultsAssumption
<1>. USE DEF TypeOK, Pcs, HtlcStates, InvoiceStates, SwapState, PendingStates,
            FinalStates
<1>1. CASE ExecuteExternal
  BY <1>1 DEF ExecuteExternal, SetAndPersist, loopVars, flags, contractVars,
     chainVars, outside, ctl
<1>2. CASE PublishOnChainHtlc
  BY <1>2 DEF PublishOnChainHtlc, SetAndPersist, loopVars, flags,
     contractVars, chainVars, outside, ctl
<1>3. CASE ExecuteResumed
  BY <1>3 DEF ExecuteResumed, swapVars, loopVars, flags, dbVars, contractVars,
     chainVars, outside, ctl
<1>4. CASE SendOutputs
  <2>1. cost' \in Costs
    BY <1>4 DEF SendOutputs, Costs
  <2>. QED
    BY <1>4, <2>1 DEF SendOutputs, loopVars, flags, dbVars, contractVars, ctl
<1>5. CASE RecordHtlcTx
  BY <1>5 DEF RecordHtlcTx, swapVars, loopVars, flags, contractVars,
     chainVars, outside, ctl
<1>6. CASE ConfBlock
  BY <1>6 DEF ConfBlock, NextEpoch, loopVars, flags, dbVars, contractVars,
     chainVars, outside, ctl
<1>7. CASE HtlcConfirmed
  <2>1. /\ invoiceSettled' \in BOOLEAN
         /\ htlcSpend' \in BOOLEAN
         /\ invoiceFinalized' \in BOOLEAN
         /\ htlcKeyRevealed' \in BOOLEAN
    BY <1>7, Zenon DEF HtlcConfirmed
  <2>. QED
    BY <1>7, <2>1 DEF HtlcConfirmed, Fault, dbVars, contractVars, chainVars,
       outside
<1>8. CASE PublishTxOnTimeoutSkips
  <2>1. sweepFee' \in BOOLEAN
    BY <1>8, Zenon DEF PublishTxOnTimeoutSkips
  <2>. QED
    BY <1>8, <2>1, ReturnRefund DEF PublishTxOnTimeoutSkips, NoRefundDue,
       swapVars, flags, dbVars, contractVars, chainVars, outside, ctl
<1>9. CASE AuthorizeRefund
  BY <1>9, ReturnRefund DEF AuthorizeRefund, Canceled, NoRefundDue,
     RefundGranted, loopVars, dbVars, contractVars, chainVars, ctl
<1>10. CASE RefundFindsSettled
  <2>1. /\ sweepFee' \in BOOLEAN
         /\ invoiceSettled' \in BOOLEAN
    BY <1>10, Zenon DEF RefundFindsSettled
  <2>2. cost' \in Costs
    BY <1>10 DEF RefundFindsSettled, Costs
  <2>3. /\ state' \in SwapState /\ dbState' \in SwapState
         /\ dbCost' \in Costs
    BY <1>10, <2>2 DEF RefundFindsSettled, SetAndPersist, dbVars
  <2>. QED
    BY <1>10, <2>1, <2>2, <2>3, ReturnRefund DEF RefundFindsSettled,
       NoRefundDue, dbVars, contractVars, chainVars, outside, ctl
<1>11. CASE PublishTimeoutTx
  <2>1. /\ timeoutTx' \in BOOLEAN
         /\ sweepFee' \in BOOLEAN
    BY <1>11, Zenon DEF PublishTimeoutTx
  <2>. QED
    BY <1>11, <2>1, ReturnRefund DEF PublishTimeoutTx, Fault, swapVars, flags,
       dbVars, contractVars
<1>12. CASE PushKeyOnBlock
  <2>1. /\ serverHasKey' \in BOOLEAN
         /\ htlcKeyRevealed' \in BOOLEAN
    BY <1>12, Zenon DEF PushKeyOnBlock, TryPushHtlcKey, KeyDue
  <2>2. faults' = faults \/ faults' = faults + 1
    BY <1>12, Zenon DEF PushKeyOnBlock, TryPushHtlcKey, Fault
  <2>. QED
    BY <1>12, <2>1, <2>2 DEF PushKeyOnBlock, swapVars, flags, dbVars,
       contractVars, chainVars
<1>13. CASE Complete
  BY <1>13 DEF Complete, SetAndPersist, SpentAndFinalized, SettledAndExpired,
     loopVars, flags, contractVars, chainVars, outside, ctl
<1>14. CASE BlockEpoch
  BY <1>14 DEF BlockEpoch, NextEpoch, SpentAndFinalized, SettledAndExpired,
     Selecting, loopVars, flags, dbVars, contractVars, chainVars, outside, ctl
<1>15. CASE HtlcClaimed
  BY <1>15 DEF HtlcClaimed, SpentAndFinalized, SettledAndExpired, Selecting,
     flags, dbVars, contractVars, chainVars, outside, ctl
<1>16. CASE HtlcRefunded
  <2>1. /\ invoiceCanceled' \in BOOLEAN
         /\ htlcSpend' \in BOOLEAN
    BY <1>16, Zenon DEF HtlcRefunded
  <2>2. cost' \in Costs
    BY <1>16 DEF HtlcRefunded, Costs
  <2>. QED
    BY <1>16, <2>1, <2>2 DEF HtlcRefunded, Canceled, SpentAndFinalized,
       SettledAndExpired, Selecting, dbVars, contractVars, chainVars, ctl
<1>17. CASE InvoiceSettledUpdate
  <2>1. /\ invoiceFinalized' \in BOOLEAN
         /\ invoiceSettled' \in BOOLEAN
         /\ serverHasKey' \in BOOLEAN
         /\ htlcKeyRevealed' \in BOOLEAN
    BY <1>17, Zenon DEF InvoiceSettledUpdate, TryPushHtlcKey
  <2>2. cost' \in Costs
    BY <1>17 DEF InvoiceSettledUpdate, Costs
  <2>3. /\ state' \in SwapState /\ dbState' \in SwapState
         /\ dbCost' \in Costs
    BY <1>17, <2>2 DEF InvoiceSettledUpdate, SetAndPersist, dbVars
  <2>4. faults' = faults \/ faults' = faults + 1
    BY <1>17, Zenon DEF InvoiceSettledUpdate, TryPushHtlcKey, Fault
  <2>. QED
    BY <1>17, <2>1, <2>2, <2>3, <2>4 DEF InvoiceSettledUpdate,
       SpentAndFinalized, SettledAndExpired, Selecting, dbVars, contractVars,
       chainVars
<1>18. CASE InvoiceCanceledUpdate
  BY <1>18 DEF InvoiceCanceledUpdate, Canceled, SpentAndFinalized,
     SettledAndExpired, Selecting, dbVars, contractVars, chainVars, outside,
     ctl
<1>19. CASE SetStateAbandoned
  <2>1. abandon' \in BOOLEAN
    BY <1>19, Zenon DEF SetStateAbandoned
  <2>. QED
    BY <1>19, <2>1 DEF SetStateAbandoned, SetAndPersist, SpentAndFinalized,
       SettledAndExpired, Selecting, loopVars, flags, dbVars, contractVars,
       chainVars, outside
<1>20. CASE CancelAbandoned
  BY <1>20 DEF CancelAbandoned, Fault, Canceled, swapVars, loopVars, flags,
     dbVars, contractVars, chainVars
<1>21. CASE SendOutputsFails
  BY <1>21 DEF SendOutputsFails, Fault, loopVars, flags, dbVars, contractVars
<1>22. CASE RefundUnresolved
  <2>1. sweepFee' \in BOOLEAN
    BY <1>22, Zenon DEF RefundUnresolved
  <2>. QED
    BY <1>22, <2>1, ReturnRefund DEF RefundUnresolved, Fault, Canceled,
       NoRefundDue, swapVars, flags, dbVars, contractVars, chainVars
<1>23. CASE TemporaryFailure
  BY <1>23 DEF TemporaryFailure, Fault, loopVars, flags, dbVars, contractVars,
     chainVars, outside
<1>24. CASE Stop
  BY <1>24 DEF Stop, Fault, swapVars, loopVars, flags, dbVars, contractVars,
     chainVars, outside
<1>25. CASE NewBlock
  BY <1>25 DEF NewBlock, swapUnchanged, swapVars, loopVars, flags, dbVars,
     contractVars, ctl
<1>26. CASE UserPublishesHtlc
  BY <1>26 DEF UserPublishesHtlc, swapUnchanged, swapVars, loopVars, flags,
     dbVars, contractVars, ctl
<1>27. CASE HtlcConfirms
  BY <1>27 DEF HtlcConfirms, swapUnchanged, swapVars, loopVars, flags, dbVars,
     contractVars, ctl
<1>28. CASE ServerPays
  BY <1>28 DEF ServerPays, swapUnchanged, swapVars, loopVars, flags, dbVars,
     contractVars, chainVars, ctl
<1>29. CASE ServerClaims
  BY <1>29 DEF ServerClaims, swapUnchanged, swapVars, loopVars, flags, dbVars,
     contractVars, ctl
<1>30. CASE RefundConfirms
  BY <1>30 DEF RefundConfirms, swapUnchanged, swapVars, loopVars, flags,
     dbVars, contractVars, ctl
<1>31. CASE DeleteInvoice
  BY <1>31 DEF DeleteInvoice, Canceled, swapUnchanged, swapVars, loopVars,
     flags, dbVars, contractVars, chainVars, ctl
<1>32. CASE AbandonSwap
  BY <1>32 DEF AbandonSwap, swapVars, loopVars, flags, dbVars, contractVars,
     chainVars, outside
<1>33. CASE OperatorRestarts
  BY <1>33 DEF OperatorRestarts, swapVars, loopVars, flags, dbVars,
     contractVars, chainVars, outside, ctl
<1>34. CASE Resume
  <2>1. /\ invoiceSettled' \in BOOLEAN
         /\ invoiceCanceled' \in BOOLEAN
         /\ htlcSpend' \in BOOLEAN
         /\ invoiceFinalized' \in BOOLEAN
         /\ htlcKeyRevealed' \in BOOLEAN
         /\ sweepFee' \in BOOLEAN
         /\ abandon' \in BOOLEAN
    BY <1>34, Zenon DEF Resume
  <2>. QED
    BY <1>34, <2>1 DEF Resume, ResumeHeight, dbVars, contractVars, chainVars,
       outside
<1>35. CASE Finished
  BY <1>35 DEF Finished, vars, swapVars, loopVars, flags, dbVars,
     contractVars, chainVars
<1>36. CASE UNCHANGED vars
  BY <1>36 DEF vars, swapVars, loopVars, flags, dbVars, contractVars,
     chainVars
<1>. QED
  BY <1>1, <1>2, <1>3, <1>4, <1>5, <1>6, <1>7, <1>8, <1>9, <1>10, <1>11,
     <1>12, <1>13, <1>14, <1>15, <1>16, <1>17, <1>18, <1>19, <1>20, <1>21,
     <1>22, <1>23, <1>24, <1>25, <1>26, <1>27, <1>28, <1>29, <1>30, <1>31,
     <1>32, <1>33, <1>34, <1>35, <1>36, Zenon DEF Next, SwapStep,
     FailureStep, EnvStep

\* Every step keeps the other parts of the invariant.
LEMMA SafetyStep ==
    Inv /\ [Next]_vars
      => (Beliefs /\ Refunds /\ ClaimedOnlyPaid /\ Sends /\ Outcomes /\ Stores)'
<1>. SUFFICES ASSUME Inv, [Next]_vars
     PROVE (Beliefs /\ Refunds /\ ClaimedOnlyPaid /\ Sends /\ Outcomes /\ Stores)'
  OBVIOUS
<1>. USE CltvExpiryAssumption, PublishDeltaAssumption, MaxHeightAssumption,
        MaxFaultsAssumption
<1>. USE DEF Inv, TypeOK, Beliefs, Refunds, Sends, Outcomes, Stores,
            RefundOnlyUnpaid, ClaimedOnlyPaid, SingleHtlc, OutcomeMatchesChain,
            Waiting, Executing, Pcs, HtlcStates, InvoiceStates, Dead, IsPending,
            IsFinal, SwapState, PendingStates, FinalStates
<1>1. CASE ExecuteExternal
  BY <1>1 DEF ExecuteExternal, SetAndPersist, loopVars, flags, contractVars,
     chainVars, outside, ctl
<1>2. CASE PublishOnChainHtlc
  BY <1>2 DEF PublishOnChainHtlc, SetAndPersist, loopVars, flags,
     contractVars, chainVars, outside, ctl
<1>3. CASE ExecuteResumed
  BY <1>3 DEF ExecuteResumed, swapVars, loopVars, flags, dbVars, contractVars,
     chainVars, outside, ctl
<1>4. CASE SendOutputs
  <2>1. Beliefs'
    BY <1>4 DEF SendOutputs, loopVars, flags, dbVars, contractVars, ctl
  <2>2. Refunds'
    BY <1>4 DEF SendOutputs, loopVars, flags, dbVars, contractVars, ctl
  <2>3. ClaimedOnlyPaid'
    BY <1>4 DEF SendOutputs, loopVars, flags, dbVars, contractVars, ctl
  <2>4. Sends'
    BY <1>4 DEF SendOutputs, loopVars, flags, dbVars, contractVars, ctl
  <2>5. Outcomes'
    BY <1>4 DEF SendOutputs, loopVars, flags, dbVars, contractVars, ctl
  <2>6. Stores'
    BY <1>4 DEF SendOutputs, loopVars, flags, dbVars, contractVars, ctl
  <2>. QED
    BY <2>1, <2>2, <2>3, <2>4, <2>5, <2>6
<1>5. CASE RecordHtlcTx
  BY <1>5 DEF RecordHtlcTx, swapVars, loopVars, flags, contractVars,
     chainVars, outside, ctl
<1>6. CASE ConfBlock
  BY <1>6 DEF ConfBlock, NextEpoch, loopVars, flags, dbVars, contractVars,
     chainVars, outside, ctl
<1>7. CASE HtlcConfirmed
  <2>1. Beliefs'
    BY <1>7 DEF HtlcConfirmed, Fault, dbVars, contractVars, chainVars, outside
  <2>2. Refunds'
    BY <1>7 DEF HtlcConfirmed, Fault, dbVars, contractVars, chainVars, outside
  <2>3. ClaimedOnlyPaid'
    BY <1>7 DEF HtlcConfirmed, Fault, dbVars, contractVars, chainVars, outside
  <2>4. Sends'
    BY <1>7 DEF HtlcConfirmed, Fault, dbVars, contractVars, chainVars, outside
  <2>5. Outcomes'
    BY <1>7 DEF HtlcConfirmed, Fault, dbVars, contractVars, chainVars, outside
  <2>6. Stores'
    BY <1>7 DEF HtlcConfirmed, Fault, dbVars, contractVars, chainVars, outside
  <2>. QED
    BY <2>1, <2>2, <2>3, <2>4, <2>5, <2>6
<1>8. CASE PublishTxOnTimeoutSkips
  <2>1. Beliefs'
    BY <1>8, ReturnRefund DEF PublishTxOnTimeoutSkips, NoRefundDue, swapVars,
       flags, dbVars, contractVars, chainVars, outside, ctl
  <2>2. Refunds'
    BY <1>8, ReturnRefund DEF PublishTxOnTimeoutSkips, NoRefundDue, swapVars,
       flags, dbVars, contractVars, chainVars, outside, ctl
  <2>3. ClaimedOnlyPaid'
    BY <1>8, ReturnRefund DEF PublishTxOnTimeoutSkips, NoRefundDue, swapVars,
       flags, dbVars, contractVars, chainVars, outside, ctl
  <2>4. Sends'
    BY <1>8, ReturnRefund DEF PublishTxOnTimeoutSkips, NoRefundDue, swapVars,
       flags, dbVars, contractVars, chainVars, outside, ctl
  <2>5. Outcomes'
    BY <1>8, ReturnRefund DEF PublishTxOnTimeoutSkips, NoRefundDue, swapVars,
       flags, dbVars, contractVars, chainVars, outside, ctl
  <2>6. Stores'
    BY <1>8, ReturnRefund DEF PublishTxOnTimeoutSkips, NoRefundDue, swapVars,
       flags, dbVars, contractVars, chainVars, outside, ctl
  <2>. QED
    BY <2>1, <2>2, <2>3, <2>4, <2>5, <2>6
<1>9. CASE AuthorizeRefund
  BY <1>9, ReturnRefund DEF AuthorizeRefund, Canceled, NoRefundDue,
     RefundGranted, loopVars, dbVars, contractVars, chainVars, ctl
<1>10. CASE RefundFindsSettled
  <2>1. Beliefs'
    BY <1>10, ReturnRefund DEF RefundFindsSettled, SetAndPersist, NoRefundDue,
       dbVars, contractVars, chainVars, outside, ctl
  <2>2. Refunds'
    BY <1>10, ReturnRefund DEF RefundFindsSettled, SetAndPersist, NoRefundDue,
       dbVars, contractVars, chainVars, outside, ctl
  <2>3. ClaimedOnlyPaid'
    BY <1>10, ReturnRefund DEF RefundFindsSettled, SetAndPersist, NoRefundDue,
       dbVars, contractVars, chainVars, outside, ctl
  <2>4. Sends'
    BY <1>10, ReturnRefund DEF RefundFindsSettled, SetAndPersist, NoRefundDue,
       dbVars, contractVars, chainVars, outside, ctl
  <2>5. Outcomes'
    BY <1>10, ReturnRefund DEF RefundFindsSettled, SetAndPersist, NoRefundDue,
       dbVars, contractVars, chainVars, outside, ctl
  <2>6. Stores'
    BY <1>10, ReturnRefund DEF RefundFindsSettled, SetAndPersist, NoRefundDue,
       dbVars, contractVars, chainVars, outside, ctl
  <2>. QED
    BY <2>1, <2>2, <2>3, <2>4, <2>5, <2>6
<1>11. CASE PublishTimeoutTx
  <2>1. Beliefs'
    BY <1>11, ReturnRefund DEF PublishTimeoutTx, Fault, swapVars, flags,
       dbVars, contractVars
  <2>2. Refunds'
    BY <1>11, ReturnRefund DEF PublishTimeoutTx, Fault, swapVars, flags,
       dbVars, contractVars
  <2>3. ClaimedOnlyPaid'
    BY <1>11, ReturnRefund DEF PublishTimeoutTx, Fault, swapVars, flags,
       dbVars, contractVars
  <2>4. Sends'
    BY <1>11, ReturnRefund DEF PublishTimeoutTx, Fault, swapVars, flags,
       dbVars, contractVars
  <2>5. Outcomes'
    BY <1>11, ReturnRefund DEF PublishTimeoutTx, Fault, swapVars, flags,
       dbVars, contractVars
  <2>6. Stores'
    BY <1>11, ReturnRefund DEF PublishTimeoutTx, Fault, swapVars, flags,
       dbVars, contractVars
  <2>. QED
    BY <2>1, <2>2, <2>3, <2>4, <2>5, <2>6
<1>12. CASE PushKeyOnBlock
  <2>1. Beliefs'
    BY <1>12 DEF PushKeyOnBlock, Fault, TryPushHtlcKey, KeyDue, swapVars,
       flags, dbVars, contractVars, chainVars
  <2>2. Refunds'
    BY <1>12 DEF PushKeyOnBlock, Fault, TryPushHtlcKey, KeyDue, swapVars,
       flags, dbVars, contractVars, chainVars
  <2>3. ClaimedOnlyPaid'
    BY <1>12 DEF PushKeyOnBlock, Fault, TryPushHtlcKey, KeyDue, swapVars,
       flags, dbVars, contractVars, chainVars
  <2>4. Sends'
    BY <1>12 DEF PushKeyOnBlock, Fault, TryPushHtlcKey, KeyDue, swapVars,
       flags, dbVars, contractVars, chainVars
  <2>5. Outcomes'
    BY <1>12 DEF PushKeyOnBlock, Fault, TryPushHtlcKey, KeyDue, swapVars,
       flags, dbVars, contractVars, chainVars
  <2>6. Stores'
    BY <1>12 DEF PushKeyOnBlock, Fault, TryPushHtlcKey, KeyDue, swapVars,
       flags, dbVars, contractVars, chainVars
  <2>. QED
    BY <2>1, <2>2, <2>3, <2>4, <2>5, <2>6
<1>13. CASE Complete
  BY <1>13 DEF Complete, SetAndPersist, SpentAndFinalized, SettledAndExpired,
     loopVars, flags, contractVars, chainVars, outside, ctl
<1>14. CASE BlockEpoch
  BY <1>14 DEF BlockEpoch, NextEpoch, SpentAndFinalized, SettledAndExpired,
     Selecting, loopVars, flags, dbVars, contractVars, chainVars, outside, ctl
<1>15. CASE HtlcClaimed
  BY <1>15 DEF HtlcClaimed, SpentAndFinalized, SettledAndExpired, Selecting,
     flags, dbVars, contractVars, chainVars, outside, ctl
<1>16. CASE HtlcRefunded
  <2>1. Beliefs'
    BY <1>16 DEF HtlcRefunded, Canceled, SpentAndFinalized, SettledAndExpired,
       Selecting, dbVars, contractVars, chainVars, ctl
  <2>2. Refunds'
    BY <1>16 DEF HtlcRefunded, Canceled, SpentAndFinalized, SettledAndExpired,
       Selecting, dbVars, contractVars, chainVars, ctl
  <2>3. ClaimedOnlyPaid'
    BY <1>16 DEF HtlcRefunded, Canceled, SpentAndFinalized, SettledAndExpired,
       Selecting, dbVars, contractVars, chainVars, ctl
  <2>4. Sends'
    BY <1>16 DEF HtlcRefunded, Canceled, SpentAndFinalized, SettledAndExpired,
       Selecting, dbVars, contractVars, chainVars, ctl
  <2>5. Outcomes'
    BY <1>16 DEF HtlcRefunded, Canceled, SpentAndFinalized, SettledAndExpired,
       Selecting, dbVars, contractVars, chainVars, ctl
  <2>6. Stores'
    BY <1>16 DEF HtlcRefunded, Canceled, SpentAndFinalized, SettledAndExpired,
       Selecting, dbVars, contractVars, chainVars, ctl
  <2>. QED
    BY <2>1, <2>2, <2>3, <2>4, <2>5, <2>6
<1>17. CASE InvoiceSettledUpdate
  <2>1. Beliefs'
    BY <1>17 DEF InvoiceSettledUpdate, SetAndPersist, Fault, TryPushHtlcKey,
       SpentAndFinalized, SettledAndExpired, Selecting, dbVars, contractVars,
       chainVars
  <2>2. Refunds'
    BY <1>17 DEF InvoiceSettledUpdate, SetAndPersist, Fault, TryPushHtlcKey,
       SpentAndFinalized, SettledAndExpired, Selecting, dbVars, contractVars,
       chainVars
  <2>3. ClaimedOnlyPaid'
    BY <1>17 DEF InvoiceSettledUpdate, SetAndPersist, Fault, TryPushHtlcKey,
       SpentAndFinalized, SettledAndExpired, Selecting, dbVars, contractVars,
       chainVars
  <2>4. Sends'
    BY <1>17 DEF InvoiceSettledUpdate, SetAndPersist, Fault, TryPushHtlcKey,
       SpentAndFinalized, SettledAndExpired, Selecting, dbVars, contractVars,
       chainVars
  <2>5. Outcomes'
    BY <1>17 DEF InvoiceSettledUpdate, SetAndPersist, Fault, TryPushHtlcKey,
       SpentAndFinalized, SettledAndExpired, Selecting, dbVars, contractVars,
       chainVars
  <2>6. Stores'
    BY <1>17 DEF InvoiceSettledUpdate, SetAndPersist, Fault, TryPushHtlcKey,
       SpentAndFinalized, SettledAndExpired, Selecting, dbVars, contractVars,
       chainVars
  <2>. QED
    BY <2>1, <2>2, <2>3, <2>4, <2>5, <2>6
<1>18. CASE InvoiceCanceledUpdate
  BY <1>18 DEF InvoiceCanceledUpdate, Canceled, SpentAndFinalized,
     SettledAndExpired, Selecting, dbVars, contractVars, chainVars, outside,
     ctl
<1>19. CASE SetStateAbandoned
  <2>1. Beliefs'
    BY <1>19 DEF SetStateAbandoned, SetAndPersist, SpentAndFinalized,
       SettledAndExpired, Selecting, loopVars, flags, dbVars, contractVars,
       chainVars, outside
  <2>2. Refunds'
    BY <1>19 DEF SetStateAbandoned, SetAndPersist, SpentAndFinalized,
       SettledAndExpired, Selecting, loopVars, flags, dbVars, contractVars,
       chainVars, outside
  <2>3. ClaimedOnlyPaid'
    BY <1>19 DEF SetStateAbandoned, SetAndPersist, SpentAndFinalized,
       SettledAndExpired, Selecting, loopVars, flags, dbVars, contractVars,
       chainVars, outside
  <2>4. Sends'
    BY <1>19 DEF SetStateAbandoned, SetAndPersist, SpentAndFinalized,
       SettledAndExpired, Selecting, loopVars, flags, dbVars, contractVars,
       chainVars, outside
  <2>5. Outcomes'
    BY <1>19 DEF SetStateAbandoned, SetAndPersist, SpentAndFinalized,
       SettledAndExpired, Selecting, loopVars, flags, dbVars, contractVars,
       chainVars, outside
  <2>6. Stores'
    BY <1>19 DEF SetStateAbandoned, SetAndPersist, SpentAndFinalized,
       SettledAndExpired, Selecting, loopVars, flags, dbVars, contractVars,
       chainVars, outside
  <2>. QED
    BY <2>1, <2>2, <2>3, <2>4, <2>5, <2>6
<1>20. CASE CancelAbandoned
  BY <1>20 DEF CancelAbandoned, Fault, Canceled, swapVars, loopVars, flags,
     dbVars, contractVars, chainVars
<1>21. CASE SendOutputsFails
  BY <1>21 DEF SendOutputsFails, Fault, loopVars, flags, dbVars, contractVars
<1>22. CASE RefundUnresolved
  <2>1. Beliefs'
    BY <1>22, ReturnRefund DEF RefundUnresolved, Fault, Canceled, NoRefundDue,
       swapVars, flags, dbVars, contractVars, chainVars
  <2>2. Refunds'
    BY <1>22, ReturnRefund DEF RefundUnresolved, Fault, Canceled, NoRefundDue,
       swapVars, flags, dbVars, contractVars, chainVars
  <2>3. ClaimedOnlyPaid'
    BY <1>22, ReturnRefund DEF RefundUnresolved, Fault, Canceled, NoRefundDue,
       swapVars, flags, dbVars, contractVars, chainVars
  <2>4. Sends'
    BY <1>22, ReturnRefund DEF RefundUnresolved, Fault, Canceled, NoRefundDue,
       swapVars, flags, dbVars, contractVars, chainVars
  <2>5. Outcomes'
    BY <1>22, ReturnRefund DEF RefundUnresolved, Fault, Canceled, NoRefundDue,
       swapVars, flags, dbVars, contractVars, chainVars
  <2>6. Stores'
    BY <1>22, ReturnRefund DEF RefundUnresolved, Fault, Canceled, NoRefundDue,
       swapVars, flags, dbVars, contractVars, chainVars
  <2>. QED
    BY <2>1, <2>2, <2>3, <2>4, <2>5, <2>6
<1>23. CASE TemporaryFailure
  BY <1>23 DEF TemporaryFailure, Fault, loopVars, flags, dbVars, contractVars,
     chainVars, outside
<1>24. CASE Stop
  BY <1>24 DEF Stop, Fault, swapVars, loopVars, flags, dbVars, contractVars,
     chainVars, outside
<1>25. CASE NewBlock
  BY <1>25 DEF NewBlock, swapUnchanged, swapVars, loopVars, flags, dbVars,
     contractVars, ctl
<1>26. CASE UserPublishesHtlc
  BY <1>26 DEF UserPublishesHtlc, swapUnchanged, swapVars, loopVars, flags,
     dbVars, contractVars, ctl
<1>27. CASE HtlcConfirms
  BY <1>27 DEF HtlcConfirms, swapUnchanged, swapVars, loopVars, flags, dbVars,
     contractVars, ctl
<1>28. CASE ServerPays
  BY <1>28 DEF ServerPays, swapUnchanged, swapVars, loopVars, flags, dbVars,
     contractVars, chainVars, ctl
<1>29. CASE ServerClaims
  BY <1>29 DEF ServerClaims, swapUnchanged, swapVars, loopVars, flags, dbVars,
     contractVars, ctl
<1>30. CASE RefundConfirms
  BY <1>30 DEF RefundConfirms, swapUnchanged, swapVars, loopVars, flags,
     dbVars, contractVars, ctl
<1>31. CASE DeleteInvoice
  BY <1>31 DEF DeleteInvoice, Canceled, swapUnchanged, swapVars, loopVars,
     flags, dbVars, contractVars, chainVars, ctl
<1>32. CASE AbandonSwap
  BY <1>32 DEF AbandonSwap, swapVars, loopVars, flags, dbVars, contractVars,
     chainVars, outside
<1>33. CASE OperatorRestarts
  BY <1>33 DEF OperatorRestarts, swapVars, loopVars, flags, dbVars,
     contractVars, chainVars, outside, ctl
<1>34. CASE Resume
  <2>1. Beliefs'
    BY <1>34 DEF Resume, ResumeHeight, dbVars, contractVars, chainVars,
       outside
  <2>2. Refunds'
    BY <1>34 DEF Resume, ResumeHeight, dbVars, contractVars, chainVars,
       outside
  <2>3. ClaimedOnlyPaid'
    BY <1>34 DEF Resume, ResumeHeight, dbVars, contractVars, chainVars,
       outside
  <2>4. Sends'
    BY <1>34 DEF Resume, ResumeHeight, dbVars, contractVars, chainVars,
       outside
  <2>5. Outcomes'
    BY <1>34 DEF Resume, ResumeHeight, dbVars, contractVars, chainVars,
       outside
  <2>6. Stores'
    BY <1>34 DEF Resume, ResumeHeight, dbVars, contractVars, chainVars,
       outside
  <2>. QED
    BY <2>1, <2>2, <2>3, <2>4, <2>5, <2>6
<1>35. CASE Finished
  BY <1>35 DEF Finished, vars, swapVars, loopVars, flags, dbVars,
     contractVars, chainVars
<1>36. CASE UNCHANGED vars
  BY <1>36 DEF vars, swapVars, loopVars, flags, dbVars, contractVars,
     chainVars
<1>. QED
  BY <1>1, <1>2, <1>3, <1>4, <1>5, <1>6, <1>7, <1>8, <1>9, <1>10, <1>11,
     <1>12, <1>13, <1>14, <1>15, <1>16, <1>17, <1>18, <1>19, <1>20, <1>21,
     <1>22, <1>23, <1>24, <1>25, <1>26, <1>27, <1>28, <1>29, <1>30, <1>31,
     <1>32, <1>33, <1>34, <1>35, <1>36, Zenon DEF Next, SwapStep,
     FailureStep, EnvStep

\* Inv is inductive, so it holds throughout every execution of the swap.
THEOREM InvHolds == Spec => []Inv
<1>1. Init => Inv
  <2>. SUFFICES ASSUME Init PROVE Inv
    OBVIOUS
  <2>1. cost \in Costs /\ dbCost \in Costs
    BY DEF Init, NoCost, Costs
  <2>2. TypeOK
    BY <2>1 DEF Init, TypeOK, Pcs, HtlcStates, InvoiceStates, SwapState,
                PendingStates, FinalStates
  <2>3. Beliefs /\ Refunds /\ ClaimedOnlyPaid /\ Sends
    BY DEF Init, Beliefs, Refunds, Sends, RefundOnlyUnpaid, ClaimedOnlyPaid,
           SingleHtlc
  <2>4. Outcomes /\ Stores
    BY DEF Init, Outcomes, Stores, OutcomeMatchesChain, Waiting, Executing,
           IsPending, IsFinal, PendingStates
  <2>. QED
    BY <2>2, <2>3, <2>4 DEF Inv
<1>2. Inv /\ [Next]_vars => Inv'
  BY TypeStep, SafetyStep DEF Inv
<1>. QED
  BY <1>1, <1>2, PTL DEF Spec

\* Every variable of the swap keeps its type.
THEOREM TypeCorrect == Spec => []TypeOK
BY InvHolds, PTL DEF Inv

\* The refund is only broadcast for an invoice that can never be settled any
\* more (authorizeRefund), for every expiry and any number of failures.
THEOREM RefundSafe == Spec => []RefundOnlyUnpaid
BY InvHolds, PTL DEF Inv, Refunds

\* The server only claims the htlc, and only has the client's key, against the
\* paid invoice (tryPushHtlcKey).
THEOREM ClaimSafe == Spec => []ClaimedOnlyPaid
BY InvHolds, PTL DEF Inv

\* lnd funds the htlc at most once, however often the daemon restarts
\* (publishOnChainHtlc).
THEOREM PublishedOnce == Spec => []SingleHtlc
BY InvHolds, PTL DEF Inv, Sends

\* The stored outcome agrees with the chain and the invoice (executeSwap,
\* processHtlcSpend).
THEOREM OutcomeCorrect == Spec => []OutcomeMatchesChain
BY InvHolds, PTL DEF Inv, Outcomes

\* Every step keeps the accounting of the timeout fee.
LEMMA CostingStep == Inv /\ Costing /\ [Next]_vars => Costing'
<1>. SUFFICES ASSUME Inv, Costing, [Next]_vars PROVE Costing'
  OBVIOUS
<1>. USE DEF Inv, TypeOK, Costs, Stores, Costing, RefundFeeCountedOnce, Waiting,
            Executing, IsPending, IsFinal, SwapState, PendingStates, FinalStates, Pcs
<1>1. CASE ExecuteExternal
  BY <1>1 DEF ExecuteExternal, SetAndPersist, loopVars, flags, contractVars,
     chainVars, outside, ctl
<1>2. CASE PublishOnChainHtlc
  BY <1>2 DEF PublishOnChainHtlc, SetAndPersist, loopVars, flags,
     contractVars, chainVars, outside, ctl
<1>3. CASE ExecuteResumed
  BY <1>3 DEF ExecuteResumed, swapVars, loopVars, flags, dbVars,
     contractVars, chainVars, outside, ctl
<1>4. CASE SendOutputs
  BY <1>4 DEF SendOutputs, loopVars, flags, dbVars, contractVars, ctl
<1>5. CASE RecordHtlcTx
  BY <1>5 DEF RecordHtlcTx, swapVars, loopVars, flags, contractVars,
     chainVars, outside, ctl
<1>6. CASE ConfBlock
  BY <1>6 DEF ConfBlock, NextEpoch, loopVars, flags, dbVars, contractVars,
     chainVars, outside, ctl
<1>7. CASE HtlcConfirmed
  BY <1>7 DEF HtlcConfirmed, Fault, dbVars, contractVars, chainVars, outside
<1>8. CASE PublishTxOnTimeoutSkips
  BY <1>8, ReturnRefund DEF PublishTxOnTimeoutSkips, NoRefundDue, swapVars, flags, dbVars,
     contractVars, chainVars, outside, ctl
<1>9. CASE AuthorizeRefund
  BY <1>9, ReturnRefund DEF AuthorizeRefund, Canceled, NoRefundDue, RefundGranted,
     loopVars, dbVars, contractVars, chainVars, ctl
<1>10. CASE RefundFindsSettled
  BY <1>10, ReturnRefund DEF RefundFindsSettled, SetAndPersist, NoRefundDue, dbVars,
     contractVars, chainVars, outside, ctl
<1>11. CASE PublishTimeoutTx
  BY <1>11, ReturnRefund DEF PublishTimeoutTx, Fault, swapVars, flags, dbVars,
     contractVars
<1>12. CASE PushKeyOnBlock
  BY <1>12 DEF PushKeyOnBlock, Fault, TryPushHtlcKey, KeyDue, swapVars,
     flags, dbVars, contractVars, chainVars
<1>13. CASE Complete
  BY <1>13 DEF Complete, SetAndPersist, SpentAndFinalized,
     SettledAndExpired, loopVars, flags, contractVars, chainVars, outside,
     ctl
<1>14. CASE BlockEpoch
  BY <1>14 DEF BlockEpoch, NextEpoch, SpentAndFinalized, SettledAndExpired,
     Selecting, loopVars, flags, dbVars, contractVars, chainVars, outside,
     ctl
<1>15. CASE HtlcClaimed
  BY <1>15 DEF HtlcClaimed, SpentAndFinalized, SettledAndExpired, Selecting,
     flags, dbVars, contractVars, chainVars, outside, ctl
<1>16. CASE HtlcRefunded
  BY <1>16 DEF HtlcRefunded, Canceled, SpentAndFinalized, SettledAndExpired,
     Selecting, dbVars, contractVars, chainVars, ctl
<1>17. CASE InvoiceSettledUpdate
  BY <1>17 DEF InvoiceSettledUpdate, SetAndPersist, Fault, TryPushHtlcKey,
     SpentAndFinalized, SettledAndExpired, Selecting, dbVars, contractVars,
     chainVars
<1>18. CASE InvoiceCanceledUpdate
  BY <1>18 DEF InvoiceCanceledUpdate, Canceled, SpentAndFinalized,
     SettledAndExpired, Selecting, dbVars, contractVars, chainVars, outside,
     ctl
<1>19. CASE SetStateAbandoned
  BY <1>19 DEF SetStateAbandoned, SetAndPersist, SpentAndFinalized,
     SettledAndExpired, Selecting, loopVars, flags, dbVars, contractVars,
     chainVars, outside
<1>20. CASE CancelAbandoned
  BY <1>20 DEF CancelAbandoned, Fault, Canceled, swapVars, loopVars, flags,
     dbVars, contractVars, chainVars
<1>21. CASE SendOutputsFails
  BY <1>21 DEF SendOutputsFails, Fault, loopVars, flags, dbVars,
     contractVars
<1>22. CASE RefundUnresolved
  BY <1>22, ReturnRefund DEF RefundUnresolved, Fault, Canceled, NoRefundDue, swapVars,
     flags, dbVars, contractVars, chainVars
<1>23. CASE TemporaryFailure
  BY <1>23 DEF TemporaryFailure, Fault, loopVars, flags, dbVars,
     contractVars, chainVars, outside
<1>24. CASE Stop
  BY <1>24 DEF Stop, Fault, swapVars, loopVars, flags, dbVars, contractVars,
     chainVars, outside
<1>25. CASE NewBlock
  BY <1>25 DEF NewBlock, swapUnchanged, swapVars, loopVars, flags, dbVars,
     contractVars, ctl
<1>26. CASE UserPublishesHtlc
  BY <1>26 DEF UserPublishesHtlc, swapUnchanged, swapVars, loopVars, flags,
     dbVars, contractVars, ctl
<1>27. CASE HtlcConfirms
  BY <1>27 DEF HtlcConfirms, swapUnchanged, swapVars, loopVars, flags,
     dbVars, contractVars, ctl
<1>28. CASE ServerPays
  BY <1>28 DEF ServerPays, swapUnchanged, swapVars, loopVars, flags, dbVars,
     contractVars, chainVars, ctl
<1>29. CASE ServerClaims
  BY <1>29 DEF ServerClaims, swapUnchanged, swapVars, loopVars, flags,
     dbVars, contractVars, ctl
<1>30. CASE RefundConfirms
  BY <1>30 DEF RefundConfirms, swapUnchanged, swapVars, loopVars, flags,
     dbVars, contractVars, ctl
<1>31. CASE DeleteInvoice
  BY <1>31 DEF DeleteInvoice, Canceled, swapUnchanged, swapVars, loopVars,
     flags, dbVars, contractVars, chainVars, ctl
<1>32. CASE AbandonSwap
  BY <1>32 DEF AbandonSwap, swapVars, loopVars, flags, dbVars, contractVars,
     chainVars, outside
<1>33. CASE OperatorRestarts
  BY <1>33 DEF OperatorRestarts, swapVars, loopVars, flags, dbVars,
     contractVars, chainVars, outside, ctl
<1>34. CASE Resume
  BY <1>34 DEF Resume, ResumeHeight, dbVars, contractVars, chainVars,
     outside
<1>35. CASE Finished
  BY <1>35 DEF Finished, vars, swapVars, loopVars, flags, dbVars,
     contractVars, chainVars
<1>36. CASE UNCHANGED vars
  BY <1>36 DEF vars, swapVars, loopVars, flags, dbVars, contractVars,
     chainVars
<1>. QED
  BY <1>1, <1>2, <1>3, <1>4, <1>5, <1>6, <1>7, <1>8, <1>9, <1>10, <1>11,
     <1>12, <1>13, <1>14, <1>15, <1>16, <1>17, <1>18, <1>19, <1>20, <1>21,
     <1>22, <1>23, <1>24, <1>25, <1>26, <1>27, <1>28, <1>29, <1>30, <1>31,
     <1>32, <1>33, <1>34, <1>35, <1>36, Zenon DEF Next, SwapStep,
     FailureStep, EnvStep

\* The fee of the timeout transaction is stored at most once, and only with a final
\* state, however often the transaction was published and the swap restarted
\* (waitForSwapComplete, processHtlcSpend).
THEOREM FeeOnce == Spec => []RefundFeeCountedOnce
<1>1. Init => Costing
  BY DEF Init, NoCost, Costing, RefundFeeCountedOnce, Waiting, Executing
<1>. QED
  BY <1>1, CostingStep, InvHolds, PTL DEF Spec, Costing

\* What a step may do to the stored state.
Forward ==
    /\ IsFinal(dbState) => dbState' = dbState
    /\ dbState = "InvoiceSettled"
         => dbState' \in {"InvoiceSettled", "Success", "FailAbandoned"}
    /\ dbState' = "Initiated" => dbState = "Initiated"
    /\ dbState' # "FailTemporary"

\* The stored state only moves forward (persistAndAnnounceState, execute).
THEOREM StoredForward == Spec => StoredStateMovesForward
<1>1. Inv /\ [Next]_vars => [Forward]_vars
  <2>. SUFFICES ASSUME Inv, [Next]_vars PROVE Forward \/ UNCHANGED vars
    OBVIOUS
  <2>. USE DEF Inv, TypeOK, Beliefs, Refunds, Sends, Outcomes, Stores, Forward,
              OutcomeMatchesChain, RefundOnlyUnpaid, Dead, Waiting, Executing,
              IsPending, IsFinal,
              SwapState, PendingStates, FinalStates, Pcs
  <2>1. CASE ExecuteExternal
    BY <2>1 DEF ExecuteExternal, SetAndPersist, loopVars, flags, contractVars,
       chainVars, outside, ctl
  <2>2. CASE PublishOnChainHtlc
    BY <2>2 DEF PublishOnChainHtlc, SetAndPersist, loopVars, flags,
       contractVars, chainVars, outside, ctl
  <2>3. CASE ExecuteResumed
    BY <2>3 DEF ExecuteResumed, swapVars, loopVars, flags, dbVars,
       contractVars, chainVars, outside, ctl
  <2>4. CASE SendOutputs
    BY <2>4 DEF SendOutputs, loopVars, flags, dbVars, contractVars, ctl
  <2>5. CASE RecordHtlcTx
    BY <2>5 DEF RecordHtlcTx, swapVars, loopVars, flags, contractVars,
       chainVars, outside, ctl
  <2>6. CASE ConfBlock
    BY <2>6 DEF ConfBlock, NextEpoch, loopVars, flags, dbVars, contractVars,
       chainVars, outside, ctl
  <2>7. CASE HtlcConfirmed
    BY <2>7 DEF HtlcConfirmed, Fault, dbVars, contractVars, chainVars, outside
  <2>8. CASE PublishTxOnTimeoutSkips
    BY <2>8 DEF PublishTxOnTimeoutSkips, NoRefundDue, swapVars, flags, dbVars,
       contractVars, chainVars, outside, ctl
  <2>9. CASE AuthorizeRefund
    BY <2>9 DEF AuthorizeRefund, Canceled, NoRefundDue, RefundGranted,
       loopVars, dbVars, contractVars, chainVars, ctl
  <2>10. CASE RefundFindsSettled
    BY <2>10 DEF RefundFindsSettled, SetAndPersist, NoRefundDue, dbVars,
       contractVars, chainVars, outside, ctl
  <2>11. CASE PublishTimeoutTx
    BY <2>11 DEF PublishTimeoutTx, Fault, swapVars, flags, dbVars,
       contractVars
  <2>12. CASE PushKeyOnBlock
    BY <2>12 DEF PushKeyOnBlock, Fault, TryPushHtlcKey, KeyDue, swapVars,
       flags, dbVars, contractVars, chainVars
  <2>13. CASE Complete
    BY <2>13 DEF Complete, SetAndPersist, SpentAndFinalized,
       SettledAndExpired, loopVars, flags, contractVars, chainVars, outside,
       ctl
  <2>14. CASE BlockEpoch
    BY <2>14 DEF BlockEpoch, NextEpoch, SpentAndFinalized, SettledAndExpired,
       Selecting, loopVars, flags, dbVars, contractVars, chainVars, outside,
       ctl
  <2>15. CASE HtlcClaimed
    BY <2>15 DEF HtlcClaimed, SpentAndFinalized, SettledAndExpired, Selecting,
       flags, dbVars, contractVars, chainVars, outside, ctl
  <2>16. CASE HtlcRefunded
    BY <2>16 DEF HtlcRefunded, Canceled, SpentAndFinalized, SettledAndExpired,
       Selecting, dbVars, contractVars, chainVars, ctl
  <2>17. CASE InvoiceSettledUpdate
    BY <2>17 DEF InvoiceSettledUpdate, SetAndPersist, Fault, TryPushHtlcKey,
       SpentAndFinalized, SettledAndExpired, Selecting, dbVars, contractVars,
       chainVars
  <2>18. CASE InvoiceCanceledUpdate
    BY <2>18 DEF InvoiceCanceledUpdate, Canceled, SpentAndFinalized,
       SettledAndExpired, Selecting, dbVars, contractVars, chainVars, outside,
       ctl
  <2>19. CASE SetStateAbandoned
    BY <2>19 DEF SetStateAbandoned, SetAndPersist, SpentAndFinalized,
       SettledAndExpired, Selecting, loopVars, flags, dbVars, contractVars,
       chainVars, outside
  <2>20. CASE CancelAbandoned
    BY <2>20 DEF CancelAbandoned, Fault, Canceled, swapVars, loopVars, flags,
       dbVars, contractVars, chainVars
  <2>21. CASE SendOutputsFails
    BY <2>21 DEF SendOutputsFails, Fault, loopVars, flags, dbVars,
       contractVars
  <2>22. CASE RefundUnresolved
    BY <2>22 DEF RefundUnresolved, Fault, Canceled, NoRefundDue, swapVars,
       flags, dbVars, contractVars, chainVars
  <2>23. CASE TemporaryFailure
    BY <2>23 DEF TemporaryFailure, Fault, loopVars, flags, dbVars,
       contractVars, chainVars, outside
  <2>24. CASE Stop
    BY <2>24 DEF Stop, Fault, swapVars, loopVars, flags, dbVars, contractVars,
       chainVars, outside
  <2>25. CASE NewBlock
    BY <2>25 DEF NewBlock, swapUnchanged, swapVars, loopVars, flags, dbVars,
       contractVars, ctl
  <2>26. CASE UserPublishesHtlc
    BY <2>26 DEF UserPublishesHtlc, swapUnchanged, swapVars, loopVars, flags,
       dbVars, contractVars, ctl
  <2>27. CASE HtlcConfirms
    BY <2>27 DEF HtlcConfirms, swapUnchanged, swapVars, loopVars, flags,
       dbVars, contractVars, ctl
  <2>28. CASE ServerPays
    BY <2>28 DEF ServerPays, swapUnchanged, swapVars, loopVars, flags, dbVars,
       contractVars, chainVars, ctl
  <2>29. CASE ServerClaims
    BY <2>29 DEF ServerClaims, swapUnchanged, swapVars, loopVars, flags,
       dbVars, contractVars, ctl
  <2>30. CASE RefundConfirms
    BY <2>30 DEF RefundConfirms, swapUnchanged, swapVars, loopVars, flags,
       dbVars, contractVars, ctl
  <2>31. CASE DeleteInvoice
    BY <2>31 DEF DeleteInvoice, Canceled, swapUnchanged, swapVars, loopVars,
       flags, dbVars, contractVars, chainVars, ctl
  <2>32. CASE AbandonSwap
    BY <2>32 DEF AbandonSwap, swapVars, loopVars, flags, dbVars, contractVars,
       chainVars, outside
  <2>33. CASE OperatorRestarts
    BY <2>33 DEF OperatorRestarts, swapVars, loopVars, flags, dbVars,
       contractVars, chainVars, outside, ctl
  <2>34. CASE Resume
    BY <2>34 DEF Resume, ResumeHeight, dbVars, contractVars, chainVars,
       outside
  <2>35. CASE Finished
    BY <2>35 DEF Finished, vars, swapVars, loopVars, flags, dbVars,
       contractVars, chainVars
  <2>36. CASE UNCHANGED vars
    BY <2>36 DEF vars, swapVars, loopVars, flags, dbVars, contractVars,
       chainVars
  <2>. QED
    BY <2>1, <2>2, <2>3, <2>4, <2>5, <2>6, <2>7, <2>8, <2>9, <2>10, <2>11,
       <2>12, <2>13, <2>14, <2>15, <2>16, <2>17, <2>18, <2>19, <2>20, <2>21,
       <2>22, <2>23, <2>24, <2>25, <2>26, <2>27, <2>28, <2>29, <2>30, <2>31,
       <2>32, <2>33, <2>34, <2>35, <2>36, Zenon DEF Next, SwapStep,
       FailureStep, EnvStep
<1>2. [Forward]_vars <=>
        [ /\ IsFinal(dbState) => dbState' = dbState
          /\ dbState = "InvoiceSettled"
               => dbState' \in {"InvoiceSettled", "Success", "FailAbandoned"}
          /\ dbState' = "Initiated" => dbState = "Initiated"
          /\ dbState' # "FailTemporary" ]_vars
  BY DEF Forward
<1>. QED
  BY <1>1, <1>2, InvHolds, PTL DEF Spec, StoredStateMovesForward

\* Each step of the client, lnd, the chain and the server, failures and
\* restarts included, is a step of AtomicSwap or leaves both legs alone.
THEOREM Refinement == Spec => ImplementsAtomicSwap
<1>1. Init => Atomic!AInit
  BY DEF Init, Atomic!AInit, Leg, PayLeg
<1>2. Inv /\ [Next]_vars => [Atomic!ANext]_(Atomic!avars)
  <2>. SUFFICES ASSUME Inv, [Next]_vars
       PROVE Atomic!ANext \/ UNCHANGED Atomic!avars
    OBVIOUS
  <2>. USE DEF Inv, TypeOK, Beliefs, Refunds, Sends, RefundOnlyUnpaid,
              ClaimedOnlyPaid, SingleHtlc, Dead, HtlcStates, InvoiceStates,
              Leg, PayLeg, Atomic!ANext, Atomic!avars, Atomic!Lock, Atomic!Pay,
              Atomic!Kill, Atomic!Claim, Atomic!Reclaim
  <2>1. CASE ExecuteExternal
    BY <2>1 DEF ExecuteExternal, SetAndPersist, loopVars, flags, contractVars,
       chainVars, outside, ctl
  <2>2. CASE PublishOnChainHtlc
    BY <2>2 DEF PublishOnChainHtlc, SetAndPersist, loopVars, flags,
       contractVars, chainVars, outside, ctl
  <2>3. CASE ExecuteResumed
    BY <2>3 DEF ExecuteResumed, swapVars, loopVars, flags, dbVars,
       contractVars, chainVars, outside, ctl
  <2>4. CASE SendOutputs
    BY <2>4 DEF SendOutputs, loopVars, flags, dbVars, contractVars, ctl
  <2>5. CASE RecordHtlcTx
    BY <2>5 DEF RecordHtlcTx, swapVars, loopVars, flags, contractVars,
       chainVars, outside, ctl
  <2>6. CASE ConfBlock
    BY <2>6 DEF ConfBlock, NextEpoch, loopVars, flags, dbVars, contractVars,
       chainVars, outside, ctl
  <2>7. CASE HtlcConfirmed
    BY <2>7 DEF HtlcConfirmed, Fault, dbVars, contractVars, chainVars, outside
  <2>8. CASE PublishTxOnTimeoutSkips
    BY <2>8 DEF PublishTxOnTimeoutSkips, NoRefundDue, swapVars, flags, dbVars,
       contractVars, chainVars, outside, ctl
  <2>9. CASE AuthorizeRefund
    BY <2>9 DEF AuthorizeRefund, Canceled, NoRefundDue, RefundGranted,
       loopVars, dbVars, contractVars, chainVars, ctl
  <2>10. CASE RefundFindsSettled
    BY <2>10 DEF RefundFindsSettled, SetAndPersist, NoRefundDue, dbVars,
       contractVars, chainVars, outside, ctl
  <2>11. CASE PublishTimeoutTx
    BY <2>11 DEF PublishTimeoutTx, Fault, swapVars, flags, dbVars,
       contractVars
  <2>12. CASE PushKeyOnBlock
    BY <2>12 DEF PushKeyOnBlock, Fault, TryPushHtlcKey, KeyDue, swapVars,
       flags, dbVars, contractVars, chainVars
  <2>13. CASE Complete
    BY <2>13 DEF Complete, SetAndPersist, SpentAndFinalized,
       SettledAndExpired, loopVars, flags, contractVars, chainVars, outside,
       ctl
  <2>14. CASE BlockEpoch
    BY <2>14 DEF BlockEpoch, NextEpoch, SpentAndFinalized, SettledAndExpired,
       Selecting, loopVars, flags, dbVars, contractVars, chainVars, outside,
       ctl
  <2>15. CASE HtlcClaimed
    BY <2>15 DEF HtlcClaimed, SpentAndFinalized, SettledAndExpired, Selecting,
       flags, dbVars, contractVars, chainVars, outside, ctl
  <2>16. CASE HtlcRefunded
    BY <2>16 DEF HtlcRefunded, Canceled, SpentAndFinalized, SettledAndExpired,
       Selecting, dbVars, contractVars, chainVars, ctl
  <2>17. CASE InvoiceSettledUpdate
    BY <2>17 DEF InvoiceSettledUpdate, SetAndPersist, Fault, TryPushHtlcKey,
       SpentAndFinalized, SettledAndExpired, Selecting, dbVars, contractVars,
       chainVars
  <2>18. CASE InvoiceCanceledUpdate
    BY <2>18 DEF InvoiceCanceledUpdate, Canceled, SpentAndFinalized,
       SettledAndExpired, Selecting, dbVars, contractVars, chainVars, outside,
       ctl
  <2>19. CASE SetStateAbandoned
    BY <2>19 DEF SetStateAbandoned, SetAndPersist, SpentAndFinalized,
       SettledAndExpired, Selecting, loopVars, flags, dbVars, contractVars,
       chainVars, outside
  <2>20. CASE CancelAbandoned
    BY <2>20 DEF CancelAbandoned, Fault, Canceled, swapVars, loopVars, flags,
       dbVars, contractVars, chainVars
  <2>21. CASE SendOutputsFails
    BY <2>21 DEF SendOutputsFails, Fault, loopVars, flags, dbVars,
       contractVars
  <2>22. CASE RefundUnresolved
    BY <2>22 DEF RefundUnresolved, Fault, Canceled, NoRefundDue, swapVars,
       flags, dbVars, contractVars, chainVars
  <2>23. CASE TemporaryFailure
    BY <2>23 DEF TemporaryFailure, Fault, loopVars, flags, dbVars,
       contractVars, chainVars, outside
  <2>24. CASE Stop
    BY <2>24 DEF Stop, Fault, swapVars, loopVars, flags, dbVars, contractVars,
       chainVars, outside
  <2>25. CASE NewBlock
    BY <2>25 DEF NewBlock, swapUnchanged, swapVars, loopVars, flags, dbVars,
       contractVars, ctl
  <2>26. CASE UserPublishesHtlc
    BY <2>26 DEF UserPublishesHtlc, swapUnchanged, swapVars, loopVars, flags,
       dbVars, contractVars, ctl
  <2>27. CASE HtlcConfirms
    BY <2>27 DEF HtlcConfirms, swapUnchanged, swapVars, loopVars, flags,
       dbVars, contractVars, ctl
  <2>28. CASE ServerPays
    BY <2>28 DEF ServerPays, swapUnchanged, swapVars, loopVars, flags, dbVars,
       contractVars, chainVars, ctl
  <2>29. CASE ServerClaims
    BY <2>29 DEF ServerClaims, swapUnchanged, swapVars, loopVars, flags,
       dbVars, contractVars, ctl
  <2>30. CASE RefundConfirms
    BY <2>30 DEF RefundConfirms, swapUnchanged, swapVars, loopVars, flags,
       dbVars, contractVars, ctl
  <2>31. CASE DeleteInvoice
    BY <2>31 DEF DeleteInvoice, Canceled, swapUnchanged, swapVars, loopVars,
       flags, dbVars, contractVars, chainVars, ctl
  <2>32. CASE AbandonSwap
    BY <2>32 DEF AbandonSwap, swapVars, loopVars, flags, dbVars, contractVars,
       chainVars, outside
  <2>33. CASE OperatorRestarts
    BY <2>33 DEF OperatorRestarts, swapVars, loopVars, flags, dbVars,
       contractVars, chainVars, outside, ctl
  <2>34. CASE Resume
    BY <2>34 DEF Resume, ResumeHeight, dbVars, contractVars, chainVars,
       outside
  <2>35. CASE Finished
    BY <2>35 DEF Finished, vars, swapVars, loopVars, flags, dbVars,
       contractVars, chainVars
  <2>36. CASE UNCHANGED vars
    BY <2>36 DEF vars, swapVars, loopVars, flags, dbVars, contractVars,
       chainVars
  <2>. QED
    BY <2>1, <2>2, <2>3, <2>4, <2>5, <2>6, <2>7, <2>8, <2>9, <2>10, <2>11,
       <2>12, <2>13, <2>14, <2>15, <2>16, <2>17, <2>18, <2>19, <2>20, <2>21,
       <2>22, <2>23, <2>24, <2>25, <2>26, <2>27, <2>28, <2>29, <2>30, <2>31,
       <2>32, <2>33, <2>34, <2>35, <2>36, Zenon DEF Next, SwapStep,
       FailureStep, EnvStep
<1>. QED
  BY <1>1, <1>2, InvHolds, PTL DEF Spec, ImplementsAtomicSwap, Atomic!ASpec
=============================================================================
