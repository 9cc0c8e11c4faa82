---------------------------- MODULE LoopOutProofs ----------------------------
(***************************************************************************)
(* The safety properties of LoopOut, proved for every expiry, reveal delta *)
(* and number of failures, and those of the payments that a loop-out makes *)
(* (Payments), for every number of payments and peers.                     *)
(*                                                                         *)
(* None of the former is inductive: that the preimage is safe rests on     *)
(* where the sweep can have come from, and the sweep outlives the run that *)
(* added it.  Inv relates the step of the goroutine, the stored state, the *)
(* batcher's sweep and the chain.                                          *)
(*                                                                         *)
(* The inductive invariant of MissionControlRestored says whose plugin the *)
(* instance is, that what it saved is clean, and that mission control is   *)
(* clean or visibly changed by the payment that has the plugin.            *)
(***************************************************************************)
EXTENDS LoopOut, Payments, TLAPS

\* The states in which the preimage counts as public.
PublicStates == {"PreimageRevealed", "Success", "FailSweepTimeout"}

\* The preimage has left the client, or something is under way that can make
\* it leave.
Exposed ==
    \/ pushed
    \/ onChain
    \/ sweepTx
    \/ batch # "none"
    \/ pc \in {"sweep", "reveal", "push"}
    \/ state \in PublicStates
    \/ dbState \in PublicStates

\* The preimage is exposed only for a confirmed htlc of the full amount, and
\* the swap payment is settled only with the preimage.
Secret ==
    /\ Exposed => htlc # "none" /\ valueOK
    /\ pay["swap"] = "settled" => Revealed

\* The state in memory and the stored one, by the step of the goroutine.
Stored ==
    /\ dbState \in PublicStates \cup {"Initiated", "FailTimeout",
                      "FailOffchainPayments", "FailInsufficientValue"}
    /\ pc \in {"start", "waitHtlc", "sweep", "reveal", "push"}
         => state = dbState /\ dbState \in {"Initiated", "PreimageRevealed"}
    /\ pc = "push" => state = "PreimageRevealed"
    /\ pc = "payments" =>
         \/ /\ state \in {"Success", "FailSweepTimeout"}
            /\ dbState = "PreimageRevealed"
         \/ /\ state \in {"FailTimeout", "FailOffchainPayments",
                          "FailInsufficientValue"}
            /\ dbState \in {"Initiated", state}
    /\ pushed => dbState \in PublicStates

\* The batcher reports only to a run that has stored the revelation.
Reports ==
    /\ pc \in {"start", "waitHtlc", "down"} => ~ notifier
    /\ pc = "sweep" /\ notifier => state = "PreimageRevealed"

\* The outcomes of the chain, in memory and stored.
Outcomes ==
    /\ "Success" \in {state, dbState} => htlc = "swept"
    /\ "FailSweepTimeout" \in {state, dbState} => htlc = "revoked"
    /\ "FailInsufficientValue" \in {state, dbState} => ~ valueOK

\* A run counts the swap payment when its channel is drained, once.
Counts ==
    /\ pc = "start" => cost.server = 0
    /\ chan["swap"] # "nil" => cost.server = 0
    /\ chan["swap"] = "succeeded" => pay["swap"] = "settled"
    /\ cost.server \in {0, 1} /\ dbCost.server \in {0, 1}
    /\ cost.server = 1 => pay["swap"] = "settled"
    /\ dbCost.server = 1 => pay["swap"] = "settled"

Inv == TypeOK /\ Secret /\ Stored /\ Reports /\ Outcomes /\ Counts

-----------------------------------------------------------------------------
\* Every step of LoopOut keeps the variables in their types.
LEMMA TypeStep == TypeOK /\ [Next]_vars => TypeOK'
<1>. SUFFICES ASSUME TypeOK, [Next]_vars PROVE TypeOK'
  OBVIOUS
<1>. USE MaxHeightAssumption, MaxFaultsAssumption
<1>. USE DEF TypeOK, Pcs, Invoices, ChanStates, PayStates, HtlcStates,
            SwapState, PendingStates, FinalStates
<1>1. CASE Start
  BY <1>1 DEF Start, MaxRevealHeightExceeded, loopVars, dbVars, batchVars,
     chainVars
<1>2. CASE BlockWhileWaiting
  BY <1>2 DEF BlockWhileWaiting, MaxRevealHeightExceeded, loopVars, dbVars,
     batchVars, chainVars
<1>3. CASE HtlcConfirmed
  <2>1. timer' \in BOOLEAN /\ paymentComplete' \in BOOLEAN
    BY <1>3, Zenon DEF HtlcConfirmed, ValueSufficient, loopVars, dbVars,
       batchVars, chainVars
  <2>. QED
    BY <1>3, <2>1 DEF HtlcConfirmed, ValueSufficient, loopVars, dbVars,
       batchVars, chainVars
<1>4. CASE BlockWhileSweeping
  <2>1. timer' \in BOOLEAN
    BY <1>4, Zenon DEF BlockWhileSweeping, dbVars, batchVars, chainVars
  <2>. QED
    BY <1>4, <2>1 DEF BlockWhileSweeping, dbVars, batchVars, chainVars
<1>5. CASE TrackPayment
  <2>1. paymentComplete' \in BOOLEAN
    BY <1>5, Zenon DEF TrackPayment, dbVars, batchVars, chainVars
  <2>. QED
    BY <1>5, <2>1 DEF TrackPayment, dbVars, batchVars, chainVars
<1>6. CASE SweepTimedOut
  <2>1. timer' \in BOOLEAN
    BY <1>6, Zenon DEF SweepTimedOut, Fault, CanSweep, dbVars, batchVars,
       chainVars
  <2>2. faults' = faults \/ faults' = faults + 1
    BY <1>6, <2>1, Zenon DEF SweepTimedOut, Fault, CanSweep, dbVars,
       batchVars, chainVars
  <2>. QED
    BY <1>6, <2>1, <2>2 DEF SweepTimedOut, Fault, CanSweep, dbVars, batchVars,
       chainVars
<1>7. CASE AddSweep
  <2>1. timer' \in BOOLEAN /\ notifier' \in BOOLEAN
    BY <1>7, Zenon DEF AddSweep, CanSweep, dbVars, chainVars
  <2>. QED
    BY <1>7, <2>1 DEF AddSweep, CanSweep, dbVars, chainVars
<1>8. CASE SetStatePreimageRevealed
  BY <1>8 DEF SetStatePreimageRevealed, loopVars, dbVars, batchVars, chainVars
<1>9. CASE PushPreimage
  <2>1. pushed' \in BOOLEAN
    BY <1>9, Zenon DEF PushPreimage, Fault, loopVars, dbVars, batchVars,
       chainVars
  <2>2. faults' = faults \/ faults' = faults + 1
    BY <1>9, <2>1, Zenon DEF PushPreimage, Fault, loopVars, dbVars, batchVars,
       chainVars
  <2>. QED
    BY <1>9, <2>1, <2>2 DEF PushPreimage, Fault, loopVars, dbVars, batchVars,
       chainVars
<1>10. CASE HtlcSpent
  <2>1. cost' \in Costs
    BY <1>10 DEF HtlcSpent, SweepSuccessful, Costs
  <2>. QED
    BY <1>10, <2>1 DEF HtlcSpent, SweepSuccessful, loopVars, dbVars,
       batchVars, chainVars
<1>11. CASE PersistOutcome
  BY <1>11 DEF PersistOutcome, loopVars, batchVars, chainVars
<1>12. CASE TemporaryFailure
  BY <1>12 DEF TemporaryFailure, Fault, loopVars, dbVars, batchVars, chainVars
<1>13. CASE Stop
  <2>1. notifier' \in BOOLEAN
    BY <1>13, Zenon DEF Stop, Fault, StopDaemon, dbVars, chainVars
  <2>. QED
    BY <1>13, <2>1 DEF Stop, Fault, StopDaemon, dbVars, chainVars
<1>14. CASE SetStatePreimageRevealedFails
  BY <1>14 DEF SetStatePreimageRevealedFails, Fault, loopVars, dbVars,
     batchVars, chainVars
<1>15. CASE OutcomeUpdateFails
  BY <1>15 DEF OutcomeUpdateFails, Fault, loopVars, batchVars, chainVars
<1>16. CASE HandleSweeps
  BY <1>16 DEF HandleSweeps, swapUnchanged, chainVars, loopVars, dbVars
<1>17. CASE PublishBatch
  <2>1. sweepTx' \in BOOLEAN /\ onChain' \in BOOLEAN
    BY <1>17, Zenon DEF PublishBatch, swapUnchanged, chainVars, loopVars,
       dbVars
  <2>. QED
    BY <1>17, <2>1 DEF PublishBatch, swapUnchanged, chainVars, loopVars,
       dbVars
<1>18. CASE SweepConfirms
  BY <1>18 DEF SweepConfirms, swapUnchanged, batchVars, loopVars, dbVars
<1>19. CASE NewBlock
  BY <1>19 DEF NewBlock, swapUnchanged, batchVars, loopVars, dbVars
<1>20. CASE ServerPublishesHtlc
  BY <1>20 DEF ServerPublishesHtlc, swapUnchanged, batchVars, loopVars, dbVars
<1>21. CASE ServerRevokesHtlc
  BY <1>21 DEF ServerRevokesHtlc, swapUnchanged, batchVars, loopVars, dbVars
<1>22. CASE OperatorRestarts
  <2>1. notifier' \in BOOLEAN
    BY <1>22, Zenon DEF OperatorRestarts, StopDaemon, IsPending, dbVars,
       chainVars
  <2>. QED
    BY <1>22, <2>1 DEF OperatorRestarts, StopDaemon, IsPending, dbVars,
       chainVars
<1>23. CASE Resume
  <2>1. timer' \in BOOLEAN /\ paymentComplete' \in BOOLEAN
    BY <1>23, Zenon DEF Resume, ResumedCost, dbVars, batchVars, chainVars,
       IsPending, NoCost
  <2>2. cost' \in Costs
    BY <1>23, <2>1 DEF Resume, ResumedCost, NoCost, Costs
  <2>. QED
    BY <1>23, <2>1, <2>2 DEF Resume, ResumedCost, dbVars, batchVars,
       chainVars, IsPending, NoCost
<1>24. CASE Finished
  BY <1>24 DEF Finished, vars, IsFinal, loopVars, dbVars, batchVars, chainVars
<1>25. CASE \E i \in Invoices : PaymentWhileWaiting(i)
  <2>1. PICK i \in Invoices : PaymentWhileWaiting(i)
    BY <1>25
  <2>2. cost' \in Costs
    BY <2>1 DEF PaymentWhileWaiting, HandlePaymentResult, Costs
  <2>. QED
    BY <2>1, <2>2 DEF PaymentWhileWaiting, HandlePaymentResult, loopVars,
       dbVars, batchVars, chainVars
<1>26. CASE \E i \in Invoices : PaymentAfterOutcome(i)
  <2>1. PICK i \in Invoices : PaymentAfterOutcome(i)
    BY <1>26
  <2>2. cost' \in Costs
    BY <2>1 DEF PaymentAfterOutcome, HandlePaymentResult, Costs
  <2>. QED
    BY <2>1, <2>2 DEF PaymentAfterOutcome, HandlePaymentResult, loopVars,
       dbVars, batchVars, chainVars
<1>27. CASE \E i \in Invoices : SendPayment(i)
  <2>1. PICK i \in Invoices : SendPayment(i)
    BY <1>27
  <2>. QED
    BY <2>1 DEF SendPayment, paymentUnchanged, loopVars, dbVars, batchVars,
       chainVars
<1>28. CASE \E i \in Invoices : PaymentSettled(i)
  <2>1. PICK i \in Invoices : PaymentSettled(i)
    BY <1>28
  <2>. QED
    BY <2>1 DEF PaymentSettled, paymentUnchanged, loopVars, dbVars, batchVars,
       chainVars
<1>29. CASE \E i \in Invoices : PaymentFailed(i)
  <2>1. PICK i \in Invoices : PaymentFailed(i)
    BY <1>29
  <2>. QED
    BY <2>1 DEF PaymentFailed, paymentUnchanged, loopVars, dbVars, batchVars,
       chainVars
<1>30. CASE \E i \in Invoices : PaymentError(i)
  <2>1. PICK i \in Invoices : PaymentError(i)
    BY <1>30
  <2>. QED
    BY <2>1 DEF PaymentError, Fault, paymentUnchanged, loopVars, dbVars,
       batchVars, chainVars
<1>31. CASE \E i \in Invoices : RetryPayment(i)
  <2>1. PICK i \in Invoices : RetryPayment(i)
    BY <1>31
  <2>. QED
    BY <2>1 DEF RetryPayment, Fault, paymentUnchanged, loopVars, dbVars,
       batchVars, chainVars
<1>32. CASE \E i \in Invoices : ServerSettles(i)
  <2>1. PICK i \in Invoices : ServerSettles(i)
    BY <1>32
  <2>. QED
    BY <2>1 DEF ServerSettles, swapUnchanged, batchVars, chainVars, Revealed,
       loopVars, dbVars
<1>33. CASE \E i \in Invoices : PaymentFails(i)
  <2>1. PICK i \in Invoices : PaymentFails(i)
    BY <1>33
  <2>. QED
    BY <2>1 DEF PaymentFails, swapUnchanged, batchVars, chainVars, loopVars,
       dbVars
<1>34. CASE UNCHANGED vars
  BY <1>34 DEF vars, loopVars, dbVars, batchVars, chainVars
<1>. QED
  BY <1>1, <1>2, <1>3, <1>4, <1>5, <1>6, <1>7, <1>8, <1>9, <1>10, <1>11,
     <1>12, <1>13, <1>14, <1>15, <1>16, <1>17, <1>18, <1>19, <1>20, <1>21,
     <1>22, <1>23, <1>24, <1>25, <1>26, <1>27, <1>28, <1>29, <1>30, <1>31,
     <1>32, <1>33, <1>34 DEF Next, SwapStep, PaymentStep, FailureStep, EnvStep

\* Every step of LoopOut preserves the invariant.
LEMMA SafetyStep == Inv /\ [Next]_vars => Inv'
<1>. SUFFICES ASSUME Inv, [Next]_vars
     PROVE Secret' /\ Stored' /\ Reports' /\ Outcomes' /\ Counts'
  BY TypeStep DEF Inv
<1>. USE DEF Inv, TypeOK, Exposed, Secret, Stored, Reports, Outcomes, Counts,
            Revealed, PublicStates, Invoices, PendingStates
<1>1. CASE Start
  BY <1>1 DEF Start, MaxRevealHeightExceeded, loopVars, dbVars, batchVars,
     chainVars
<1>2. CASE BlockWhileWaiting
  BY <1>2 DEF BlockWhileWaiting, MaxRevealHeightExceeded, loopVars, dbVars,
     batchVars, chainVars
<1>3. CASE HtlcConfirmed
  BY <1>3 DEF HtlcConfirmed, ValueSufficient, loopVars, dbVars, batchVars,
     chainVars
<1>4. CASE BlockWhileSweeping
  BY <1>4 DEF BlockWhileSweeping, dbVars, batchVars, chainVars
<1>5. CASE TrackPayment
  BY <1>5 DEF TrackPayment, dbVars, batchVars, chainVars
<1>6. CASE SweepTimedOut
  BY <1>6 DEF SweepTimedOut, Fault, CanSweep, dbVars, batchVars, chainVars
<1>7. CASE AddSweep
  BY <1>7 DEF AddSweep, CanSweep, dbVars, chainVars
<1>8. CASE SetStatePreimageRevealed
  BY <1>8 DEF SetStatePreimageRevealed, loopVars, dbVars, batchVars, chainVars
<1>9. CASE PushPreimage
  BY <1>9 DEF PushPreimage, Fault, loopVars, dbVars, batchVars, chainVars
<1>10. CASE HtlcSpent
  <2>1. cost'.server = cost.server
    BY <1>10 DEF HtlcSpent, SweepSuccessful, Costs
  <2>. QED
    BY <1>10, <2>1 DEF HtlcSpent, SweepSuccessful, loopVars, dbVars,
       batchVars, chainVars
<1>11. CASE PersistOutcome
  BY <1>11 DEF PersistOutcome, loopVars, batchVars, chainVars
<1>12. CASE TemporaryFailure
  BY <1>12 DEF TemporaryFailure, Fault, loopVars, dbVars, batchVars, chainVars
<1>13. CASE Stop
  BY <1>13 DEF Stop, Fault, StopDaemon, dbVars, chainVars
<1>14. CASE SetStatePreimageRevealedFails
  BY <1>14 DEF SetStatePreimageRevealedFails, Fault, loopVars, dbVars,
     batchVars, chainVars
<1>15. CASE OutcomeUpdateFails
  BY <1>15 DEF OutcomeUpdateFails, Fault, loopVars, batchVars, chainVars
<1>16. CASE HandleSweeps
  BY <1>16 DEF HandleSweeps, swapUnchanged, chainVars, loopVars, dbVars
<1>17. CASE PublishBatch
  BY <1>17 DEF PublishBatch, swapUnchanged, chainVars, loopVars, dbVars
<1>18. CASE SweepConfirms
  BY <1>18 DEF SweepConfirms, swapUnchanged, batchVars, loopVars, dbVars
<1>19. CASE NewBlock
  BY <1>19 DEF NewBlock, swapUnchanged, batchVars, loopVars, dbVars
<1>20. CASE ServerPublishesHtlc
  BY <1>20 DEF ServerPublishesHtlc, swapUnchanged, batchVars, loopVars, dbVars
<1>21. CASE ServerRevokesHtlc
  BY <1>21 DEF ServerRevokesHtlc, swapUnchanged, batchVars, loopVars, dbVars
<1>22. CASE OperatorRestarts
  BY <1>22 DEF OperatorRestarts, StopDaemon, IsPending, dbVars, chainVars
<1>23. CASE Resume
  BY <1>23 DEF Resume, ResumedCost, dbVars, batchVars, chainVars, IsPending,
     NoCost
<1>24. CASE Finished
  BY <1>24 DEF Finished, vars, IsFinal, loopVars, dbVars, batchVars, chainVars
<1>25. CASE \E i \in Invoices : PaymentWhileWaiting(i)
  <2>1. PICK i \in Invoices : PaymentWhileWaiting(i)
    BY <1>25
  <2>. QED
    BY <2>1 DEF PaymentWhileWaiting, HandlePaymentResult, loopVars, dbVars,
       batchVars, chainVars
<1>26. CASE \E i \in Invoices : PaymentAfterOutcome(i)
  <2>1. PICK i \in Invoices : PaymentAfterOutcome(i)
    BY <1>26
  <2>. QED
    BY <2>1 DEF PaymentAfterOutcome, HandlePaymentResult, loopVars, dbVars,
       batchVars, chainVars
<1>27. CASE \E i \in Invoices : SendPayment(i)
  <2>1. PICK i \in Invoices : SendPayment(i)
    BY <1>27
  <2>. QED
    BY <2>1 DEF SendPayment, paymentUnchanged, loopVars, dbVars, batchVars,
       chainVars
<1>28. CASE \E i \in Invoices : PaymentSettled(i)
  <2>1. PICK i \in Invoices : PaymentSettled(i)
    BY <1>28
  <2>. QED
    BY <2>1 DEF PaymentSettled, paymentUnchanged, loopVars, dbVars, batchVars,
       chainVars
<1>29. CASE \E i \in Invoices : PaymentFailed(i)
  <2>1. PICK i \in Invoices : PaymentFailed(i)
    BY <1>29
  <2>. QED
    BY <2>1 DEF PaymentFailed, paymentUnchanged, loopVars, dbVars, batchVars,
       chainVars
<1>30. CASE \E i \in Invoices : PaymentError(i)
  <2>1. PICK i \in Invoices : PaymentError(i)
    BY <1>30
  <2>. QED
    BY <2>1 DEF PaymentError, Fault, paymentUnchanged, loopVars, dbVars,
       batchVars, chainVars
<1>31. CASE \E i \in Invoices : RetryPayment(i)
  <2>1. PICK i \in Invoices : RetryPayment(i)
    BY <1>31
  <2>. QED
    BY <2>1 DEF RetryPayment, Fault, paymentUnchanged, loopVars, dbVars,
       batchVars, chainVars
<1>32. CASE \E i \in Invoices : ServerSettles(i)
  <2>1. PICK i \in Invoices : ServerSettles(i)
    BY <1>32
  <2>. QED
    BY <2>1 DEF ServerSettles, swapUnchanged, batchVars, chainVars, Revealed,
       loopVars, dbVars
<1>33. CASE \E i \in Invoices : PaymentFails(i)
  <2>1. PICK i \in Invoices : PaymentFails(i)
    BY <1>33
  <2>. QED
    BY <2>1 DEF PaymentFails, swapUnchanged, batchVars, chainVars, loopVars,
       dbVars
<1>34. CASE UNCHANGED vars
  BY <1>34 DEF vars, loopVars, dbVars, batchVars, chainVars
<1>. QED
  BY <1>1, <1>2, <1>3, <1>4, <1>5, <1>6, <1>7, <1>8, <1>9, <1>10, <1>11,
     <1>12, <1>13, <1>14, <1>15, <1>16, <1>17, <1>18, <1>19, <1>20, <1>21,
     <1>22, <1>23, <1>24, <1>25, <1>26, <1>27, <1>28, <1>29, <1>30, <1>31,
     <1>32, <1>33, <1>34 DEF Next, SwapStep, PaymentStep, FailureStep, EnvStep

-----------------------------------------------------------------------------
\* Inv is an invariant of the loop-out.
THEOREM InvHolds == Spec => []Inv
<1>1. Init => Inv
  <2>. SUFFICES ASSUME Init PROVE Inv
    OBVIOUS
  <2>1. /\ timer \in BOOLEAN /\ paymentComplete \in BOOLEAN
        /\ notifier \in BOOLEAN /\ sweepTx \in BOOLEAN
        /\ onChain \in BOOLEAN /\ valueOK \in BOOLEAN
        /\ pushed \in BOOLEAN
    BY Zenon DEF Init
  <2>2. cost \in Costs /\ dbCost \in Costs
    BY DEF Init, NoCost, Costs
  <2>3. TypeOK
    BY <2>1, <2>2 DEF Init, TypeOK, Pcs, Invoices, ChanStates, PayStates,
       HtlcStates, SwapState, PendingStates, FinalStates
  <2>4. Secret /\ Stored /\ Reports /\ Outcomes
    BY DEF Init, Exposed, Secret, Stored, Reports, Outcomes, Revealed,
       PublicStates, Invoices
  <2>5. Counts
    BY DEF Init, NoCost, Counts, Invoices
  <2>. QED
    BY <2>3, <2>4, <2>5 DEF Inv
<1>. QED
  BY <1>1, SafetyStep, PTL DEF Spec

\* The loop-out is type correct.
THEOREM TypeCorrect == Spec => []TypeOK
  BY InvHolds, PTL DEF Inv

\* The preimage only leaves the client, and the swap payment is only settled,
\* for a confirmed htlc of the full amount, whatever fails and restarts.
THEOREM RevealSafe == Spec => []RevealedOnlyForHtlc
<1>1. Inv => RevealedOnlyForHtlc
  BY DEF Inv, Exposed, Secret, Revealed, RevealedOnlyForHtlc
<1>. QED
  BY <1>1, InvHolds, PTL

\* The preimage is only pushed to the server once its revelation is stored.
THEOREM PushSafe == Spec => []PushedOnlyStored
<1>1. Inv => PushedOnlyStored
  BY DEF Inv, Stored, PublicStates, PushedOnlyStored
<1>. QED
  BY <1>1, InvHolds, PTL

\* The stored outcome agrees with what happened to the htlc.
THEOREM OutcomeCorrect == Spec => []OutcomeMatchesSpend
<1>1. Inv => OutcomeMatchesSpend
  BY DEF Inv, Exposed, Secret, Outcomes, Revealed, OutcomeMatchesSpend
<1>. QED
  BY <1>1, InvHolds, PTL

\* The swap payment is counted at most once, and only when it was settled.
THEOREM CostCorrect == Spec => []PaymentCountedOnce
<1>1. Inv => PaymentCountedOnce
  BY DEF Inv, Counts, PaymentCountedOnce
<1>. QED
  BY <1>1, InvHolds, PTL

\* What StoredRevealIsKept says of one step.
Kept ==
    /\ IsFinal(dbState) => dbState' = dbState
    /\ dbState = "PreimageRevealed"
         => dbState' \in {"PreimageRevealed", "Success", "FailSweepTimeout"}
    /\ dbState' = "Initiated" => dbState = "Initiated"
    /\ dbState' # "FailTemporary"

\* A stored revelation is never forgotten, and a final state never changed.
THEOREM RevealKept == Spec => StoredRevealIsKept
<1>1. Inv /\ [Next]_vars => [Kept]_vars
  <2>. SUFFICES ASSUME Inv, [Next]_vars PROVE Kept
    OBVIOUS
  <2>. USE DEF Inv, Stored, Reports, PublicStates, Kept, IsFinal, IsPending,
              PendingStates
  <2>1. CASE Start
    BY <2>1 DEF Start, MaxRevealHeightExceeded, loopVars, dbVars, batchVars,
       chainVars
  <2>2. CASE BlockWhileWaiting
    BY <2>2 DEF BlockWhileWaiting, MaxRevealHeightExceeded, loopVars, dbVars,
       batchVars, chainVars
  <2>3. CASE HtlcConfirmed
    BY <2>3 DEF HtlcConfirmed, ValueSufficient, loopVars, dbVars, batchVars,
       chainVars
  <2>4. CASE BlockWhileSweeping
    BY <2>4 DEF BlockWhileSweeping, dbVars, batchVars, chainVars
  <2>5. CASE TrackPayment
    BY <2>5 DEF TrackPayment, dbVars, batchVars, chainVars
  <2>6. CASE SweepTimedOut
    BY <2>6 DEF SweepTimedOut, Fault, CanSweep, dbVars, batchVars, chainVars
  <2>7. CASE AddSweep
    BY <2>7 DEF AddSweep, CanSweep, dbVars, chainVars
  <2>8. CASE SetStatePreimageRevealed
    BY <2>8 DEF SetStatePreimageRevealed, loopVars, dbVars, batchVars,
       chainVars
  <2>9. CASE PushPreimage
    BY <2>9 DEF PushPreimage, Fault, loopVars, dbVars, batchVars, chainVars
  <2>10. CASE HtlcSpent
    BY <2>10 DEF HtlcSpent, SweepSuccessful, loopVars, dbVars, batchVars,
       chainVars
  <2>11. CASE PersistOutcome
    BY <2>11 DEF PersistOutcome, loopVars, batchVars, chainVars
  <2>12. CASE TemporaryFailure
    BY <2>12 DEF TemporaryFailure, Fault, loopVars, dbVars, batchVars,
       chainVars
  <2>13. CASE Stop
    BY <2>13 DEF Stop, Fault, StopDaemon, dbVars, chainVars
  <2>14. CASE SetStatePreimageRevealedFails
    BY <2>14 DEF SetStatePreimageRevealedFails, Fault, loopVars, dbVars,
       batchVars, chainVars
  <2>15. CASE OutcomeUpdateFails
    BY <2>15 DEF OutcomeUpdateFails, Fault, loopVars, batchVars, chainVars
  <2>16. CASE HandleSweeps
    BY <2>16 DEF HandleSweeps, swapUnchanged, chainVars, loopVars, dbVars
  <2>17. CASE PublishBatch
    BY <2>17 DEF PublishBatch, swapUnchanged, chainVars, loopVars, dbVars
  <2>18. CASE SweepConfirms
    BY <2>18 DEF SweepConfirms, swapUnchanged, batchVars, loopVars, dbVars
  <2>19. CASE NewBlock
    BY <2>19 DEF NewBlock, swapUnchanged, batchVars, loopVars, dbVars
  <2>20. CASE ServerPublishesHtlc
    BY <2>20 DEF ServerPublishesHtlc, swapUnchanged, batchVars, loopVars,
       dbVars
  <2>21. CASE ServerRevokesHtlc
    BY <2>21 DEF ServerRevokesHtlc, swapUnchanged, batchVars, loopVars, dbVars
  <2>22. CASE OperatorRestarts
    BY <2>22 DEF OperatorRestarts, StopDaemon, IsPending, dbVars, chainVars
  <2>23. CASE Resume
    BY <2>23 DEF Resume, ResumedCost, dbVars, batchVars, chainVars, IsPending,
       NoCost
  <2>24. CASE Finished
    BY <2>24 DEF Finished, vars, IsFinal, loopVars, dbVars, batchVars,
       chainVars
  <2>25. CASE \E i \in Invoices : PaymentWhileWaiting(i)
    <3>1. PICK i \in Invoices : PaymentWhileWaiting(i)
      BY <2>25
    <3>. QED
      BY <3>1 DEF PaymentWhileWaiting, HandlePaymentResult, loopVars, dbVars,
         batchVars, chainVars
  <2>26. CASE \E i \in Invoices : PaymentAfterOutcome(i)
    <3>1. PICK i \in Invoices : PaymentAfterOutcome(i)
      BY <2>26
    <3>. QED
      BY <3>1 DEF PaymentAfterOutcome, HandlePaymentResult, loopVars, dbVars,
         batchVars, chainVars
  <2>27. CASE \E i \in Invoices : SendPayment(i)
    <3>1. PICK i \in Invoices : SendPayment(i)
      BY <2>27
    <3>. QED
      BY <3>1 DEF SendPayment, paymentUnchanged, loopVars, dbVars, batchVars,
         chainVars
  <2>28. CASE \E i \in Invoices : PaymentSettled(i)
    <3>1. PICK i \in Invoices : PaymentSettled(i)
      BY <2>28
    <3>. QED
      BY <3>1 DEF PaymentSettled, paymentUnchanged, loopVars, dbVars,
         batchVars, chainVars
  <2>29. CASE \E i \in Invoices : PaymentFailed(i)
    <3>1. PICK i \in Invoices : PaymentFailed(i)
      BY <2>29
    <3>. QED
      BY <3>1 DEF PaymentFailed, paymentUnchanged, loopVars, dbVars,
         batchVars, chainVars
  <2>30. CASE \E i \in Invoices : PaymentError(i)
    <3>1. PICK i \in Invoices : PaymentError(i)
      BY <2>30
    <3>. QED
      BY <3>1 DEF PaymentError, Fault, paymentUnchanged, loopVars, dbVars,
         batchVars, chainVars
  <2>31. CASE \E i \in Invoices : RetryPayment(i)
    <3>1. PICK i \in Invoices : RetryPayment(i)
      BY <2>31
    <3>. QED
      BY <3>1 DEF RetryPayment, Fault, paymentUnchanged, loopVars, dbVars,
         batchVars, chainVars
  <2>32. CASE \E i \in Invoices : ServerSettles(i)
    <3>1. PICK i \in Invoices : ServerSettles(i)
      BY <2>32
    <3>. QED
      BY <3>1 DEF ServerSettles, swapUnchanged, batchVars, chainVars,
         Revealed, loopVars, dbVars
  <2>33. CASE \E i \in Invoices : PaymentFails(i)
    <3>1. PICK i \in Invoices : PaymentFails(i)
      BY <2>33
    <3>. QED
      BY <3>1 DEF PaymentFails, swapUnchanged, batchVars, chainVars, loopVars,
         dbVars
  <2>34. CASE UNCHANGED vars
    BY <2>34 DEF vars, loopVars, dbVars, batchVars, chainVars
  <2>. QED
    BY <2>1, <2>2, <2>3, <2>4, <2>5, <2>6, <2>7, <2>8, <2>9, <2>10, <2>11,
       <2>12, <2>13, <2>14, <2>15, <2>16, <2>17, <2>18, <2>19, <2>20, <2>21,
       <2>22, <2>23, <2>24, <2>25, <2>26, <2>27, <2>28, <2>29, <2>30, <2>31,
       <2>32, <2>33, <2>34 DEF Next, SwapStep, PaymentStep, FailureStep,
       EnvStep
<1>. QED
  BY <1>1, InvHolds, PTL DEF Spec, StoredRevealIsKept, Kept

-----------------------------------------------------------------------------
(* The payments and the routing plugin *)

\* Nothing of the plugin's doing.
Clean(m) == \A n \in Nodes : m[n] \in Own /\ (n \in Known => m[n] = "entry")

Holder ==
    /\ \A p \in Payers : held[p] => /\ routingPluginInstance = p
                                    /\ phase[p] \in {"before", "pay", "return"}
                                    /\ mcState[p] \in [Nodes -> Entries]
    /\ routingPluginInstance # Nobody => held[routingPluginInstance]

Undoable ==
    ~lost =>
        /\ \A p \in Payers : held[p] => Clean(mcState[p])
        /\ \/ Clean(mc)
           \/ /\ routingPluginInstance # Nobody
              /\ mcChanged[routingPluginInstance]
              /\ \E n \in Nodes : mc[n] \notin Own

PaymentsInv == PaymentsTypeOK /\ Holder /\ Undoable

\* What the plugin imports has a type, and shows in mission control.
LEMMA ImportShows ==
    ASSUME NEW D
    PROVE  /\ Import(D) \in [Nodes -> Entries]
           /\ \E n \in Nodes : Import(D)[n] \notin Own
  <1>1. Import(D) \in [Nodes -> Entries]
    BY DEF Import, Entries
  <1>2. PICK n \in Nodes : TRUE
    BY NodesAssumption
  <1>3. Import(D)[n] \notin Own
    BY DEF Import, Own
  <1>4. QED
    BY <1>1, <1>3

\* A saved state is not nil.
LEMMA SavedNotNil ==
    ASSUME NEW m \in [Nodes -> Entries]
    PROVE  m # Nil
  BY NodesAssumption DEF Nil

\* Done puts a clean state back if it saved one.
LEMMA RestoredClean ==
    ASSUME NEW q \in Payers, mcState[q] \in [Nodes -> Entries]
    PROVE  /\ Restored(q) \in [Nodes -> Entries]
           /\ Clean(mcState[q]) => Clean(Restored(q))
  BY DEF Restored, Clean, Own, Entries

\* The timeouts and numbers of retries that payInvoice computes are naturals.
LEMMA PrepareTypes ==
    ASSUME NEW p \in Payers, NEW plugin \in BOOLEAN
    PROVE  Timeout(p, plugin) \in Nat /\ Retries(p, plugin) \in Nat
  <1>1. Timeout(p, plugin) \in Nat
    BY TimeoutAssumption DEF Timeout
  <1>2. Timeout(p, plugin) # 0 => TotalPaymentTimeout \div Timeout(p, plugin) \in Nat
    BY <1>1, TimeoutAssumption
  <1>3. Timeout(p, plugin) * MaxPaymentRetries > TotalPaymentTimeout
            => Timeout(p, plugin) # 0
    BY <1>1, TimeoutAssumption
  <1>4. QED
    BY <1>1, <1>2, <1>3, TimeoutAssumption DEF Retries

\* Every step keeps the types of the variables.
LEMMA PaymentsTypeStep ==
    ASSUME PaymentsInv, [NextPayment]_paymentVars
    PROVE  PaymentsTypeOK'
  <1> USE DEF PaymentsInv, PaymentsTypeOK, paymentVars, payVars, mcVars
  <1>1. CASE UNCHANGED paymentVars
    BY <1>1
  <1>2. ASSUME NEW p \in Payers, AcquireRoutingPlugin(p) PROVE PaymentsTypeOK'
    BY <1>2, PrepareTypes DEF AcquireRoutingPlugin, InitPlugin, Prepare
  <1>3. ASSUME NEW p \in Payers, WithoutPlugin(p) PROVE PaymentsTypeOK'
    BY <1>3, PrepareTypes DEF WithoutPlugin, Prepare
  <1>4. ASSUME NEW p \in Payers, PayInvoiceFails(p) PROVE PaymentsTypeOK'
    BY <1>4 DEF PayInvoiceFails
  <1>5. ASSUME NEW p \in Payers, BeforePayment(p) PROVE PaymentsTypeOK'
    <2> DEFINE D == Discouraged(try[p], retries[p])
    <2>1. Import(D) \in [Nodes -> Entries]
      BY ImportShows
    <2>2. lost' \in BOOLEAN /\ mc' \in [Nodes -> Entries]
      BY <1>5, <2>1, Zenon DEF BeforePayment
    <2>3. interruptions' \in 0..MaxInterruptions
      BY <1>5, TimeoutAssumption DEF BeforePayment, Interrupted
    <2>4. QED
      BY <1>5, <2>2, <2>3 DEF BeforePayment
  <1>6. ASSUME NEW p \in Payers, AwaitSendPayment(p) PROVE PaymentsTypeOK'
    BY <1>6 DEF AwaitSendPayment
  <1>7. ASSUME NEW p \in Payers, ReleaseRoutingPlugin(p) PROVE PaymentsTypeOK'
    <2> DEFINE q == routingPluginInstance
    <2>1. q # Nobody => q \in Payers /\ mcState[q] \in [Nodes -> Entries]
      BY DEF Holder
    <2>2. q # Nobody => Restored(q) \in [Nodes -> Entries]
      BY <2>1, RestoredClean
    <2>3. mc' \in [Nodes -> Entries]
      BY <1>7, <2>2 DEF ReleaseRoutingPlugin, Done
    <2>4. lost' \in BOOLEAN
      BY <1>7, Zenon DEF ReleaseRoutingPlugin, Done
    <2>5. interruptions' \in 0..MaxInterruptions
      BY <1>7, TimeoutAssumption DEF ReleaseRoutingPlugin, Done, Interrupted
    <2>6. mcState' \in [Payers -> [Nodes -> Entries] \cup {Nil}]
      BY <1>7, <2>1 DEF ReleaseRoutingPlugin, Done
    <2>7. QED
      BY <1>7, <2>3, <2>4, <2>5, <2>6 DEF ReleaseRoutingPlugin
  <1>8. CASE Crash
    <2>1. lost' \in BOOLEAN
      BY <1>8, Zenon DEF Crash
    <2>2. interruptions' \in 0..MaxInterruptions
      BY <1>8, TimeoutAssumption DEF Crash, Interrupted
    <2>3. QED
      BY <1>8, <2>1, <2>2 DEF Crash
  <1>9. QED
    BY <1>1, <1>2, <1>3, <1>4, <1>5, <1>6, <1>7, <1>8 DEF NextPayment

\* Every step keeps the plugin with the payment that was given it.
LEMMA HolderStep ==
    ASSUME PaymentsInv, [NextPayment]_paymentVars
    PROVE  Holder'
  <1> USE PayersAssumption DEF PaymentsInv, PaymentsTypeOK, Holder, paymentVars, payVars, mcVars
  <1>1. CASE UNCHANGED paymentVars
    BY <1>1
  <1>2. ASSUME NEW p \in Payers, AcquireRoutingPlugin(p) PROVE Holder'
    BY <1>2 DEF AcquireRoutingPlugin, InitPlugin, Prepare
  <1>3. ASSUME NEW p \in Payers, WithoutPlugin(p) PROVE Holder'
    BY <1>3 DEF WithoutPlugin, Prepare
  <1>4. ASSUME NEW p \in Payers, PayInvoiceFails(p) PROVE Holder'
    BY <1>4 DEF PayInvoiceFails
  <1>5. ASSUME NEW p \in Payers, BeforePayment(p) PROVE Holder'
    BY <1>5 DEF BeforePayment
  <1>6. ASSUME NEW p \in Payers, AwaitSendPayment(p) PROVE Holder'
    BY <1>6 DEF AwaitSendPayment
  <1>7. ASSUME NEW p \in Payers, ReleaseRoutingPlugin(p) PROVE Holder'
    BY <1>7 DEF ReleaseRoutingPlugin, Done, Deferred
  <1>8. CASE Crash
    BY <1>8 DEF Crash
  <1>9. QED
    BY <1>1, <1>2, <1>3, <1>4, <1>5, <1>6, <1>7, <1>8 DEF NextPayment

\* Every step keeps mission control clean, or changed by a plugin that can undo it.
LEMMA UndoableStep ==
    ASSUME PaymentsInv, [NextPayment]_paymentVars
    PROVE  Undoable'
  <1> USE PayersAssumption DEF PaymentsInv, PaymentsTypeOK, Holder, Undoable, paymentVars, payVars, mcVars
  <1>1. CASE UNCHANGED paymentVars
    BY <1>1 DEF Clean
  <1>2. ASSUME NEW p \in Payers, AcquireRoutingPlugin(p) PROVE Undoable'
    BY <1>2 DEF AcquireRoutingPlugin, InitPlugin, Prepare, Clean
  <1>3. ASSUME NEW p \in Payers, WithoutPlugin(p) PROVE Undoable'
    BY <1>3 DEF WithoutPlugin, Prepare, Clean
  <1>4. ASSUME NEW p \in Payers, PayInvoiceFails(p) PROVE Undoable'
    BY <1>4 DEF PayInvoiceFails, Clean
  <1>5. ASSUME NEW p \in Payers, BeforePayment(p) PROVE Undoable'
    <2> DEFINE D == Discouraged(try[p], retries[p])
    <2>1. \E n \in Nodes : Import(D)[n] \notin Own
      BY ImportShows
    <2>2. CASE UNCHANGED <<mc, mcState, mcChanged, routingPluginInstance, lost, held>>
      BY <2>2 DEF Clean
    <2>3. CASE /\ held[p] /\ mc' = Import(D)
               /\ mcChanged'[p] = TRUE \/ lost' = TRUE
               /\ lost => lost'
               /\ UNCHANGED <<mcState, routingPluginInstance, held>>
      BY <2>1, <2>3 DEF Clean
    <2>4. QED
      BY <1>5, <2>2, <2>3 DEF BeforePayment
  <1>6. ASSUME NEW p \in Payers, AwaitSendPayment(p) PROVE Undoable'
    BY <1>6 DEF AwaitSendPayment, Clean
  <1>7. ASSUME NEW p \in Payers, ReleaseRoutingPlugin(p) PROVE Undoable'
    <2> DEFINE q == routingPluginInstance
    <2>1. CASE held[p]
      <3>1. q = p /\ p # Nobody /\ mcState[p] \in [Nodes -> Entries]
        BY <2>1
      <3>2. mcState[p] # Nil
        BY <3>1, SavedNotNil
      <3>3. Clean(mcState[p]) => Clean(Restored(p))
        BY <3>1, RestoredClean
      <3>4. \A r \in Payers : ~held'[r]
        BY <1>7, <2>1 DEF ReleaseRoutingPlugin
      <3>5. ~lost' => Clean(mc')
        BY <1>7, <2>1, <3>1, <3>2, <3>3 DEF ReleaseRoutingPlugin, Done, Deferred
      <3>6. Clean(mc)' <=> Clean(mc')
        BY DEF Clean
      <3>7. QED
        BY <3>4, <3>5, <3>6
    <2>2. CASE ~held[p]
      BY <1>7, <2>2 DEF ReleaseRoutingPlugin, Deferred, Clean
    <2>3. QED
      BY <2>1, <2>2
  <1>8. CASE Crash
    <2>1. \A r \in Payers : ~held'[r]
      BY <1>8 DEF Crash
    <2>2. ~lost' => ~lost /\ \A n \in Nodes : mc[n] \in Own
      BY <1>8 DEF Crash
    <2>3. ~lost' => Clean(mc)
      BY <2>2
    <2>4. ~lost' => Clean(mc)'
      BY <1>8, <2>3 DEF Crash, Clean
    <2>5. QED
      BY <2>1, <2>4
  <1>9. QED
    BY <1>1, <1>2, <1>3, <1>4, <1>5, <1>6, <1>7, <1>8 DEF NextPayment

\* The inductive invariant holds throughout (payInvoice, AcquireRoutingPlugin,
\* ReleaseRoutingPlugin).
THEOREM PluginHeldOnce == PaymentsSpec => []PaymentsInv
  <1>1. InitPayments => PaymentsInv
    <2> SUFFICES ASSUME InitPayments PROVE PaymentsInv
      OBVIOUS
    <2>1. PaymentsTypeOK
      <3>1. mc \in [Nodes -> Entries]
        BY DEF InitPayments, Entries, Own
      <3>2. interruptions \in 0..MaxInterruptions
        BY TimeoutAssumption DEF InitPayments
      <3>3. lost \in BOOLEAN
        BY DEF InitPayments
      <3>4. mcState \in [Payers -> [Nodes -> Entries] \cup {Nil}]
        BY DEF InitPayments
      <3>5. QED
        BY <3>1, <3>2, <3>3, <3>4 DEF InitPayments, PaymentsTypeOK
    <2>2. Holder
      BY DEF InitPayments, Holder
    <2>3. Clean(mc)
      BY DEF InitPayments, Clean, Own
    <2>4. QED
      BY <2>1, <2>2, <2>3 DEF PaymentsInv, Undoable, InitPayments
  <1>2. PaymentsInv /\ [NextPayment]_paymentVars => PaymentsInv'
    BY PaymentsTypeStep, HolderStep, UndoableStep DEF PaymentsInv
  <1>3. QED
    BY <1>1, <1>2, PTL DEF PaymentsSpec

\* When no payment has the plugin, mission control is as the plugins found it,
\* however many payments run and however they end (ReleaseRoutingPlugin, Done).
THEOREM MissionControlIsRestored == PaymentsSpec => []MissionControlRestored
  <1>1. PaymentsInv => MissionControlRestored
    BY DEF PaymentsInv, Undoable, Clean, MissionControlRestored
  <1>2. QED
    BY <1>1, PluginHeldOnce, PTL
-----------------------------------------------------------------------------
(* Timeouts *)

\* The attempts that are over fit into the retries, and the retries into the total.
Paced ==
    \A p \in Payers :
        /\ retries[p] * timeout[p] <= TotalPaymentTimeout
        /\ phase[p] \in {"before", "pay"} =>
                /\ try[p] \in 1..(retries[p] + 1)
                /\ elapsed[p] <= (try[p] - 1) * timeout[p]
        /\ elapsed[p] <= TotalPaymentTimeout + timeout[p]

\* Multiplication with a natural number is monotonic.
LEMMA TimesMonotonic ==
    ASSUME NEW a \in Nat, NEW b \in Nat, NEW t \in Nat, a <= b
    PROVE  a * t <= b * t
  <1>1. b * t = a * t + (b - a) * t
    OBVIOUS
  <1>2. (b - a) * t >= 0
    OBVIOUS
  <1>3. a * t \in Nat /\ b * t \in Nat /\ (b - a) * t \in Int
    OBVIOUS
  <1>4. QED
    BY <1>1, <1>2, <1>3

\* A quotient times its divisor is at most the dividend.
LEMMA DivTimes ==
    ASSUME NEW a \in Nat, NEW b \in Nat \ {0}
    PROVE  a \div b \in Nat /\ (a \div b) * b <= a
  <1>1. a = b * (a \div b) + (a % b) /\ a % b \in 0..(b - 1)
    OBVIOUS
  <1>2. a \div b \in Nat
    OBVIOUS
  <1>3. b * (a \div b) = (a \div b) * b
    BY <1>2
  <1>4. QED
    BY <1>1, <1>2, <1>3

\* payInvoice adjusts the retries so that they fit into the total timeout.
LEMMA RetriesFit ==
    ASSUME NEW p \in Payers, NEW plugin \in BOOLEAN
    PROVE  Retries(p, plugin) * Timeout(p, plugin) <= TotalPaymentTimeout
  <1> DEFINE t == Timeout(p, plugin)
  <1>1. t \in Nat
    BY PrepareTypes
  <1>2. CASE ~plugin
    <2>1. t <= TotalPaymentTimeout
      BY <1>2, TimeoutAssumption DEF Timeout
    <2>2. Retries(p, plugin) = 1
      BY <1>2 DEF Retries
    <2>3. QED
      BY <1>1, <2>1, <2>2
  <1>3. CASE plugin /\ t * MaxPaymentRetries > TotalPaymentTimeout
    <2>1. t # 0
      <3> HIDE DEF t
      <3>1. 0 * MaxPaymentRetries = 0
        BY TimeoutAssumption
      <3>2. QED
        BY <1>3, <3>1, TimeoutAssumption
    <2>2. Retries(p, plugin) = TotalPaymentTimeout \div t
      BY <1>3 DEF Retries
    <2> HIDE DEF t
    <2>3. (TotalPaymentTimeout \div t) * t <= TotalPaymentTimeout
      BY <1>1, <2>1, DivTimes, TimeoutAssumption
    <2>4. QED
      BY <2>2, <2>3 DEF t
  <1>4. CASE plugin /\ ~(t * MaxPaymentRetries > TotalPaymentTimeout)
    <2>1. Retries(p, plugin) = MaxPaymentRetries
      BY <1>4 DEF Retries
    <2> HIDE DEF t
    <2>2. t * MaxPaymentRetries = MaxPaymentRetries * t
      BY <1>1, TimeoutAssumption
    <2>3. MaxPaymentRetries * t <= TotalPaymentTimeout
      BY <1>1, <1>4, <2>2, TimeoutAssumption
    <2>4. QED
      BY <2>1, <2>3 DEF t
  <1>5. QED
    BY <1>2, <1>3, <1>4

\* Every step keeps the attempts within their time.
LEMMA PacedStep ==
    ASSUME PaymentsTypeOK, Paced, [NextPayment]_paymentVars
    PROVE  Paced'
  <1> USE TimeoutAssumption DEF PaymentsTypeOK, paymentVars, payVars, mcVars
  <1>1. CASE UNCHANGED paymentVars
    BY <1>1 DEF Paced
  <1>2. ASSUME NEW p \in Payers, NEW plugin \in BOOLEAN, Prepare(p, plugin)
        PROVE  Paced'
    <2> DEFINE t == Timeout(p, plugin)
               r == Retries(p, plugin)
    <2>1. t \in Nat /\ r \in Nat /\ r * t <= TotalPaymentTimeout
      BY PrepareTypes, RetriesFit
    <2>2. /\ timeout'[p] = t /\ retries'[p] = r /\ try'[p] = 1 /\ elapsed'[p] = 0
          /\ \A q \in Payers \ {p} :
                /\ timeout'[q] = timeout[q] /\ retries'[q] = retries[q]
                /\ try'[q] = try[q] /\ elapsed'[q] = elapsed[q] /\ phase'[q] = phase[q]
      BY <1>2 DEF Prepare
    <2> HIDE DEF t, r
    <2>3. (1 - 1) * t = 0
      BY <2>1
    <2>4. QED
      BY <2>1, <2>2, <2>3 DEF Paced
  <1>3. ASSUME NEW p \in Payers, AcquireRoutingPlugin(p) PROVE Paced'
    BY <1>2, <1>3 DEF AcquireRoutingPlugin
  <1>4. ASSUME NEW p \in Payers, WithoutPlugin(p) PROVE Paced'
    BY <1>2, <1>4 DEF WithoutPlugin
  <1>5. ASSUME NEW p \in Payers, PayInvoiceFails(p) PROVE Paced'
    BY <1>5 DEF PayInvoiceFails, Paced
  <1>6. ASSUME NEW p \in Payers, BeforePayment(p) PROVE Paced'
    <2>1. /\ phase'[p] \in {"pay", "return"} /\ phase[p] = "before"
          /\ \A q \in Payers \ {p} : phase'[q] = phase[q]
          /\ UNCHANGED <<try, retries, timeout, elapsed>>
      BY <1>6 DEF BeforePayment
    <2>2. QED
      BY <2>1 DEF Paced
  <1>7. ASSUME NEW p \in Payers, AwaitSendPayment(p) PROVE Paced'
    <2> DEFINE t == timeout[p]
               r == retries[p]
    <2>1. /\ t \in Nat /\ r \in Nat /\ r * t <= TotalPaymentTimeout
          /\ try[p] \in 1..(r + 1) /\ elapsed[p] \in Nat
          /\ elapsed[p] <= (try[p] - 1) * t
      BY <1>7 DEF AwaitSendPayment, Paced
    <2>2. /\ elapsed'[p] = elapsed[p] + t
          /\ phase'[p] = "before" => try[p] <= r /\ try'[p] = try[p] + 1
          /\ phase'[p] # "pay"
          /\ UNCHANGED <<retries, timeout>>
          /\ \A q \in Payers \ {p} :
                elapsed'[q] = elapsed[q] /\ try'[q] = try[q] /\ phase'[q] = phase[q]
      BY <1>7 DEF AwaitSendPayment
    <2>3. try[p] - 1 \in Nat /\ try[p] - 1 <= r
      BY <2>1
    <2>4. (try[p] - 1) * t <= r * t
      BY <2>1, <2>3, TimesMonotonic
    <2>5. (try[p] - 1) * t + t = try[p] * t
      <3> HIDE DEF t
      <3>1. ASSUME NEW a \in Nat, NEW b \in Nat PROVE (a - 1) * b + b = a * b
        OBVIOUS
      <3>2. QED
        BY <2>1, <3>1
    <2>6. elapsed'[p] <= TotalPaymentTimeout + t
      <3> HIDE DEF t, r
      <3>1. (try[p] - 1) * t \in Int /\ r * t \in Int
        BY <2>1, <2>3
      <3>2. QED
        BY <2>1, <2>2, <2>4, <3>1
    <2>7. phase'[p] = "before" => /\ try'[p] \in 1..(r + 1)
                               /\ elapsed'[p] <= (try'[p] - 1) * t
      <3> HIDE DEF t, r
      <3>1. (try[p] - 1) * t \in Int /\ try[p] * t \in Int
        BY <2>1, <2>3
      <3>2. elapsed'[p] <= try[p] * t
        BY <2>1, <2>2, <2>5, <3>1
      <3>3. phase'[p] = "before" => try'[p] - 1 = try[p] /\ try'[p] \in 1..(r + 1)
        BY <2>1, <2>2
      <3>4. QED
        BY <3>2, <3>3
    <2>8. ASSUME NEW q \in Payers
          PROVE  /\ retries'[q] * timeout'[q] <= TotalPaymentTimeout
                 /\ phase'[q] \in {"before", "pay"} =>
                        /\ try'[q] \in 1..(retries'[q] + 1)
                        /\ elapsed'[q] <= (try'[q] - 1) * timeout'[q]
                 /\ elapsed'[q] <= TotalPaymentTimeout + timeout'[q]
      <3>1. CASE q = p
        BY <2>1, <2>2, <2>6, <2>7, <3>1
      <3>2. CASE q # p
        BY <2>2, <3>2 DEF Paced
      <3>3. QED
        BY <3>1, <3>2
    <2>9. QED
      BY <2>8 DEF Paced
  <1>8. ASSUME NEW p \in Payers, ReleaseRoutingPlugin(p) PROVE Paced'
    BY <1>8 DEF ReleaseRoutingPlugin, Paced
  <1>9. CASE Crash
    BY <1>9 DEF Crash, Paced
  <1>10. QED
    BY <1>1, <1>3, <1>4, <1>5, <1>6, <1>7, <1>8, <1>9 DEF NextPayment

\* No payment takes more than one attempt's timeout longer than the total timeout,
\* whatever timeouts and retries are configured (payInvoice, sendPaymentWithRetry).
THEOREM PaymentsInTime == PaymentsSpec => []TimeoutKept
  <1>1. InitPayments => Paced
    BY TimeoutAssumption DEF InitPayments, Paced
  <1>2. PaymentsInv /\ Paced /\ [NextPayment]_paymentVars => Paced'
    BY PacedStep DEF PaymentsInv
  <1>3. PaymentsInv /\ Paced => TimeoutKept
    BY DEF Paced, TimeoutKept
  <1>4. QED
    BY <1>1, <1>2, <1>3, PluginHeldOnce, PTL DEF PaymentsSpec

-----------------------------------------------------------------------------
(* The threshold rule. *)
=============================================================================
