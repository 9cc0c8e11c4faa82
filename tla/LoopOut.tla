------------------------------- MODULE LoopOut -------------------------------
(***************************************************************************)
(* A loop-out swap (loopout.go): the client pays the swap invoice and a    *)
(* prepayment, the server publishes an on-chain htlc, and the client takes *)
(* it by revealing the preimage, which lets the server settle the swap     *)
(* payment.  The swap's goroutine hands the sweep to the sweep batcher,    *)
(* which keeps its own rows in the database and publishes on its own; the  *)
(* two payments run in goroutines of their own.  The daemon can stop at    *)
(* every step.  It resumes the swap from the stored state, the batcher     *)
(* from its stored sweeps, and lnd keeps the payments.                     *)
(***************************************************************************)
EXTENDS Integers, SwapStates

CONSTANTS
    CltvExpiry,                     \* height at which the server can revoke
    MinLoopOutPreimageRevealDelta,  \* blocks to expiry needed to reveal
    MaxHeight,                      \* higher heights are told apart no more
    MaxFaults                       \* bound on restarts and failing calls

ASSUME CltvExpiryAssumption == CltvExpiry \in Nat
ASSUME RevealDeltaAssumption == MinLoopOutPreimageRevealDelta \in Nat
ASSUME MaxHeightAssumption == MaxHeight \in Nat /\ MaxHeight >= CltvExpiry
ASSUME MaxFaultsAssumption == MaxFaults \in Nat

VARIABLES
    pc,               \* the step the swap's goroutine is at
    \* loopOutSwap and swapKit, in memory
    state,            \* swapKit.state
    sheight,          \* swapKit.height
    cost,             \* swapKit.cost
    chan,             \* swapPaymentChan and prePaymentChan
    \* the locals of waitForHtlcSpendConfirmedV2
    timer,            \* timerChan will fire
    paymentComplete,
    notifier,         \* the batcher holds the notifier of this run
    \* the swap's row in the database
    dbState,
    dbCost,
    \* the sweep batcher
    batch,            \* the sweep: "none", "queued", or "added" and stored
    sweepTx,          \* has a sweep of the htlc been broadcast
    \* lnd, the chain and the server
    valueOK,          \* is the htlc's value at least AmountRequested
    height,
    htlc,             \* the htlc output on chain
    pay,              \* the two payments in lnd
    pushed,           \* the server was sent the preimage
    onChain,          \* a broadcast sweep shows the preimage
    faults

loopVars == <<timer, paymentComplete, notifier>>
dbVars == <<dbState, dbCost>>
batchVars == <<batch, sweepTx, onChain>>
chainVars == <<valueOK, height, htlc>>
vars == <<pc, state, sheight, cost, chan, loopVars, dbVars, batchVars,
          chainVars, pay, pushed, faults>>

-----------------------------------------------------------------------------
(***************************************************************************)
(* Types.  A cost counts how often the swap payment was added to the       *)
(* server's cost, and whether the fee of the sweep is included.            *)
(***************************************************************************)
Pcs == {"start", "waitHtlc", "sweep", "reveal", "push", "payments",
        "stopped", "down", "done"}

Invoices == {"swap", "prepay"}

\* A result channel is nil, or its payment goroutine has not called lnd yet,
\* waits for lnd, or offers a result.
ChanStates == {"nil", "starting", "pending", "succeeded", "failed", "error"}

PayStates == {"none", "inflight", "settled", "failed"}

Costs == [server : Nat, onchain : BOOLEAN]

NoCost == [server |-> 0, onchain |-> FALSE]

HtlcStates == {"none", "confirmed", "swept", "revoked"}

\* The server can settle the swap payment.
Revealed == pushed \/ onChain

-----------------------------------------------------------------------------
\* The swap has just been created and stored by newLoopOutSwap.
Init ==
    /\ pc = "start"
    /\ state = "Initiated"
    /\ sheight = 0
    /\ cost = NoCost
    /\ chan = [i \in Invoices |-> "nil"]
    /\ timer = FALSE
    /\ paymentComplete = FALSE
    /\ notifier = FALSE
    /\ dbState = "Initiated"
    /\ dbCost = NoCost
    /\ batch = "none"
    /\ sweepTx = FALSE
    /\ valueOK \in BOOLEAN
    /\ height = 0
    /\ htlc = "none"
    /\ pay = [i \in Invoices |-> "none"]
    /\ pushed = FALSE
    /\ onChain = FALSE
    /\ faults = 0

\* Failures are bounded; a step that needs one takes it from the budget.
Fault ==
    /\ faults < MaxFaults
    /\ faults' = faults + 1

-----------------------------------------------------------------------------
(***************************************************************************)
(* The payment goroutines (payInvoice).  They outlive the swap's goroutine *)
(* and end with the daemon.                                                *)
(***************************************************************************)
paymentUnchanged ==
    UNCHANGED <<pc, state, sheight, cost, loopVars, dbVars, batchVars,
                chainVars, pushed>>

\* Router.SendPayment starts the payment, or a new attempt of a failed one.
\* For a payment in flight or settled lnd reports it as already paid, and the
\* goroutine tracks it instead.
SendPayment(i) ==
    /\ chan[i] = "starting"
    /\ chan' = [chan EXCEPT ![i] = "pending"]
    /\ pay' = IF pay[i] \in {"none", "failed"} THEN [pay EXCEPT ![i] = "inflight"]
                                              ELSE pay
    /\ paymentUnchanged
    /\ UNCHANGED faults

\* sendPaymentWithRetry tries again after a payment that timed out.
RetryPayment(i) ==
    /\ chan[i] = "pending"
    /\ pay[i] = "failed"
    /\ Fault
    /\ pay' = [pay EXCEPT ![i] = "inflight"]
    /\ paymentUnchanged
    /\ UNCHANGED chan

PaymentSettled(i) ==
    /\ chan[i] = "pending"
    /\ pay[i] = "settled"
    /\ chan' = [chan EXCEPT ![i] = "succeeded"]
    /\ paymentUnchanged
    /\ UNCHANGED <<pay, faults>>

PaymentFailed(i) ==
    /\ chan[i] = "pending"
    /\ pay[i] = "failed"
    /\ chan' = [chan EXCEPT ![i] = "failed"]
    /\ paymentUnchanged
    /\ UNCHANGED <<pay, faults>>

\* Mutant: the goroutine returns on an error without a result.
PaymentErrorUnreported(i) ==
    /\ chan[i] \in {"starting", "pending"}
    /\ Fault
    /\ chan' = [chan EXCEPT ![i] = "lost"]
    /\ paymentUnchanged
    /\ UNCHANGED pay

\* Decoding, the routing plugin or the stream of lnd fails: the goroutine
\* gives up, whatever becomes of the payment.
PaymentError(i) ==
    /\ chan[i] \in {"starting", "pending"}
    /\ Fault
    /\ chan' = [chan EXCEPT ![i] = "error"]
    /\ paymentUnchanged
    /\ UNCHANGED pay

\* handlePaymentResult: only a payment that succeeded changes the costs.
HandlePaymentResult(i) ==
    /\ chan[i] \in {"succeeded", "failed", "error"}
    /\ chan' = [chan EXCEPT ![i] = "nil"]
    /\ cost' = IF i = "swap" /\ chan[i] = "succeeded"
               THEN [cost EXCEPT !.server = @ + 1] ELSE cost

-----------------------------------------------------------------------------
(***************************************************************************)
(* executeSwap up to the confirmation of the htlc.                         *)
(***************************************************************************)

\* checkMaxRevealHeightExceeded.
MaxRevealHeightExceeded(h) == h > CltvExpiry - MinLoopOutPreimageRevealDelta

\* Both invoices are paid again in every run.  A swap that has not revealed
\* the preimage is given up when it is too late to start it.
Start ==
    /\ pc = "start"
    /\ chan' = [i \in Invoices |-> "starting"]
    /\ IF state = "Initiated" /\ MaxRevealHeightExceeded(sheight)
       THEN state' = "FailTimeout" /\ pc' = "payments"
       ELSE pc' = "waitHtlc" /\ UNCHANGED state
    /\ UNCHANGED <<sheight, cost, loopVars, dbVars, batchVars, chainVars, pay,
                   pushed, faults>>

\* waitForConfirmedHtlc: a payment that failed ends the swap (failOffChain).
PaymentWhileWaiting(i) ==
    /\ pc = "waitHtlc"
    /\ state = "Initiated"
    /\ HandlePaymentResult(i)
    /\ IF chan[i] = "succeeded"
       THEN UNCHANGED <<pc, state>>
       ELSE state' = "FailOffchainPayments" /\ pc' = "payments"
    /\ UNCHANGED <<sheight, loopVars, dbVars, batchVars, chainVars, pay,
                   pushed, faults>>

BlockWhileWaiting ==
    /\ pc = "waitHtlc"
    /\ state = "Initiated"
    /\ sheight < height
    /\ sheight' = sheight + 1
    /\ IF MaxRevealHeightExceeded(sheight')
       THEN state' = "FailTimeout" /\ pc' = "payments"
       ELSE UNCHANGED <<pc, state>>
    /\ UNCHANGED <<cost, chan, loopVars, dbVars, batchVars, chainVars, pay,
                   pushed, faults>>

\* Mutant: the value is not checked.
ValueAccepted == TRUE

\* The value is only checked while the preimage is not revealed.
ValueSufficient == state = "PreimageRevealed" \/ valueOK

HtlcConfirmed ==
    /\ pc = "waitHtlc"
    /\ htlc # "none"
    /\ IF ValueSufficient
       THEN /\ pc' = "sweep"
            /\ timer' = TRUE
            /\ paymentComplete' = FALSE
            /\ UNCHANGED <<state, notifier>>
       ELSE /\ state' = "FailInsufficientValue"
            /\ pc' = "payments"
            /\ UNCHANGED loopVars
    /\ UNCHANGED <<sheight, cost, chan, dbVars, batchVars, chainVars, pay,
                   pushed, faults>>

-----------------------------------------------------------------------------
(***************************************************************************)
(* waitForHtlcSpendConfirmedV2.                                            *)
(***************************************************************************)

\* Epochs past MaxHeight repeat the last height, and each sets the timer.
BlockWhileSweeping ==
    /\ pc = "sweep"
    /\ sheight < height \/ height = MaxHeight
    /\ sheight' = IF sheight < height THEN sheight + 1 ELSE sheight
    /\ timer' = TRUE
    /\ UNCHANGED <<pc, state, cost, chan, paymentComplete, notifier, dbVars,
                   batchVars, chainVars, pay, pushed, faults>>

TrackPayment ==
    /\ pc = "sweep"
    /\ ~ paymentComplete
    /\ pay["swap"] = "settled"
    /\ paymentComplete' = TRUE
    /\ UNCHANGED <<pc, state, sheight, cost, chan, timer, notifier, dbVars,
                   batchVars, chainVars, pay, pushed, faults>>

\* Mutant: too late is too late, revealed or not.
CanSweepInTime == CltvExpiry - sheight - MinLoopOutPreimageRevealDelta > 0

CanSweep ==
    \/ state = "PreimageRevealed"
    \/ CltvExpiry - sheight - MinLoopOutPreimageRevealDelta > 0

\* The timer fires too late to reveal the preimage.  A failure to store the
\* state is only logged; it is stored again when the payments completed.
SweepTimedOut ==
    /\ pc = "sweep"
    /\ timer
    /\ ~ CanSweep
    /\ timer' = FALSE
    /\ state' = "FailTimeout"
    /\ \/ dbState' = "FailTimeout" /\ dbCost' = cost /\ UNCHANGED faults
       \/ Fault /\ UNCHANGED dbVars
    /\ pc' = "payments"
    /\ UNCHANGED <<sheight, cost, chan, paymentComplete, notifier, batchVars,
                   chainVars, pay, pushed>>

\* The sweep is handed to the event loop of the batcher, with a notifier of
\* this run.
AddSweep ==
    /\ pc = "sweep"
    /\ timer
    /\ CanSweep
    /\ timer' = FALSE
    /\ batch' = IF batch = "none" THEN "queued" ELSE batch
    /\ notifier' = TRUE
    /\ pc' = "reveal"
    /\ UNCHANGED <<state, sheight, cost, chan, paymentComplete, dbVars, sweepTx,
                   onChain, chainVars, pay, pushed, faults>>

\* Mutant: the state is not stored before the preimage is pushed.
SetStatePreimageRevealedUnstored ==
    /\ pc = "reveal"
    /\ state' = "PreimageRevealed"
    /\ pc' = IF paymentComplete THEN "sweep" ELSE "push"
    /\ UNCHANGED <<sheight, cost, chan, loopVars, dbVars, batchVars, chainVars,
                   pay, pushed, faults>>

SetStatePreimageRevealed ==
    /\ pc = "reveal"
    /\ state' = "PreimageRevealed"
    /\ IF state # "PreimageRevealed"
       THEN dbState' = "PreimageRevealed" /\ dbCost' = cost
       ELSE UNCHANGED dbVars
    /\ pc' = IF paymentComplete THEN "sweep" ELSE "push"
    /\ UNCHANGED <<sheight, cost, chan, loopVars, batchVars, chainVars, pay,
                   pushed, faults>>

\* The write fails, or only the update that follows it.
SetStatePreimageRevealedFails ==
    /\ pc = "reveal"
    /\ state # "PreimageRevealed"
    /\ Fault
    /\ \/ dbState' = "PreimageRevealed" /\ dbCost' = cost
       \/ UNCHANGED dbVars
    /\ state' = "FailTemporary"
    /\ pc' = "stopped"
    /\ UNCHANGED <<sheight, cost, chan, loopVars, batchVars, chainVars, pay,
                   pushed>>

\* pushPreimage: errors are only logged, and the server may have received it.
PushPreimage ==
    /\ pc = "push"
    /\ \/ pushed' = TRUE /\ UNCHANGED faults
       \/ Fault /\ UNCHANGED pushed
    /\ pc' = "sweep"
    /\ UNCHANGED <<state, sheight, cost, chan, loopVars, dbVars, batchVars,
                   chainVars, pay>>

SweepSuccessful == htlc = "swept"

\* The batcher reports the spend of the htlc.
HtlcSpent ==
    /\ pc = "sweep"
    /\ notifier
    /\ batch = "added"
    /\ htlc \in {"swept", "revoked"}
    /\ IF SweepSuccessful
       THEN state' = "Success" /\ cost' = [cost EXCEPT !.onchain = TRUE]
       ELSE state' = "FailSweepTimeout" /\ UNCHANGED cost
    /\ pc' = "payments"
    /\ UNCHANGED <<sheight, chan, loopVars, dbVars, batchVars, chainVars, pay,
                   pushed, faults>>

-----------------------------------------------------------------------------
(***************************************************************************)
(* executeAndFinalize once the outcome is known, and the end of a run.     *)
(***************************************************************************)
PaymentAfterOutcome(i) ==
    /\ pc = "payments"
    /\ HandlePaymentResult(i)
    /\ UNCHANGED <<pc, state, sheight, loopVars, dbVars, batchVars, chainVars,
                   pay, pushed, faults>>

PersistOutcome ==
    /\ pc = "payments"
    /\ chan = [i \in Invoices |-> "nil"]
    /\ dbState' = state
    /\ dbCost' = cost
    /\ pc' = "done"
    /\ UNCHANGED <<state, sheight, cost, chan, loopVars, batchVars, chainVars,
                   pay, pushed, faults>>

\* The outcome is stored, and the update that follows fails.
OutcomeUpdateFails ==
    /\ pc = "payments"
    /\ chan = [i \in Invoices |-> "nil"]
    /\ Fault
    /\ dbState' = state
    /\ dbCost' = cost
    /\ state' = "FailTemporary"
    /\ pc' = "stopped"
    /\ UNCHANGED <<sheight, cost, chan, loopVars, batchVars, chainVars, pay,
                   pushed>>

\* execute: any error ends the run with a temporary failure that is not
\* stored.
TemporaryFailure ==
    /\ pc \in {"start", "waitHtlc", "sweep", "payments"}
    /\ Fault
    /\ state' = "FailTemporary"
    /\ pc' = "stopped"
    /\ UNCHANGED <<sheight, cost, chan, loopVars, dbVars, batchVars, chainVars,
                   pay, pushed>>

\* The daemon stops, with the goroutines of the payments and a sweep that the
\* batcher has not stored yet.
StopDaemon ==
    /\ pc' = "down"
    /\ chan' = [i \in Invoices |-> "nil"]
    /\ batch' = IF batch = "queued" THEN "none" ELSE batch
    /\ notifier' = FALSE
    /\ UNCHANGED <<state, sheight, cost, timer, paymentComplete, dbVars,
                   sweepTx, onChain, chainVars, pay, pushed>>

Stop == pc # "down" /\ Fault /\ StopDaemon

\* The operator restarts the daemon to recover a swap that failed temporarily.
OperatorRestarts ==
    /\ pc = "stopped"
    /\ IsPending(dbState)
    /\ StopDaemon
    /\ UNCHANGED faults

\* Mutant: the costs are restored although the payments are counted again.
ResumedCostStored == dbCost

\* resumeLoopOutSwap restores the state and leaves the costs at zero.
ResumedCost == NoCost

Resume ==
    /\ pc = "down"
    /\ IsPending(dbState)
    /\ pc' = "start"
    /\ state' = dbState
    /\ sheight' = height
    /\ cost' = ResumedCost
    /\ timer' = FALSE
    /\ paymentComplete' = FALSE
    /\ UNCHANGED <<chan, notifier, dbVars, batchVars, chainVars, pay, pushed,
                   faults>>

-----------------------------------------------------------------------------
(***************************************************************************)
(* The sweep batcher, lnd, the chain and the server.                       *)
(***************************************************************************)
swapUnchanged ==
    UNCHANGED <<pc, state, sheight, cost, chan, loopVars, dbVars, faults>>

\* The event loop of the batcher stores the sweep in a batch.
HandleSweeps ==
    /\ batch = "queued"
    /\ batch' = "added"
    /\ swapUnchanged
    /\ UNCHANGED <<sweepTx, onChain, chainVars, pay, pushed>>

\* A running batch publishes its transaction: cooperatively, when the server
\* signs for a payment it received, or with the preimage.
PublishBatch ==
    /\ batch = "added"
    /\ pc # "down"
    /\ htlc = "confirmed"
    /\ ~ sweepTx \/ ~ onChain
    /\ sweepTx' = TRUE
    /\ \/ onChain' = TRUE
       \/ pay["swap"] = "settled" /\ ~ sweepTx /\ UNCHANGED onChain
    /\ swapUnchanged
    /\ UNCHANGED <<batch, chainVars, pay, pushed>>

SweepConfirms ==
    /\ sweepTx
    /\ htlc = "confirmed"
    /\ htlc' = "swept"
    /\ swapUnchanged
    /\ UNCHANGED <<batchVars, valueOK, height, pay, pushed>>

NewBlock ==
    /\ height < MaxHeight
    /\ height' = height + 1
    /\ swapUnchanged
    /\ UNCHANGED <<batchVars, valueOK, htlc, pay, pushed>>

ServerPublishesHtlc ==
    /\ htlc = "none"
    /\ htlc' = "confirmed"
    /\ swapUnchanged
    /\ UNCHANGED <<batchVars, valueOK, height, pay, pushed>>

ServerRevokesHtlc ==
    /\ htlc = "confirmed"
    /\ height >= CltvExpiry
    /\ htlc' = "revoked"
    /\ swapUnchanged
    /\ UNCHANGED <<batchVars, valueOK, height, pay, pushed>>

\* The server settles the prepayment at will, the swap payment only with the
\* preimage.
ServerSettles(i) ==
    /\ pay[i] = "inflight"
    /\ i = "swap" => Revealed
    /\ pay' = [pay EXCEPT ![i] = "settled"]
    /\ swapUnchanged
    /\ UNCHANGED <<batchVars, chainVars, pushed>>

\* A payment fails: no route, a timeout, or the server cancels it.
PaymentFails(i) ==
    /\ pay[i] = "inflight"
    /\ pay' = [pay EXCEPT ![i] = "failed"]
    /\ swapUnchanged
    /\ UNCHANGED <<batchVars, chainVars, pushed>>

\* A finished swap stays finished.
Finished ==
    /\ pc \in {"done", "stopped", "down"}
    /\ IsFinal(dbState)
    /\ UNCHANGED vars

-----------------------------------------------------------------------------
\* The steps of the swap's goroutine that do not wait for a failure.
SwapStep ==
    \/ Start \/ BlockWhileWaiting \/ HtlcConfirmed
    \/ BlockWhileSweeping \/ TrackPayment \/ SweepTimedOut \/ AddSweep
    \/ SetStatePreimageRevealed \/ PushPreimage \/ HtlcSpent \/ PersistOutcome
    \/ \E i \in Invoices : PaymentWhileWaiting(i) \/ PaymentAfterOutcome(i)

\* The steps of the payment goroutines and of lnd.
PaymentStep(i) ==
    \/ SendPayment(i) \/ PaymentSettled(i) \/ PaymentFailed(i)

FailureStep ==
    \/ TemporaryFailure \/ Stop
    \/ SetStatePreimageRevealedFails \/ OutcomeUpdateFails
    \/ \E i \in Invoices : PaymentError(i) \/ RetryPayment(i)

EnvStep ==
    \/ HandleSweeps \/ PublishBatch \/ SweepConfirms \/ NewBlock
    \/ ServerPublishesHtlc \/ ServerRevokesHtlc
    \/ \E i \in Invoices : ServerSettles(i) \/ PaymentFails(i)

Next ==
    \/ SwapStep \/ FailureStep \/ EnvStep
    \/ \E i \in Invoices : PaymentStep(i)
    \/ OperatorRestarts \/ Resume \/ Finished

Spec == Init /\ [][Next]_vars

(***************************************************************************)
(* Go schedules the goroutines and select picks ready cases at random,     *)
(* blocks are mined, the batcher stores and publishes what it was given,   *)
(* a broadcast sweep confirms unless the server revokes the htlc first,    *)
(* lnd resolves every payment, and a stopped daemon is started again.  The *)
(* server need not publish the htlc, settle or revoke.                     *)
(***************************************************************************)
Fairness ==
    /\ WF_vars(SwapStep) /\ WF_vars(AddSweep) /\ WF_vars(SweepTimedOut)
    /\ SF_vars(HtlcSpent)
    /\ WF_vars(HandleSweeps) /\ WF_vars(PublishBatch) /\ WF_vars(SweepConfirms)
    /\ WF_vars(NewBlock) /\ WF_vars(OperatorRestarts) /\ WF_vars(Resume)
    /\ \A i \in Invoices : /\ WF_vars(PaymentStep(i))
                          /\ WF_vars(ServerSettles(i) \/ PaymentFails(i))

FairSpec == Spec /\ Fairness

-----------------------------------------------------------------------------
(***************************************************************************)
(* Properties.                                                             *)
(***************************************************************************)

\* Every variable has its type.
TypeOK ==
    /\ pc \in Pcs
    /\ state \in SwapState /\ dbState \in SwapState
    /\ sheight \in Nat /\ height \in Nat /\ faults \in Nat
    /\ cost \in Costs /\ dbCost \in Costs
    /\ chan \in [Invoices -> ChanStates]
    /\ pay \in [Invoices -> PayStates]
    /\ timer \in BOOLEAN /\ paymentComplete \in BOOLEAN /\ notifier \in BOOLEAN
    /\ batch \in {"none", "queued", "added"}
    /\ sweepTx \in BOOLEAN /\ onChain \in BOOLEAN
    /\ valueOK \in BOOLEAN /\ pushed \in BOOLEAN
    /\ htlc \in HtlcStates

\* The preimage only leaves the client, pushed to the server or shown by a
\* sweep, for an htlc that confirmed with the full amount (executeSwap), and
\* so the swap payment is only settled for such an htlc, across every restart.
RevealedOnlyForHtlc ==
    Revealed \/ pay["swap"] = "settled" => htlc # "none" /\ valueOK

\* The preimage is only pushed to the server once its revelation is stored
\* (setStatePreimageRevealed before pushPreimage): no restart takes the swap
\* for one that can still be given up.
PushedOnlyStored ==
    pushed => dbState \in {"PreimageRevealed", "Success", "FailSweepTimeout"}

\* A stored outcome agrees with the chain: success means the client swept the
\* htlc, a sweep timeout that the server took it back, an insufficient value
\* that the preimage never left the client.
OutcomeMatchesSpend ==
    /\ dbState = "Success" => htlc = "swept"
    /\ dbState = "FailSweepTimeout" => htlc = "revoked"
    /\ dbState = "FailInsufficientValue" => ~ Revealed

\* The swap payment is added to the costs at most once, and only when it was
\* settled, although every run pays and counts the invoices again
\* (payInvoices, handlePaymentResult).
PaymentCountedOnce ==
    /\ dbCost.server <= 1
    /\ dbCost.server = 1 => pay["swap"] = "settled"

\* A stored revelation is never forgotten: the swap ends with the spend of its
\* htlc (canSweep, executeSwap), never with a timeout or an off-chain failure.
StoredRevealIsKept ==
    [][ /\ IsFinal(dbState) => dbState' = dbState
        /\ dbState = "PreimageRevealed"
             => dbState' \in {"PreimageRevealed", "Success", "FailSweepTimeout"}
        /\ dbState' = "Initiated" => dbState = "Initiated"
        /\ dbState' # "FailTemporary" ]_vars

\* Every swap reaches a stored final state, across restarts and also when the
\* server never publishes the htlc: executeAndFinalize waits for a result of
\* both payment goroutines, which must come on every path.
SwapResolves == <>IsFinal(dbState)
=============================================================================
