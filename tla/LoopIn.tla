------------------------------- MODULE LoopIn -------------------------------
(***************************************************************************)
(* A loop-in swap (loopin.go): the client publishes an on-chain htlc, the  *)
(* server pays the swap invoice and claims the htlc with the preimage.     *)
(* When the htlc expires unpaid the client takes it back with a timeout    *)
(* transaction.  The swap runs in one goroutine; lnd's invoice registry,   *)
(* the chain and the server run beside it, every call to them can fail or  *)
(* lose its answer, and the daemon can stop at every step and resume the   *)
(* swap from its last stored state.                                        *)
(***************************************************************************)
EXTENDS Integers, SwapStates

CONSTANTS
    CltvExpiry,             \* height at which the htlc can be refunded
    MinLoopInPublishDelta,  \* blocks to expiry needed to publish the htlc
    MaxHeight,              \* heights above this one are told apart no more
    MaxFaults               \* bound on restarts and failing calls

ASSUME CltvExpiryAssumption == CltvExpiry \in Nat
ASSUME PublishDeltaAssumption == MinLoopInPublishDelta \in Nat
ASSUME MaxHeightAssumption == MaxHeight \in Nat /\ MaxHeight >= CltvExpiry
ASSUME MaxFaultsAssumption == MaxFaults \in Nat

VARIABLES
    pc,               \* the step the swap's goroutine is at
    \* loopInSwap and swapKit, in memory
    state,            \* swapKit.state
    sheight,          \* swapKit.height
    cost,             \* swapKit.cost
    invoiceSettled,
    invoiceCanceled,
    \* the locals of waitForSwapComplete
    htlcSpend,
    invoiceFinalized,
    htlcKeyRevealed,
    sweepFee,         \* is the fee of the last timeout tx non-zero
    \* the swap's row in the database
    dbState,
    dbCost,
    \* the contract
    external,         \* LoopInContract.ExternalHtlc
    valueOK,          \* does the htlc's value match AmountRequested
    \* lnd, the chain and the server
    height,
    htlc,             \* the htlc output on chain
    timeoutTx,        \* has the refund of the htlc been broadcast
    invoice,          \* the swap invoice in lnd
    serverHasKey,     \* does the server know the client's internal key
    sends,            \* how often lnd funded and broadcast the htlc
    abandon,          \* abandonChan holds a request
    faults

flags == <<invoiceSettled, invoiceCanceled>>
swapVars == <<state, sheight, cost, flags>>
loopVars == <<htlcSpend, invoiceFinalized, htlcKeyRevealed, sweepFee>>
dbVars == <<dbState, dbCost>>
contractVars == <<external, valueOK>>
chainVars == <<height, htlc, timeoutTx, sends>>
outside == <<contractVars, chainVars, invoice, serverHasKey>>
ctl == <<abandon, faults>>
vars == <<pc, swapVars, loopVars, dbVars, contractVars, chainVars, invoice,
          serverHasKey, abandon, faults>>

-----------------------------------------------------------------------------
(***************************************************************************)
(* Types.  A cost records what has been accounted for: the difference      *)
(* between the swap amount and the paid invoice (server), the fee of the   *)
(* htlc transaction, and the number of timeout fees added.                 *)
(***************************************************************************)
Pcs == {"execute", "sendOutputs", "recordTx", "waitConf",
        "startTimeout", "startRefund", "wait",
        "blockTimeout", "blockRefund", "pushKey",
        "cancelAbandoned", "stopped", "down", "done"}

Costs == [server : BOOLEAN, htlcFee : BOOLEAN, sweepFees : Nat]

NoCost == [server |-> FALSE, htlcFee |-> FALSE, sweepFees |-> 0]

HtlcStates == {"none", "mempool", "confirmed", "claimed", "refunded"}

InvoiceStates == {"Open", "Settled", "Canceled", "Deleted"}

\* The invoice can never be settled any more.
Dead == {"Canceled", "Deleted"}

\* The goroutine is executing the swap.
Executing == pc \notin {"stopped", "down", "done"}

-----------------------------------------------------------------------------
(***************************************************************************)
(* The swap has just been created by newLoopInSwap: it is stored, its      *)
(* invoice is open, and the executor starts it.  Only an external htlc can *)
(* carry another amount than the requested one.                            *)
(***************************************************************************)
Init ==
    /\ pc = "execute"
    /\ state = "Initiated"
    /\ sheight = 0
    /\ cost = NoCost
    /\ invoiceSettled = FALSE
    /\ invoiceCanceled = FALSE
    /\ htlcSpend = FALSE
    /\ invoiceFinalized = FALSE
    /\ htlcKeyRevealed = FALSE
    /\ sweepFee = FALSE
    /\ dbState = "Initiated"
    /\ dbCost = NoCost
    /\ external \in BOOLEAN
    /\ valueOK \in BOOLEAN
    /\ ~ external => valueOK
    /\ height = 0
    /\ htlc = "none"
    /\ timeoutTx = FALSE
    /\ invoice = "Open"
    /\ serverHasKey = FALSE
    /\ sends = 0
    /\ abandon = FALSE
    /\ faults = 0

\* setState followed by persistAndAnnounceState.
SetAndPersist(s, c) ==
    /\ state' = s
    /\ dbState' = s
    /\ dbCost' = c

\* Failures are bounded; a step that needs one takes it from the budget.
Fault ==
    /\ faults < MaxFaults
    /\ faults' = faults + 1

\* What a successful Invoices.CancelInvoice leaves of an invoice that is not
\* settled.  A deleted one is reported as not found, which counts as canceled.
Canceled(i) == IF i = "Open" THEN "Canceled" ELSE i

-----------------------------------------------------------------------------
(***************************************************************************)
(* executeSwap up to the confirmation of the htlc.                         *)
(***************************************************************************)

\* An external htlc is published by the user: only the state advances.
ExecuteExternal ==
    /\ pc = "execute"
    /\ state = "Initiated"
    /\ external
    /\ SetAndPersist("HtlcPublished", cost)
    /\ pc' = "waitConf"
    /\ UNCHANGED <<sheight, cost, flags, loopVars, outside, ctl>>

\* Mutant: the state is only stored after SendOutputs returned.
PublishOnChainHtlcLateStore ==
    /\ pc = "execute"
    /\ state = "Initiated"
    /\ ~ external
    /\ state' = "HtlcPublished"
    /\ pc' = "sendOutputs"
    /\ UNCHANGED <<sheight, cost, flags, loopVars, dbVars, outside, ctl>>

\* publishOnChainHtlc gives up when too few blocks remain; otherwise it
\* stores HtlcPublished before it asks lnd to fund and broadcast the htlc.
PublishOnChainHtlc ==
    /\ pc = "execute"
    /\ state = "Initiated"
    /\ ~ external
    /\ IF CltvExpiry - sheight < MinLoopInPublishDelta
       THEN /\ SetAndPersist("FailTimeout", cost)
            /\ pc' = "done"
       ELSE /\ SetAndPersist("HtlcPublished", cost)
            /\ pc' = "sendOutputs"
    /\ UNCHANGED <<sheight, cost, flags, loopVars, outside, ctl>>

\* A resumed swap that published its htlc in an earlier run.
ExecuteResumed ==
    /\ pc = "execute"
    /\ state # "Initiated"
    /\ pc' = "waitConf"
    /\ UNCHANGED <<swapVars, loopVars, dbVars, outside, ctl>>

\* WalletKit.SendOutputs broadcasts the htlc and reports the transaction.
SendOutputs ==
    /\ pc = "sendOutputs"
    /\ htlc' = "mempool"
    /\ sends' = sends + 1
    /\ cost' = [cost EXCEPT !.htlcFee = TRUE]
    /\ pc' = "recordTx"
    /\ UNCHANGED <<state, sheight, flags, loopVars, dbVars, contractVars,
                   height, timeoutTx, invoice, serverHasKey, ctl>>

\* WalletKit.SendOutputs returns an error.  Any error ends the swap with
\* FailInsufficientConfirmedBalance, also one of the connection after lnd
\* broadcast the htlc.  A failure to store the state is ignored.
SendOutputsFails ==
    /\ pc = "sendOutputs"
    /\ \E sent, stored \in BOOLEAN :
         /\ IF sent THEN htlc' = "mempool" /\ sends' = sends + 1
                    ELSE UNCHANGED <<htlc, sends>>
         /\ IF stored
            THEN dbState' = "FailInsufficientConfirmedBalance" /\ dbCost' = cost
            ELSE UNCHANGED dbVars
         /\ IF stored /\ ~ sent THEN UNCHANGED faults ELSE Fault
    /\ state' = "FailInsufficientConfirmedBalance"
    /\ pc' = "done"
    /\ UNCHANGED <<sheight, cost, flags, loopVars, contractVars, height,
                   timeoutTx, invoice, serverHasKey, abandon>>

\* The transaction and its fee are stored once SendOutputs returned.
RecordHtlcTx ==
    /\ pc = "recordTx"
    /\ dbState' = state
    /\ dbCost' = cost
    /\ pc' = "waitConf"
    /\ UNCHANGED <<swapVars, loopVars, outside, ctl>>

\* Block epochs are queued per swap and arrive in order.  Past MaxHeight the
\* queue still delivers epochs, which only repeat the last height.
NextEpoch ==
    /\ sheight < height \/ height = MaxHeight
    /\ sheight' = IF sheight < height THEN sheight + 1 ELSE sheight

\* waitForHtlcConf keeps up with the block height.
ConfBlock ==
    /\ pc = "waitConf"
    /\ sheight < height
    /\ NextEpoch
    /\ UNCHANGED <<pc, state, cost, flags, loopVars, dbVars, outside, ctl>>

\* The htlc confirmed.  A value that differs from the contract is recorded,
\* where a failure to store it is only logged; waitForSwapComplete then
\* subscribes to the spend and to the invoice.
HtlcConfirmed ==
    /\ pc = "waitConf"
    /\ htlc \in {"confirmed", "claimed", "refunded"}
    /\ IF state # "FailIncorrectHtlcAmt" /\ ~ valueOK
       THEN /\ state' = "FailIncorrectHtlcAmt"
            /\ \/ dbState' = "FailIncorrectHtlcAmt" /\ dbCost' = cost
                  /\ UNCHANGED faults
               \/ Fault /\ UNCHANGED dbVars
       ELSE UNCHANGED <<state, dbVars, faults>>
    /\ invoiceSettled' = (invoiceSettled \/ state' \in {"InvoiceSettled", "Success"})
    /\ htlcSpend' = FALSE
    /\ invoiceFinalized' = FALSE
    /\ htlcKeyRevealed' = FALSE
    /\ pc' = "startTimeout"
    /\ UNCHANGED <<sheight, cost, invoiceCanceled, sweepFee, outside,
                   abandon>>

-----------------------------------------------------------------------------
(***************************************************************************)
(* publishTxOnTimeout, called when waitForSwapComplete starts and on every *)
(* block.  It returns the fee of the timeout transaction, or zero.         *)
(***************************************************************************)

\* Where publishTxOnTimeout returns to, and where it publishes.
Return == [startTimeout |-> "wait", startRefund |-> "wait",
           blockTimeout |-> "pushKey", blockRefund |-> "pushKey"]

Refund == [startTimeout |-> "startRefund", blockTimeout |-> "blockRefund"]

\* The invoice is known to be paid, or the htlc has not expired.
NoRefundDue ==
    \/ invoiceSettled
    \/ state \in {"InvoiceSettled", "Success"}
    \/ sheight < CltvExpiry

PublishTxOnTimeoutSkips ==
    /\ pc \in {"startTimeout", "blockTimeout"}
    /\ NoRefundDue
    /\ sweepFee' = FALSE
    /\ pc' = Return[pc]
    /\ UNCHANGED <<swapVars, htlcSpend, invoiceFinalized, htlcKeyRevealed,
                   dbVars, outside, ctl>>

\* Mutant: the refusal to cancel a settled invoice is taken for success.
RefundGrantedAlways == TRUE

\* The answers of CancelInvoice, and the remembered one, that allow a refund.
RefundGranted == invoiceCanceled \/ invoice # "Settled"

\* authorizeRefund: the invoice was canceled before, or is canceled now, or
\* lnd deleted it.
AuthorizeRefund ==
    /\ pc \in {"startTimeout", "blockTimeout"}
    /\ ~ NoRefundDue
    /\ RefundGranted
    /\ invoice' = IF invoiceCanceled THEN invoice ELSE Canceled(invoice)
    /\ invoiceCanceled' = TRUE
    /\ pc' = Refund[pc]
    /\ UNCHANGED <<state, sheight, cost, invoiceSettled, loopVars, dbVars,
                   contractVars, chainVars, serverHasKey, ctl>>

\* authorizeRefund: the invoice turns out to be settled.  The paid amount is
\* looked up before the settlement is recorded and stored.
RefundFindsSettled ==
    /\ pc \in {"startTimeout", "blockTimeout"}
    /\ ~ NoRefundDue
    /\ ~ invoiceCanceled
    /\ invoice = "Settled"
    /\ cost' = [cost EXCEPT !.server = TRUE]
    /\ invoiceSettled' = TRUE
    /\ IF state = "HtlcPublished" THEN SetAndPersist("InvoiceSettled", cost')
                                  ELSE UNCHANGED <<state, dbVars>>
    /\ sweepFee' = FALSE
    /\ pc' = Return[pc]
    /\ UNCHANGED <<sheight, invoiceCanceled, htlcSpend, invoiceFinalized,
                   htlcKeyRevealed, outside, ctl>>

\* authorizeRefund: the cancellation fails for another reason, perhaps after
\* lnd executed it, or the lookup of a settled invoice fails.  The refund
\* waits for the next block.
RefundUnresolved ==
    /\ pc \in {"startTimeout", "blockTimeout"}
    /\ ~ NoRefundDue
    /\ ~ invoiceCanceled
    /\ Fault
    /\ invoice' \in {invoice, Canceled(invoice)}
    /\ sweepFee' = FALSE
    /\ pc' = Return[pc]
    /\ UNCHANGED <<swapVars, htlcSpend, invoiceFinalized, htlcKeyRevealed,
                   dbVars, contractVars, chainVars, serverHasKey, abandon>>

\* Mutant: the fee is added to the costs with every publication and stored.
PublishTimeoutTxCountsFee ==
    /\ pc \in {"startRefund", "blockRefund"}
    /\ timeoutTx' = TRUE
    /\ sweepFee' = TRUE
    /\ cost' = [cost EXCEPT !.sweepFees = @ + 1]
    /\ dbCost' = cost'
    /\ pc' = Return[pc]
    /\ UNCHANGED <<state, sheight, flags, htlcSpend, invoiceFinalized,
                   htlcKeyRevealed, dbState, contractVars, height, htlc,
                   sends, invoice, serverHasKey, ctl>>

\* publishTimeoutTx: a failing broadcast is only logged.
PublishTimeoutTx ==
    /\ pc \in {"startRefund", "blockRefund"}
    /\ \/ timeoutTx' = TRUE /\ UNCHANGED faults
       \/ Fault /\ UNCHANGED timeoutTx
    /\ sweepFee' = TRUE
    /\ pc' = Return[pc]
    /\ UNCHANGED <<swapVars, htlcSpend, invoiceFinalized, htlcKeyRevealed,
                   dbVars, contractVars, height, htlc, sends, invoice,
                   serverHasKey, abandon>>

\* tryPushHtlcKey, for a settled invoice: the answer of the server can get
\* lost.
TryPushHtlcKey ==
    \/ serverHasKey' = TRUE /\ htlcKeyRevealed' = TRUE /\ UNCHANGED faults
    \/ Fault /\ serverHasKey' \in {serverHasKey, TRUE} /\ htlcKeyRevealed' = FALSE

KeyDue == invoiceSettled /\ ~ htlcKeyRevealed

\* The second half of the handler of a block.
PushKeyOnBlock ==
    /\ pc = "pushKey"
    /\ IF KeyDue
       THEN TryPushHtlcKey
       ELSE UNCHANGED <<serverHasKey, htlcKeyRevealed, faults>>
    /\ pc' = "wait"
    /\ UNCHANGED <<swapVars, htlcSpend, invoiceFinalized, sweepFee, dbVars,
                   contractVars, chainVars, invoice, abandon>>

-----------------------------------------------------------------------------
(***************************************************************************)
(* The event loop of waitForSwapComplete.                                  *)
(***************************************************************************)

\* Mutant: only the subscription can finalize the invoice.
SpentAndReported == htlcSpend /\ invoiceFinalized

\* Mutant: the expiry of the htlc ends the swap whether or not it was paid.
ExpiredInAnyState == sheight >= CltvExpiry

\* The two stop conditions at the top of the loop.
SpentAndFinalized == htlcSpend /\ (invoiceFinalized \/ invoiceCanceled)

SettledAndExpired == state = "InvoiceSettled" /\ sheight >= CltvExpiry

\* The loop ended: executeSwap stores the outcome.
Complete ==
    /\ pc = "wait"
    /\ \/ SpentAndFinalized /\ SetAndPersist(state, cost)
       \/ ~ SpentAndFinalized /\ SettledAndExpired /\ SetAndPersist("Success", cost)
    /\ pc' = "done"
    /\ UNCHANGED <<sheight, cost, flags, loopVars, outside, ctl>>

\* The select statement is reached.
Selecting == pc = "wait" /\ ~ SpentAndFinalized /\ ~ SettledAndExpired

BlockEpoch ==
    /\ Selecting
    /\ NextEpoch
    /\ pc' = "blockTimeout"
    /\ UNCHANGED <<state, cost, flags, loopVars, dbVars, outside, ctl>>

\* processHtlcSpend: the server claimed the htlc.
HtlcClaimed ==
    /\ Selecting
    /\ ~ htlcSpend
    /\ htlc = "claimed"
    /\ state' = "Success"
    /\ htlcSpend' = TRUE
    /\ UNCHANGED <<pc, sheight, cost, flags, invoiceFinalized,
                   htlcKeyRevealed, sweepFee, dbVars, outside, ctl>>

\* processHtlcSpend: the timeout transaction confirmed.  Its fee is added to
\* the costs and the invoice is canceled, unless it was settled.
HtlcRefunded ==
    /\ Selecting
    /\ ~ htlcSpend
    /\ htlc = "refunded"
    /\ cost' = [cost EXCEPT !.sweepFees = @ + (IF sweepFee THEN 1 ELSE 0)]
    /\ state' = IF state = "FailIncorrectHtlcAmt" THEN "FailIncorrectHtlcAmtSwept"
                                                 ELSE "FailTimeout"
    /\ IF invoice = "Settled"
       THEN UNCHANGED <<invoice, invoiceCanceled>>
       ELSE invoice' = Canceled(invoice) /\ invoiceCanceled' = TRUE
    /\ htlcSpend' = TRUE
    /\ UNCHANGED <<pc, sheight, invoiceSettled, invoiceFinalized,
                   htlcKeyRevealed, sweepFee, dbVars, contractVars, chainVars,
                   serverHasKey, ctl>>

\* The subscription reports the settled invoice.  The state is stored before
\* the paid amount is added to the costs.
InvoiceSettledUpdate ==
    /\ Selecting
    /\ ~ invoiceFinalized
    /\ invoice = "Settled"
    /\ IF state = "HtlcPublished" THEN SetAndPersist("InvoiceSettled", cost)
                                  ELSE UNCHANGED <<state, dbVars>>
    /\ invoiceFinalized' = TRUE
    /\ invoiceSettled' = TRUE
    /\ TryPushHtlcKey
    /\ cost' = [cost EXCEPT !.server = TRUE]
    /\ UNCHANGED <<pc, sheight, invoiceCanceled, htlcSpend, sweepFee,
                   contractVars, chainVars, invoice, abandon>>

\* The subscription reports the canceled invoice; for a deleted one it never
\* does.
InvoiceCanceledUpdate ==
    /\ Selecting
    /\ ~ invoiceFinalized
    /\ invoice = "Canceled"
    /\ invoiceFinalized' = TRUE
    /\ invoiceCanceled' = TRUE
    /\ UNCHANGED <<pc, state, sheight, cost, invoiceSettled, htlcSpend,
                   htlcKeyRevealed, sweepFee, dbVars, outside, ctl>>

-----------------------------------------------------------------------------
(***************************************************************************)
(* Abandoning, failing, stopping and resuming a swap.                      *)
(***************************************************************************)

\* Client.AbandonSwap: the channel has room for one request and is only known
\* while the swap is executed.
AbandonSwap ==
    /\ Executing
    /\ ~ abandon
    /\ abandon' = TRUE
    /\ UNCHANGED <<pc, swapVars, loopVars, dbVars, outside, faults>>

\* setStateAbandoned refuses a swap that is no longer pending, which execute
\* reports as a temporary failure, and else stores the abandoned state.
SetStateAbandoned ==
    /\ pc = "waitConf" \/ Selecting
    /\ abandon
    /\ abandon' = FALSE
    /\ IF IsPending(state)
       THEN SetAndPersist("FailAbandoned", cost) /\ pc' = "cancelAbandoned"
       ELSE state' = "FailTemporary" /\ pc' = "stopped" /\ UNCHANGED dbVars
    /\ UNCHANGED <<sheight, cost, flags, loopVars, outside, faults>>

\* The invoice of an abandoned swap is canceled; errors are only logged.
CancelAbandoned ==
    /\ pc = "cancelAbandoned"
    /\ \/ invoice' = Canceled(invoice) /\ UNCHANGED faults
       \/ Fault /\ UNCHANGED invoice
    /\ pc' = "done"
    /\ UNCHANGED <<swapVars, loopVars, dbVars, contractVars, chainVars,
                   serverHasKey, abandon>>

\* Mutant: the temporary failure is stored.
TemporaryFailureStored ==
    /\ Executing
    /\ Fault
    /\ SetAndPersist("FailTemporary", cost)
    /\ pc' = "stopped"
    /\ UNCHANGED <<sheight, cost, flags, loopVars, outside, abandon>>

\* Any other error of a call to the store, lnd or the notifier ends execute
\* with a temporary failure that is not stored.
TemporaryFailure ==
    /\ Executing
    /\ pc \notin {"sendOutputs", "pushKey", "cancelAbandoned"}
    /\ Fault
    /\ state' = "FailTemporary"
    /\ pc' = "stopped"
    /\ UNCHANGED <<sheight, cost, flags, loopVars, dbVars, outside, abandon>>

\* The daemon stops, by a crash or by canceling the main context.
Stop ==
    /\ pc # "down"
    /\ Fault
    /\ pc' = "down"
    /\ UNCHANGED <<swapVars, loopVars, dbVars, outside, abandon>>

\* The operator restarts the daemon to recover a swap that failed temporarily.
OperatorRestarts ==
    /\ pc \in {"stopped", "done"}
    /\ IsPending(dbState)
    /\ pc' = "down"
    /\ UNCHANGED <<swapVars, loopVars, dbVars, outside, ctl>>

\* The executor's height, known before any swap is started.
ResumeHeight == height

\* resumeSwaps resumes a stored swap that is pending, with the height of the
\* first block notification.
Resume ==
    /\ pc = "down"
    /\ IsPending(dbState)
    /\ pc' = "execute"
    /\ state' = dbState
    /\ cost' = dbCost
    /\ sheight' = ResumeHeight
    /\ invoiceSettled' = FALSE
    /\ invoiceCanceled' = FALSE
    /\ htlcSpend' = FALSE
    /\ invoiceFinalized' = FALSE
    /\ htlcKeyRevealed' = FALSE
    /\ sweepFee' = FALSE
    /\ abandon' = FALSE
    /\ UNCHANGED <<dbVars, outside, faults>>

-----------------------------------------------------------------------------
(***************************************************************************)
(* lnd, the chain and the server.                                          *)
(***************************************************************************)
swapUnchanged ==
    UNCHANGED <<pc, swapVars, loopVars, dbVars, contractVars, ctl>>

NewBlock ==
    /\ height < MaxHeight
    /\ height' = height + 1
    /\ swapUnchanged
    /\ UNCHANGED <<htlc, timeoutTx, sends, invoice, serverHasKey>>

\* The user funds the external htlc.
UserPublishesHtlc ==
    /\ external
    /\ htlc = "none"
    /\ htlc' = "mempool"
    /\ swapUnchanged
    /\ UNCHANGED <<height, timeoutTx, sends, invoice, serverHasKey>>

HtlcConfirms ==
    /\ htlc = "mempool"
    /\ htlc' = "confirmed"
    /\ swapUnchanged
    /\ UNCHANGED <<height, timeoutTx, sends, invoice, serverHasKey>>

\* The server pays the invoice, which reveals the preimage to it.
ServerPays ==
    /\ invoice = "Open"
    /\ invoice' = "Settled"
    /\ swapUnchanged
    /\ UNCHANGED <<chainVars, serverHasKey>>

\* The server spends the htlc with the preimage, or through the key path once
\* it has the client's internal key.
ServerClaims ==
    /\ htlc = "confirmed"
    /\ invoice = "Settled" \/ serverHasKey
    /\ htlc' = "claimed"
    /\ swapUnchanged
    /\ UNCHANGED <<height, timeoutTx, sends, invoice, serverHasKey>>

RefundConfirms ==
    /\ htlc = "confirmed"
    /\ timeoutTx
    /\ height >= CltvExpiry
    /\ htlc' = "refunded"
    /\ swapUnchanged
    /\ UNCHANGED <<height, timeoutTx, sends, invoice, serverHasKey>>

\* lnd's garbage collection removes a canceled invoice.
DeleteInvoice ==
    /\ invoice = "Canceled"
    /\ invoice' = "Deleted"
    /\ swapUnchanged
    /\ UNCHANGED <<chainVars, serverHasKey>>

\* A finished swap stays finished.
Finished ==
    /\ pc \in {"done", "down"}
    /\ IsFinal(dbState)
    /\ UNCHANGED vars

-----------------------------------------------------------------------------
\* The steps of the swap's goroutine that do not wait for a failure.
SwapStep ==
    \/ ExecuteExternal \/ PublishOnChainHtlc \/ ExecuteResumed
    \/ SendOutputs \/ RecordHtlcTx
    \/ ConfBlock \/ HtlcConfirmed
    \/ PublishTxOnTimeoutSkips \/ AuthorizeRefund \/ RefundFindsSettled
    \/ PublishTimeoutTx \/ PushKeyOnBlock
    \/ Complete \/ BlockEpoch \/ HtlcClaimed \/ HtlcRefunded
    \/ InvoiceSettledUpdate \/ InvoiceCanceledUpdate
    \/ SetStateAbandoned \/ CancelAbandoned

FailureStep ==
    \/ SendOutputsFails \/ RefundUnresolved \/ TemporaryFailure \/ Stop

EnvStep ==
    \/ NewBlock \/ UserPublishesHtlc \/ HtlcConfirms \/ ServerPays
    \/ ServerClaims \/ RefundConfirms \/ DeleteInvoice

Next ==
    \/ SwapStep \/ FailureStep \/ EnvStep
    \/ AbandonSwap \/ OperatorRestarts \/ Resume \/ Finished

Spec == Init /\ [][Next]_vars

(***************************************************************************)
(* The scheduler runs the goroutine, select serves each of its channels    *)
(* eventually (Go picks ready cases at random), blocks are mined and       *)
(* broadcast transactions confirm, and a stopped daemon is started again.  *)
(* Nothing is assumed of the server and of the user.                       *)
(***************************************************************************)
Fairness ==
    /\ WF_vars(SwapStep)
    /\ SF_vars(HtlcClaimed) /\ SF_vars(HtlcRefunded)
    /\ SF_vars(InvoiceSettledUpdate) /\ SF_vars(InvoiceCanceledUpdate)
    /\ SF_vars(BlockEpoch)
    /\ WF_vars(NewBlock) /\ WF_vars(HtlcConfirms) /\ WF_vars(RefundConfirms)
    /\ WF_vars(OperatorRestarts) /\ WF_vars(Resume)

FairSpec == Spec /\ Fairness

-----------------------------------------------------------------------------
(***************************************************************************)
(* Properties.                                                             *)
(***************************************************************************)

\* Every variable has its type.
TypeOK ==
    /\ pc \in Pcs
    /\ state \in SwapState /\ dbState \in SwapState
    /\ sheight \in Nat /\ height \in Nat /\ sends \in Nat /\ faults \in Nat
    /\ cost \in Costs /\ dbCost \in Costs
    /\ invoiceSettled \in BOOLEAN /\ invoiceCanceled \in BOOLEAN
    /\ htlcSpend \in BOOLEAN /\ invoiceFinalized \in BOOLEAN
    /\ htlcKeyRevealed \in BOOLEAN /\ sweepFee \in BOOLEAN
    /\ external \in BOOLEAN /\ valueOK \in BOOLEAN
    /\ htlc \in HtlcStates
    /\ timeoutTx \in BOOLEAN
    /\ invoice \in InvoiceStates
    /\ serverHasKey \in BOOLEAN /\ abandon \in BOOLEAN

\* The refund of the htlc is only broadcast once the invoice can never be
\* settled any more (authorizeRefund), whatever is lost or restarted between
\* the cancellation and the broadcast.
RefundOnlyUnpaid == timeoutTx => invoice \in Dead

\* The server only learns the client's internal key after it paid the invoice
\* (tryPushHtlcKey), so a claim of the htlc always means the client was paid.
ClaimedOnlyPaid == serverHasKey \/ htlc = "claimed" => invoice = "Settled"

\* lnd funds the htlc at most once, because HtlcPublished is stored before
\* SendOutputs is called (publishOnChainHtlc).
SingleHtlc == sends <= 1

\* A stored outcome agrees with what happened to the htlc and to the invoice:
\* success means the client was paid, a timeout or an incorrect amount that
\* its htlc never existed or came back to it.
OutcomeMatchesChain ==
    /\ dbState \in {"Success", "InvoiceSettled"} => invoice = "Settled"
    /\ dbState = "FailTimeout" => htlc \in {"none", "refunded"}
    /\ dbState = "FailIncorrectHtlcAmtSwept" => htlc = "refunded" /\ ~ valueOK

\* The fee of the timeout transaction is added at most once to the stored
\* costs, and only with the final state, however often that transaction was
\* published and the swap restarted (waitForSwapComplete, processHtlcSpend).
RefundFeeCountedOnce ==
    /\ dbCost.sweepFees <= 1
    /\ dbCost.sweepFees = 1 => IsFinal(dbState) /\ htlc = "refunded"

\* The htlc and the invoice as AtomicSwap sees them.
Leg ==
    CASE htlc = "none" -> "none"
      [] htlc \in {"mempool", "confirmed"} -> "locked"
      [] OTHER -> htlc

PayLeg ==
    CASE invoice = "Open" -> "open"
      [] invoice = "Settled" -> "paid"
      [] OTHER -> "dead"

Atomic == INSTANCE AtomicSwap WITH leg <- Leg, pay <- PayLeg

\* The swap is atomic across every interleaving, failure and restart: each
\* step of the client, lnd, the chain and the server is one of AtomicSwap or
\* leaves both legs alone.
ImplementsAtomicSwap == Atomic!ASpec

\* The stored state only moves forward: final states stay, a settled invoice
\* is not forgotten, temporary failures are never stored.
StoredStateMovesForward ==
    [][ /\ IsFinal(dbState) => dbState' = dbState
        /\ dbState = "InvoiceSettled"
             => dbState' \in {"InvoiceSettled", "Success", "FailAbandoned"}
        /\ dbState' = "Initiated" => dbState = "Initiated"
        /\ dbState' # "FailTemporary" ]_vars

\* Once the htlc confirmed the swap reaches a stored final state, also when
\* the server never answers and the daemon is restarted: the client is paid
\* or refunds itself.  The one exception is an htlc of the wrong amount that
\* the server paid for, which waits for the server's claim.
ConfirmedHtlcResolves ==
    (htlc = "confirmed")
        ~> (IsFinal(dbState) \/ (~ valueOK /\ invoice = "Settled"))
=============================================================================
