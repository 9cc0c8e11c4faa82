---------------------------- MODULE StaticLoopIn ----------------------------
(***************************************************************************)
(* A loop-in from static address deposits (staticaddr/loopin): the state   *)
(* machine of one swap, the monitor that waits for the payment and for the *)
(* htlc transaction, the confirmation risk decisions that reach it through *)
(* the notification manager, and the deposits it locks, releases and       *)
(* finalizes.  Deposits that were released can be spent by another swap or *)
(* a withdrawal.  A deposit moves as TransitionDeposits moves it; its own  *)
(* goroutines are in Deposit.  Heights stay below the deposits' expiry.    *)
(***************************************************************************)
EXTENDS Integers, DepositStates

CONSTANTS
    NumDeposits,
    HtlcCltvExpiry,
    MaxHeight,      \* bound on the height
    Prompt,         \* the monitor is never slower than a block
    MaxFaults       \* bound on failing calls, stops and reorganisations

ASSUME DepositsAssumption == NumDeposits \in Nat \ {0}
ASSUME HeightAssumption ==
    HtlcCltvExpiry \in Nat /\ MaxHeight \in Nat /\ HtlcCltvExpiry < MaxHeight
ASSUME FaultsAssumption == MaxFaults \in Nat
ASSUME PromptAssumption == Prompt \in BOOLEAN

Deposits == 1 .. NumDeposits

VARIABLES
    state,      \* the state of the state machine
    pc,         \* where its goroutine is
    dbState,    \* the stored state, or "none"
    \* the locals of MonitorInvoiceAndHtlcTxAction
    known,      \* invoice.State
    deadline,   \* the payment deadline: "off", "armed" or "passed"
    confirmed,  \* htlcConfirmed
    block,      \* a block notification is pending
    \* the confirmation risk decision
    decision,   \* loopIn.ConfirmationRiskDecision
    dbDecision,
    updates,    \* decisions in the channels of the subscription
    cache,      \* the decision that the notification manager replays
    durable,    \* staticLoopInRiskPersisted
    sent,       \* the decisions that the server has sent
    \* the htlc timeout sweep
    watch,      \* loopIn.HtlcTimeoutSweepTxHash, 0 for nil
    dbWatch,
    \* the deposits
    dep,        \* the state of each
    active,     \* the ones in activeDeposits
    locked,     \* the ones this swap has ever locked
    other,      \* the ones that something else has taken since
    \* lnd, the server and the chain
    inv,        \* the swap invoice
    asked,      \* the server has the request
    sigs,       \* the server has the signatures of the htlc transaction
    signed,     \* the client has signed a sweepless sweep
    htlc,       \* "none", "mempool", "confirmed", "claimed" or "swept"
    spent,      \* what spends each deposit
    txs,        \* versions of the timeout sweep ever broadcast
    sweptBy,    \* the one that confirmed, or 0
    height,
    \* bookkeeping of the properties
    released,   \* the monitor released a deposit
    lax,        \* UnlockDepositsAction went on without canceling the invoice
    faults

swapvars == <<state, pc, dbState>>
monvars == <<known, deadline, confirmed, block>>
ntfnvars == <<updates, cache, durable, sent>>
riskvars == <<decision, dbDecision, ntfnvars>>
watchvars == <<watch, dbWatch>>
depvars == <<dep, active, locked, other>>
chainvars == <<signed, htlc, spent, sweptBy, height>>
extvars == <<asked, sigs, chainvars, txs>>
ghosts == <<released, lax>>
vars == <<swapvars, monvars, riskvars, watchvars, depvars, inv, extvars,
          ghosts, faults>>

PendingStates == {"InitHtlcTx", "SignHtlcTx", "MonitorInvoiceAndHtlcTx",
                  "PaymentReceived", "SweepHtlcTimeout",
                  "MonitorHtlcTimeoutSweep", "UnlockDeposits"}
FinalStates == {"HtlcTimeoutSwept", "Succeeded",
                "SucceededTransitioningFailed", "Failed"}
Decisions == {"accepted", "rejected"}

\* initiateLoopIn selected deposits that are active and Deposited, and OnInitHtlc
\* has been sent.
Init ==
    /\ state = "InitHtlcTx" /\ pc = "act" /\ dbState = "none"
    /\ known = "open" /\ deadline = "off" /\ confirmed = FALSE
    /\ block = FALSE
    /\ decision = "none" /\ dbDecision = "none"
    /\ updates = {} /\ cache = "none" /\ durable = FALSE /\ sent = {}
    /\ watch = 0 /\ dbWatch = 0
    /\ dep = [d \in Deposits |-> "Deposited"]
    /\ active = Deposits /\ locked = {} /\ other = {}
    /\ inv = "none" /\ asked = FALSE /\ sigs = FALSE /\ signed = FALSE
    /\ htlc = "none" /\ spent = [d \in Deposits |-> "no"]
    /\ txs = {} /\ sweptBy = 0 /\ height = 0
    /\ released = FALSE /\ lax = FALSE /\ faults = 0

Fault ==
    /\ faults < MaxFaults
    /\ faults' = faults + 1
-----------------------------------------------------------------------------
(***************************************************************************)
(* The table of LoopInStatesV0, and the transitions of the deposits.       *)
(***************************************************************************)
LoopInStatesV0 ==
    { <<"InitHtlcTx", "OnHtlcInitiated", "SignHtlcTx">>,
      <<"InitHtlcTx", "OnRecover", "UnlockDeposits">>,
      <<"InitHtlcTx", "OnError", "UnlockDeposits">>,
      <<"SignHtlcTx", "OnHtlcTxSigned", "MonitorInvoiceAndHtlcTx">>,
      <<"SignHtlcTx", "OnRecover", "UnlockDeposits">>,
      <<"SignHtlcTx", "OnError", "UnlockDeposits">>,
      <<"MonitorInvoiceAndHtlcTx", "OnPaymentReceived", "PaymentReceived">>,
      <<"MonitorInvoiceAndHtlcTx", "OnSweepHtlcTimeout", "SweepHtlcTimeout">>,
      <<"MonitorInvoiceAndHtlcTx", "OnSwapTimedOut", "Failed">>,
      <<"MonitorInvoiceAndHtlcTx", "OnRecover", "MonitorInvoiceAndHtlcTx">>,
      <<"MonitorInvoiceAndHtlcTx", "OnError", "UnlockDeposits">>,
      <<"SweepHtlcTimeout", "OnHtlcTimeoutSweepPublished",
        "MonitorHtlcTimeoutSweep">>,
      <<"SweepHtlcTimeout", "OnRecover", "SweepHtlcTimeout">>,
      <<"SweepHtlcTimeout", "OnError", "Failed">>,
      <<"MonitorHtlcTimeoutSweep", "OnHtlcTimeoutSwept", "HtlcTimeoutSwept">>,
      <<"MonitorHtlcTimeoutSweep", "OnRecover", "MonitorHtlcTimeoutSweep">>,
      <<"MonitorHtlcTimeoutSweep", "OnError", "Failed">>,
      <<"PaymentReceived", "OnSucceeded", "Succeeded">>,
      <<"PaymentReceived", "OnRecover", "Succeeded">>,
      <<"PaymentReceived", "OnError", "SucceededTransitioningFailed">>,
      <<"UnlockDeposits", "OnRecover", "UnlockDeposits">>,
      <<"UnlockDeposits", "OnError", "Failed">> }

To(s, e) == (CHOOSE t \in LoopInStatesV0 : t[1] = s /\ t[2] = e)[3]

\* SendEvent, up to the entry of the next state.
SendEvent(s, e) ==
    /\ state' = To(s, e)
    /\ pc' = IF To(s, e) = s THEN "act" ELSE "enter"


\* updateLoopIn: nothing is written before the swap is stored, and a failed
\* write is only logged.
UpdateLoopIn ==
    /\ pc = "enter"
    /\ \/ /\ dbState # "none"
          /\ dbState' = state /\ dbWatch' = watch
          /\ UNCHANGED faults
       \/ dbState = "none" /\ UNCHANGED <<dbState, dbWatch, faults>>
       \/ dbState # "none" /\ Fault /\ UNCHANGED <<dbState, dbWatch>>
    /\ pc' = IF state \in FinalStates THEN "done" ELSE "act"
    /\ UNCHANGED <<state, monvars, riskvars, watch, depvars, inv, extvars,
                   ghosts>>

At(s, p) == state = s /\ pc = p

\* Deposit d moves from its state to t, or is there already.
Moves(d, e, t) ==
    dep[d] = t \/ (Accepts(dep[d], e) /\ NextState(dep[d], e) = t)

\* The deposits of D up to the k-th are in t.
MovedUpTo(D, k, t) ==
    /\ dep' = [d \in Deposits |-> IF d \in D /\ d <= k THEN t ELSE dep[d]]
    /\ locked' = IF t = "LoopingIn"
                 THEN locked \cup {d \in D : d <= k} ELSE locked
    /\ other' = other \ {d \in D : dep'[d] # dep[d]}
    /\ UNCHANGED active

\* TransitionDeposits moves the deposits one after the other; every one must be
\* active, and the first that fails leaves the earlier ones moved.
TransitionDeposits(D, e, t) ==
    /\ \A d \in D : d \in active /\ dep[d] \notin Final
    /\ \A d \in D : Moves(d, e, t)
    /\ MovedUpTo(D, NumDeposits, t)

TransitionDepositsFails(D, e, t) ==
    \/ /\ \E d \in D : d \notin active \/ dep[d] \in Final
       /\ UNCHANGED <<depvars, faults>>
    \/ /\ \A d \in D : d \in active /\ dep[d] \notin Final
       /\ \E k \in D :
            /\ ~ Moves(k, e, t)
            /\ \A d \in D : d < k => Moves(d, e, t)
            /\ MovedUpTo(D, k - 1, t)
       /\ UNCHANGED faults
    \/ /\ \A d \in D : d \in active /\ dep[d] \notin Final
       /\ \E k \in 0 .. NumDeposits :
            /\ \A d \in D : d <= k => Moves(d, e, t)
            /\ MovedUpTo(D, k, t)
       /\ Fault
-----------------------------------------------------------------------------
(***************************************************************************)
(* From the request to the signatures of the htlc transaction.             *)
(***************************************************************************)

\* cancelSwapInvoice fails for a settled invoice, or if the call fails, before
\* or after lnd has canceled the invoice.
Canceled == IF inv = "open" THEN "canceled" ELSE inv
CancelSwapInvoice == inv # "settled" /\ inv' = Canceled /\ UNCHANGED faults
CancelSwapInvoiceFails ==
    \/ inv = "settled" /\ UNCHANGED <<inv, faults>>
    \/ inv # "settled" /\ Fault /\ inv' \in {inv, Canceled}

\* InitHtlcAction, first part: the deposits are locked.
LockDeposits ==
    /\ At("InitHtlcTx", "act")
    /\ \/ /\ TransitionDeposits(Deposits, "OnLoopInInitiated", "LoopingIn")
          /\ pc' = "invoice"
          /\ UNCHANGED <<state, faults>>
       \/ /\ TransitionDepositsFails(Deposits, "OnLoopInInitiated", "LoopingIn")
          /\ SendEvent(state, "OnError")
    /\ UNCHANGED <<dbState, monvars, riskvars, watchvars, inv, extvars, ghosts>>

AddInvoice ==
    /\ At("InitHtlcTx", "invoice")
    /\ \/ inv' = "open" /\ pc' = "request" /\ UNCHANGED <<state, faults>>
       \/ Fault /\ inv' = inv /\ SendEvent(state, "OnError")
    /\ UNCHANGED <<dbState, monvars, riskvars, watchvars, depvars, extvars,
                   ghosts>>

\* The server may answer with terms that the client refuses, or not at all; the
\* deferred function then cancels the invoice and only logs a failure.
ServerStaticAddressLoopIn ==
    /\ At("InitHtlcTx", "request")
    /\ \/ /\ asked' = TRUE /\ pc' = "store"
          /\ UNCHANGED <<state, inv, faults>>
       \/ /\ asked' \in BOOLEAN
          /\ CancelSwapInvoice \/ CancelSwapInvoiceFails
          /\ SendEvent(state, "OnError")
    /\ UNCHANGED <<dbState, monvars, riskvars, watchvars, depvars, sigs,
                   chainvars, txs, ghosts>>

CreateLoopIn ==
    /\ At("InitHtlcTx", "store")
    /\ \/ /\ dbState' = "InitHtlcTx"
          /\ SendEvent(state, "OnHtlcInitiated")
          /\ UNCHANGED <<inv, faults>>
       \/ /\ Fault
          /\ inv' = Canceled
          /\ SendEvent(state, "OnError")
          /\ UNCHANGED dbState
    /\ UNCHANGED <<monvars, riskvars, watchvars, depvars, extvars, ghosts>>

\* SignHtlcTxAction: an original outpoint is gone, a step fails, or the
\* signatures are pushed; a failed push may have reached the server.
SignHtlcTxAction ==
    /\ At("SignHtlcTx", "act")
    /\ \/ /\ \E d \in Deposits : spent[d] # "no"
          /\ CancelSwapInvoice \/ CancelSwapInvoiceFails
          /\ SendEvent(state, "OnError")
          /\ UNCHANGED sigs
       \/ /\ \A d \in Deposits : spent[d] = "no"
          /\ \/ /\ sigs' = TRUE
                /\ SendEvent(state, "OnHtlcTxSigned")
                /\ UNCHANGED faults
             \/ Fault /\ sigs' \in BOOLEAN /\ SendEvent(state, "OnError")
          /\ UNCHANGED inv
    /\ UNCHANGED <<dbState, monvars, riskvars, watchvars, depvars, asked,
                   chainvars, txs, ghosts>>
-----------------------------------------------------------------------------
(***************************************************************************)
(* MonitorInvoiceAndHtlcTxAction.                                          *)
(***************************************************************************)
Monitoring(p) == At("MonitorInvoiceAndHtlcTx", p)

\* The deferred calls and the locals that end with the action.
LeaveMonitor ==
    /\ updates' = {}
    /\ cache' = IF durable THEN "none" ELSE cache
    /\ durable' = FALSE
    /\ known' = "open" /\ deadline' = "off" /\ confirmed' = FALSE
    /\ block' = FALSE

Return(e) == SendEvent(state, e) /\ LeaveMonitor

Goto(p) == pc' = p /\ UNCHANGED state


\* Mutant: the last decision wins.
RecordLast(x) == x

\* RecordStaticAddressRiskDecision: a stored rejection is never overwritten.
Record(x) == IF dbDecision = "rejected" THEN "rejected" ELSE x

\* startPaymentDeadline
StartPaymentDeadline(inState) ==
    deadline' = IF deadline = "off" /\ inState # "canceled" THEN "armed"
                ELSE deadline

\* startLegacyFallback: the deposits may have the legacy depth, and the decision
\* counts once it is stored.
StartLegacyFallback(inState) ==
    \/ UNCHANGED <<decision, dbDecision, deadline>>
    \/ /\ deadline = "off" /\ inState # "canceled" /\ decision = "none"
       /\ Record("accepted") = "accepted"
       /\ dbDecision' = "accepted" /\ decision' = "accepted"
       /\ deadline' = "armed"

\* The subscriptions, the lookup of the invoice and the decision so far.
MonitorSubscribe ==
    /\ Monitoring("act")
    /\ \/ /\ inv = "settled"
          /\ Return("OnPaymentReceived")
          /\ UNCHANGED <<decision, dbDecision, faults>>
       \/ /\ \/ known' = inv /\ inv # "settled" /\ UNCHANGED faults
             \/ known' = "open" /\ Fault
          /\ updates' = {cache} \ {"none"}
          /\ cache' = IF durable THEN "none" ELSE cache
          /\ durable' = FALSE
          /\ confirmed' = FALSE /\ block' = TRUE
          /\ \/ /\ decision = "accepted"
                /\ StartPaymentDeadline(known')
                /\ UNCHANGED <<decision, dbDecision>>
                /\ Goto("select")
             \/ /\ decision = "rejected"
                /\ dbDecision' = Record("rejected")
                /\ UNCHANGED <<decision, deadline>>
                /\ Goto("rejected")
             \/ /\ decision = "none"
                /\ StartLegacyFallback(known')
                /\ Goto("select")
       \/ /\ Fault
          /\ Goto("retry")
          /\ UNCHANGED <<monvars, decision, dbDecision, updates, cache, durable>>
    /\ UNCHANGED <<dbState, sent, watchvars, depvars, inv, extvars, ghosts>>

\* retryMonitor
RetryMonitor ==
    /\ Monitoring("retry")
    /\ \/ /\ inv = "settled"
          /\ Return("OnPaymentReceived")
          /\ UNCHANGED faults
       \/ inv # "settled" /\ Return("OnRecover") /\ UNCHANGED faults
       \/ inv = "settled" /\ Return("OnRecover") /\ Fault
    /\ UNCHANGED <<dbState, decision, dbDecision, sent, watchvars, depvars, inv,
                   extvars, ghosts>>


\* cancelInvoice, then on to p.
CancelInvoice(p) ==
    \/ /\ known = "canceled"
       /\ Goto(p)
       /\ UNCHANGED <<known, inv, faults>>
    \/ /\ known # "canceled"
       /\ CancelSwapInvoice
       /\ known' = "canceled"
       /\ Goto(p)
    \/ /\ known # "canceled"
       /\ CancelSwapInvoiceFails
       /\ Goto("retry")
       /\ UNCHANGED known
\* transitionDepositsToHtlcTimeout: an error does not count if every deposit has
\* reached the state.
AllForTimeout == \A d \in Deposits : dep'[d] = "SweepHtlcTimeout"
NotForTimeout == {d \in Deposits : dep[d] # "SweepHtlcTimeout"}
LockForTimeoutStep ==
    \/ NotForTimeout = {} /\ UNCHANGED <<depvars, faults>>
    \/ /\ NotForTimeout # {}
       /\ TransitionDeposits(NotForTimeout, "OnSweepingHtlcTimeout",
                             "SweepHtlcTimeout")
       /\ UNCHANGED faults
    \/ /\ NotForTimeout # {}
       /\ TransitionDepositsFails(NotForTimeout, "OnSweepingHtlcTimeout",
                                  "SweepHtlcTimeout")

HtlcIsOnChain == htlc \in {"confirmed", "claimed", "swept"}

\* htlcConfChan
HtlcConfirmed ==
    /\ Monitoring("select")
    /\ ~ confirmed /\ HtlcIsOnChain
    /\ confirmed' = TRUE
    /\ \/ /\ known # "canceled"
          /\ UNCHANGED <<depvars, faults>> /\ Goto("select")
       \/ /\ known = "canceled"
          /\ LockForTimeoutStep
          /\ Goto(IF AllForTimeout THEN "select" ELSE "retry")
    /\ UNCHANGED <<dbState, known, deadline, block, riskvars, watchvars, inv,
                   extvars, ghosts>>

\* htlcErrConfChan, reorgChan: the next confirmation is awaited.
HtlcUnconfirmed ==
    /\ Monitoring("select")
    /\ confirmed' = FALSE
    /\ \/ confirmed /\ htlc = "mempool" /\ Goto("select") /\ UNCHANGED faults
       \/ Fault /\ \E p \in {"select", "retry"} : Goto(p)
    /\ UNCHANGED <<dbState, known, deadline, block, riskvars, watchvars, depvars,
                   inv, extvars, ghosts>>

\* blockChanErr, invoiceErrChan, or the invoice subscription closes.
SubscriptionFails ==
    /\ Monitoring("select")
    /\ Fault /\ Goto("retry")
    /\ UNCHANGED <<dbState, monvars, riskvars, watchvars, depvars, inv, extvars,
                   ghosts>>


\* Mutant: the deadline releases the deposits of an invoice that can still be
\* paid.
DeadlineFiresUncanceled ==
    /\ Monitoring("select") /\ deadline = "armed"
    /\ deadline' = "passed"
    /\ Goto("deadline")
    /\ UNCHANGED <<dbState, known, inv, faults, confirmed, block, riskvars,
                   watchvars, depvars, extvars, ghosts>>

\* deadlineChan, up to the cancellation of the invoice and from there on.
DeadlineFires ==
    /\ Monitoring("select") /\ deadline = "armed"
    /\ deadline' = "passed"
    /\ CancelInvoice("deadline")
    /\ UNCHANGED <<dbState, confirmed, block, riskvars, watchvars, depvars,
                   extvars, ghosts>>

DeadlinePassed ==
    /\ Monitoring("deadline")
    /\ \/ /\ confirmed
          /\ LockForTimeoutStep
          /\ Goto(IF AllForTimeout THEN "select" ELSE "retry")
          /\ UNCHANGED released
       \/ /\ ~ confirmed
          /\ \/ /\ TransitionDeposits(Deposits, "OnError", "Deposited")
                /\ UNCHANGED faults
                /\ Goto("select")
             \/ /\ TransitionDepositsFails(Deposits, "OnError", "Deposited")
                /\ Goto("retry")
          /\ released' = (released \/ dep' # dep)
    /\ UNCHANGED <<dbState, monvars, riskvars, watchvars, inv, extvars, lax>>

\* riskUpdateChan: the decision counts even if it could not be stored.
RiskUpdate ==
    /\ Monitoring("select")
    /\ \E x \in updates :
         /\ updates' = updates \ {x}
         /\ decision' = x
         /\ \/ dbDecision' = Record(x) /\ UNCHANGED faults
            \/ Fault /\ UNCHANGED dbDecision
         /\ \/ x = "accepted" /\ StartPaymentDeadline(known) /\ Goto("select")
            \/ x = "rejected" /\ UNCHANGED deadline /\ Goto("rejected")
    /\ UNCHANGED <<dbState, known, confirmed, block, cache, durable, sent,
                   watchvars, depvars, inv, extvars, ghosts>>

\* handleRiskRejected
RiskRejected ==
    /\ Monitoring("rejected")
    /\ \/ /\ known = "canceled"
          /\ Return("OnError") /\ UNCHANGED <<inv, faults>>
       \/ /\ known # "canceled" /\ CancelSwapInvoice
          /\ Return("OnError")
       \/ /\ known # "canceled" /\ CancelSwapInvoiceFails
          /\ Goto("retry")
          /\ UNCHANGED <<monvars, updates, cache, durable>>
    /\ UNCHANGED <<dbState, decision, dbDecision, sent, watchvars, depvars,
                   extvars, ghosts>>

\* isHtlcTimedOut at the block before the current one.
TimedOut == height - 1 >= HtlcCltvExpiry

\* blockChan, up to the cancellation of the invoice and from there on.
Block ==
    /\ Monitoring("select") /\ block
    /\ block' = FALSE
    /\ StartLegacyFallback(known)
    /\ \/ /\ ~ TimedOut
          /\ Goto("select")
          /\ UNCHANGED <<known, inv, faults>>
       \/ TimedOut /\ CancelInvoice("timeout")
    /\ UNCHANGED <<dbState, confirmed, ntfnvars, watchvars, depvars, extvars,
                   ghosts>>

HtlcTimedOut ==
    /\ Monitoring("timeout")
    /\ \/ /\ confirmed
          /\ LockForTimeoutStep
          /\ \/ AllForTimeout /\ Return("OnSweepHtlcTimeout")
             \/ /\ ~ AllForTimeout /\ Goto("retry")
                /\ UNCHANGED <<monvars, updates, cache, durable>>
          /\ UNCHANGED released
       \/ /\ ~ confirmed
          /\ TransitionDeposits(Deposits, "OnError", "Deposited")
          /\ Return("OnSwapTimedOut")
          /\ released' = (released \/ dep' # dep)
          /\ UNCHANGED faults
       \/ /\ ~ confirmed
          /\ TransitionDepositsFails(Deposits, "OnError", "Deposited")
          /\ Goto("retry")
          /\ released' = (released \/ dep' # dep)
          /\ UNCHANGED <<monvars, updates, cache, durable>>
    /\ UNCHANGED <<dbState, decision, dbDecision, sent, watchvars, inv, extvars,
                   lax>>


\* Mutant: any update that ends the invoice counts as the payment.
InvoiceUpdateEnds ==
    /\ Monitoring("select") /\ known # "canceled"
    /\ inv \in {"settled", "canceled"}
    /\ Return("OnPaymentReceived")
    /\ UNCHANGED <<dbState, decision, dbDecision, sent, watchvars, depvars, inv,
                   extvars, ghosts, faults>>

\* invoiceUpdateChan
InvoiceUpdate ==
    /\ Monitoring("select") /\ known # "canceled"
    /\ \/ /\ inv = "settled"
          /\ Return("OnPaymentReceived")
       \/ /\ inv = "canceled"
          /\ known' = "canceled"
          /\ UNCHANGED <<state, pc, deadline, confirmed, block, updates, cache,
                         durable>>
    /\ UNCHANGED <<dbState, decision, dbDecision, sent, watchvars, depvars, inv,
                   extvars, ghosts, faults>>
-----------------------------------------------------------------------------
(***************************************************************************)
(* The ends of a swap.                                                     *)
(***************************************************************************)
Versions == 1 .. MaxFaults + 1


\* Mutant: an htlc that is already spent is an error like any other.
SweepHtlcTimeoutActionSpent ==
    /\ At("SweepHtlcTimeout", "act")
    /\ htlc = "confirmed"
    /\ \E v \in Versions : watch' = v /\ txs' = txs \cup {v}
    /\ SendEvent(state, "OnHtlcTimeoutSweepPublished")
    /\ UNCHANGED <<dbState, monvars, riskvars, dbWatch, depvars, inv, asked,
                   sigs, chainvars, ghosts, faults>>

\* SweepHtlcTimeoutAction: a sweep is broadcast with the fee rate of the moment,
\* or the htlc is already spent; any other error is retried.
SweepHtlcTimeoutAction ==
    /\ At("SweepHtlcTimeout", "act")
    /\ \/ /\ htlc = "confirmed"
          /\ \E v \in Versions : watch' = v /\ txs' = txs \cup {v}
       \/ /\ htlc \in {"claimed", "swept"}
          /\ UNCHANGED <<watch, txs>>
    /\ SendEvent(state, "OnHtlcTimeoutSweepPublished")
    /\ UNCHANGED <<dbState, monvars, riskvars, dbWatch, depvars, inv, asked,
                   sigs, chainvars, ghosts, faults>>

\* A sweep confirmed that the swap waits for.
SweepIsSeen == htlc = "swept" /\ watch \in {0, sweptBy}

\* MonitorHtlcTimeoutSweepAction
MonitorHtlcTimeoutSweepAction ==
    /\ At("MonitorHtlcTimeoutSweep", "act")
    /\ \/ /\ SweepIsSeen
          /\ TransitionDeposits(Deposits, "OnHtlcTimeoutSwept",
                                "HtlcTimeoutSwept")
          /\ SendEvent(state, "OnHtlcTimeoutSwept")
          /\ UNCHANGED faults
       \/ /\ SweepIsSeen
          /\ TransitionDepositsFails(Deposits, "OnHtlcTimeoutSwept",
                                     "HtlcTimeoutSwept")
          /\ SendEvent(state, "OnError")
       \/ /\ Fault
          /\ SendEvent(state, "OnError")
          /\ UNCHANGED depvars
    /\ UNCHANGED <<dbState, monvars, riskvars, watchvars, inv, extvars, ghosts>>

PaymentReceivedAction ==
    /\ At("PaymentReceived", "act")
    /\ \/ /\ TransitionDeposits(Deposits, "OnLoopedIn", "LoopedIn")
          /\ SendEvent(state, "OnSucceeded")
          /\ UNCHANGED faults
       \/ /\ TransitionDepositsFails(Deposits, "OnLoopedIn", "LoopedIn")
          /\ SendEvent(state, "OnError")
    /\ UNCHANGED <<dbState, monvars, riskvars, watchvars, inv, extvars, ghosts>>

\* UnlockDepositsAction: the cancellation is attempted, and the deposits are
\* released whether or not it succeeds.
UnlockCancels ==
    /\ At("UnlockDeposits", "act")
    /\ \/ CancelSwapInvoice /\ UNCHANGED lax
       \/ /\ CancelSwapInvoiceFails
          /\ lax' = (lax \/ inv' \in {"open", "settled"})
    /\ Goto("unlock")
    /\ UNCHANGED <<dbState, monvars, riskvars, watchvars, depvars, extvars,
                   released>>

UnlockReleases ==
    /\ At("UnlockDeposits", "unlock")
    /\ \/ TransitionDeposits(Deposits, "OnError", "Deposited") /\ UNCHANGED faults
       \/ TransitionDepositsFails(Deposits, "OnError", "Deposited")
    /\ SendEvent(state, "OnError")
    /\ UNCHANGED <<dbState, monvars, riskvars, watchvars, inv, extvars, ghosts>>


\* Mutant: the sweep of any stored swap is signed.
SignSweeplessAny ==
    /\ pc # "down" /\ dbState # "none" /\ ~ signed
    /\ signed' = TRUE
    /\ UNCHANGED <<swapvars, monvars, riskvars, watchvars, depvars, inv, asked,
                   sigs, htlc, spent, txs, sweptBy, height, ghosts,
                   faults>>

\* handleLoopInSweepReq signs a sweep of the deposits for the server only when
\* the stored swap has succeeded.
SignSweepless ==
    /\ pc # "down" /\ dbState = "Succeeded" /\ ~ signed
    /\ signed' = TRUE
    /\ UNCHANGED <<swapvars, monvars, riskvars, watchvars, depvars, inv, asked,
                   sigs, htlc, spent, txs, sweptBy, height, ghosts,
                   faults>>
-----------------------------------------------------------------------------
(***************************************************************************)
(* The notification manager, and stops.                                    *)
(***************************************************************************)

\* handleStaticLoopInRiskDecision: store the decision, cache it for a later
\* subscription, and forward it to the current one.
Notify(x) ==
    /\ pc # "down" /\ asked /\ x \notin sent
    /\ sent' = sent \cup {x}
    /\ \/ /\ dbState # "none"
          /\ dbDecision' = Record(x) /\ durable' = TRUE
          /\ UNCHANGED faults
       \/ /\ dbState = "none"
          /\ durable' = FALSE /\ UNCHANGED <<dbDecision, faults>>
       \/ /\ dbState # "none" /\ Fault
          /\ durable' = FALSE /\ UNCHANGED dbDecision
    /\ cache' = x
    /\ updates' = IF state = "MonitorInvoiceAndHtlcTx"
                     /\ pc \notin {"enter", "act"}
                  THEN updates \cup {x} ELSE updates
    /\ UNCHANGED <<swapvars, monvars, decision, watchvars, depvars, inv, extvars,
                   ghosts>>

Stop ==
    /\ pc # "down" /\ Fault
    /\ pc' = "down"
    /\ known' = "open" /\ deadline' = "off" /\ confirmed' = FALSE
    /\ block' = FALSE
    /\ updates' = {} /\ cache' = "none" /\ durable' = FALSE
    /\ UNCHANGED <<state, dbState, decision, dbDecision, sent, watchvars, depvars,
                   inv, extvars, ghosts>>

\* recoverLoopIns, after the deposit manager has reconciled its deposits with
\* the wallet.
Restart ==
    /\ pc = "down"
    /\ active' = {d \in Deposits : /\ dep[d] \notin Final
                                   /\ dep[d] = "Deposited" => spent[d] = "no"}
    /\ \/ dbState \in PendingStates /\ SendEvent(dbState, "OnRecover")
       \/ dbState \notin PendingStates /\ Goto("done")
    /\ decision' = dbDecision /\ watch' = dbWatch
    /\ UNCHANGED <<dbState, monvars, dbDecision, ntfnvars, dbWatch, dep, locked,
                   other, inv, extvars, ghosts, faults>>
-----------------------------------------------------------------------------
(***************************************************************************)
(* The other users of the deposits, the wallet, the server and the chain.  *)
(***************************************************************************)
clientvars == <<swapvars, riskvars, watchvars, ghosts>>

\* A withdrawal takes an available deposit.
OtherTakes(d) ==
    /\ pc # "down" /\ d \in active /\ dep[d] = "Deposited"
    /\ dep' = [dep EXCEPT ![d] = "Withdrawing"]
    /\ other' = other \cup {d}
    /\ UNCHANGED <<clientvars, monvars, active, locked, inv, extvars, faults>>

OtherSpends(d) ==
    /\ pc # "down" /\ d \in other /\ dep[d] = "Withdrawing" /\ spent[d] = "no"
    /\ dep' = [dep EXCEPT ![d] = "Withdrawn"]
    /\ spent' = [spent EXCEPT ![d] = "other"]
    /\ UNCHANGED <<clientvars, monvars, active, locked, other, inv, asked, sigs,
                   signed, htlc, txs, sweptBy, height, faults>>

\* An output is spent without the deposit manager.
SpentOutside(d) ==
    /\ spent[d] = "no" /\ Fault
    /\ spent' = [spent EXCEPT ![d] = "other"]
    /\ UNCHANGED <<clientvars, monvars, depvars, inv, asked, sigs, signed, htlc,
                   txs, sweptBy, height>>

\* syncActiveDeposits: a Deposited deposit that the wallet no longer has is
\* dropped from activeDeposits.
Deactivate(d) ==
    /\ pc # "down" /\ d \in active /\ dep[d] = "Deposited" /\ spent[d] # "no"
    /\ active' = active \ {d}
    /\ UNCHANGED <<clientvars, monvars, dep, locked, other, inv, extvars, faults>>

ServerPays ==
    /\ asked /\ inv = "open"
    /\ inv' = "settled"
    /\ UNCHANGED <<clientvars, monvars, depvars, extvars, faults>>

Unspent == \A d \in Deposits : spent[d] = "no"

HtlcPublished ==
    /\ sigs /\ htlc = "none" /\ Unspent
    /\ htlc' = "mempool" /\ spent' = [d \in Deposits |-> "htlc"]
    /\ UNCHANGED <<clientvars, monvars, depvars, inv, asked, sigs, signed,
                   txs, sweptBy, height, faults>>

\* The monitor has not yet handled what is there, and is not waiting to retry.
MonitorIsBusy ==
    /\ state = "MonitorInvoiceAndHtlcTx" /\ pc \notin {"down", "retry"}
    /\ pc # "select" \/ block \/ (HtlcIsOnChain /\ ~ confirmed)

BlockIsMined ==
    /\ Prompt => ~ MonitorIsBusy
    /\ height' = IF height < MaxHeight THEN height + 1 ELSE height
    /\ block' = (/\ state = "MonitorInvoiceAndHtlcTx"
                 /\ pc \notin {"enter", "act", "down"})
    /\ UNCHANGED <<clientvars, known, deadline, confirmed, depvars, inv, asked,
                   sigs, signed, spent, txs, sweptBy, faults>>

NewBlock == BlockIsMined /\ UNCHANGED htlc

HtlcMined ==
    /\ htlc = "mempool" /\ BlockIsMined
    /\ htlc' = "confirmed"

Reorg ==
    /\ htlc = "confirmed" /\ Fault
    /\ htlc' = "mempool"
    /\ UNCHANGED <<clientvars, monvars, depvars, inv, asked, sigs, signed, spent,
                   txs, sweptBy, height>>

\* The htlc is spent by the server, or by a sweep of the timeout path.
HtlcSpent ==
    /\ htlc = "confirmed"
    /\ \/ inv = "settled" /\ htlc' = "claimed" /\ UNCHANGED sweptBy
       \/ /\ height >= HtlcCltvExpiry
          /\ htlc' = "swept" /\ sweptBy' \in txs
    /\ UNCHANGED <<clientvars, monvars, depvars, inv, asked, sigs, signed,
                   spent, txs, height, faults>>

SweeplessConfirms ==
    /\ signed /\ Unspent
    /\ spent' = [d \in Deposits |-> "sweepless"]
    /\ UNCHANGED <<clientvars, monvars, depvars, inv, asked, sigs, signed, htlc,
                   txs, sweptBy, height, faults>>
-----------------------------------------------------------------------------
Step ==
    \/ UpdateLoopIn \/ LockDeposits \/ AddInvoice \/ ServerStaticAddressLoopIn
    \/ CreateLoopIn \/ SignHtlcTxAction \/ MonitorSubscribe \/ RetryMonitor
    \/ DeadlinePassed \/ RiskRejected \/ HtlcTimedOut \/ SweepHtlcTimeoutAction
    \/ MonitorHtlcTimeoutSweepAction \/ PaymentReceivedAction \/ UnlockCancels
    \/ UnlockReleases

Select ==
    \/ HtlcConfirmed \/ HtlcUnconfirmed \/ SubscriptionFails \/ DeadlineFires
    \/ RiskUpdate \/ Block \/ InvoiceUpdate

Chain ==
    \/ HtlcPublished \/ NewBlock \/ HtlcMined \/ Reorg \/ HtlcSpent
    \/ SweeplessConfirms

Next ==
    \/ Step \/ Select \/ SignSweepless \/ Chain \/ ServerPays
    \/ \E x \in Decisions : Notify(x)
    \/ Stop \/ Restart
    \/ \E d \in Deposits : \/ OtherTakes(d) \/ OtherSpends(d)
                           \/ SpentOutside(d) \/ Deactivate(d)

Spec == Init /\ [][Next]_vars

\* The goroutine of the swap runs whenever it can, select picks among the cases
\* that are ready at random, the daemon is started again, blocks are mined and
\* a broadcast transaction confirms.  The server and the deadline owe nothing.
FairSpec ==
    /\ Spec
    /\ WF_vars(Step) /\ WF_vars(Restart)
    /\ SF_vars(HtlcConfirmed) /\ SF_vars(Block)
    /\ SF_vars(NewBlock) /\ WF_vars(HtlcMined) /\ WF_vars(HtlcSpent)
-----------------------------------------------------------------------------
(***************************************************************************)
(* Properties.                                                             *)
(***************************************************************************)
\* Every variable has its type, and the goroutine is at a point of the action of
\* its state.
TypeOK ==
    /\ state \in PendingStates \cup FinalStates
    /\ dbState \in PendingStates \cup FinalStates \cup {"none"}
    /\ pc \in {"enter", "act", "done", "down", "invoice", "request", "store",
               "select", "retry", "deadline", "timeout", "rejected", "unlock"}
    /\ pc \in {"select", "retry", "deadline", "timeout", "rejected"} =>
         state = "MonitorInvoiceAndHtlcTx"
    /\ pc = "done" => state \in FinalStates \/ dbState \notin PendingStates
    /\ known \in {"open", "canceled"}
    /\ deadline \in {"off", "armed", "passed"}
    /\ confirmed \in BOOLEAN /\ block \in BOOLEAN
    /\ decision \in Decisions \cup {"none"}
    /\ dbDecision \in Decisions \cup {"none"} /\ cache \in Decisions \cup {"none"}
    /\ updates \subseteq Decisions /\ sent \subseteq Decisions
    /\ durable \in BOOLEAN
    /\ watch \in Versions \cup {0} /\ dbWatch \in Versions \cup {0}
    /\ sweptBy \in Versions \cup {0}
    /\ txs \subseteq Versions
    /\ dep \in [Deposits -> States]
    /\ active \subseteq Deposits /\ locked \subseteq Deposits
    /\ other \subseteq Deposits
    /\ inv \in {"none", "open", "settled", "canceled"}
    /\ asked \in BOOLEAN /\ sigs \in BOOLEAN /\ signed \in BOOLEAN
    /\ released \in BOOLEAN /\ lax \in BOOLEAN
    /\ htlc \in {"none", "mempool", "confirmed", "claimed", "swept"}
    /\ spent \in [Deposits -> {"no", "htlc", "sweepless", "other"}]
    /\ height \in 0 .. MaxHeight /\ faults \in 0 .. MaxFaults

\* A deposit that the swap had locked is available again, or used elsewhere, only
\* when the swap's invoice can never be paid; the exception is UnlockDeposits,
\* which goes on when it could not cancel the invoice.
ReleasedOnlyUnpayable ==
    \A d \in locked :
        dep[d] \in {"Deposited", "Withdrawing", "Withdrawn"}
            => inv \in {"none", "canceled"} \/ lax

\* A swap that counts as paid, a looped-in deposit and a signature for the
\* server's sweep each stand for a settled invoice; a swap or a deposit that
\* counts as swept stands for a timeout sweep in the chain.
OutcomeMatches ==
    /\ (\/ {state, dbState} \cap {"PaymentReceived", "Succeeded",
                                  "SucceededTransitioningFailed"} # {}
        \/ signed
        \/ \E d \in Deposits : dep[d] = "LoopedIn")
           => inv = "settled"
    /\ (\/ "HtlcTimeoutSwept" \in {state, dbState}
        \/ \E d \in Deposits : dep[d] = "HtlcTimeoutSwept")
           => htlc = "swept"

\* Once stored, a rejection by the server outlives later acceptances, the legacy
\* fallback and restarts.
StoredRejectionKept ==
    [][dbDecision = "rejected" => dbDecision' = "rejected"]_dbDecision

\* The two legs: what becomes of the deposits, and of the invoice.
Leg ==
    IF htlc = "swept" THEN "refunded"
    ELSE IF htlc = "claimed" \/ \E d \in Deposits : spent[d] = "sweepless" THEN "claimed"
    ELSE IF sigs THEN "locked" ELSE "none"
PayLeg ==
    IF inv = "settled" THEN "paid" ELSE IF inv = "canceled" THEN "dead" ELSE "open"

AtomicSwap == INSTANCE AtomicSwap WITH leg <- Leg, pay <- PayLeg

\* The deposits and the invoice change hands together: the server gets the
\* deposits, by the htlc or by a sweep that the client signs, only against the
\* paid invoice, and the client gets the htlc back only when the invoice is dead.
ImplementsAtomicSwap == AtomicSwap!ASpec

\* A stored swap comes to an end, whatever the server does and whatever fails, as
\* long as the monitor itself has not released deposits of an htlc, and
\* the sweep that confirms is the last one that was broadcast.
LoopInEnds ==
    dbState \in PendingStates ~>
        \/ state \in FinalStates
        \/ released
        \/ sweptBy # 0 /\ watch \notin {0, sweptBy}
=============================================================================
