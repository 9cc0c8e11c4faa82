------------------------------ MODULE Payments ------------------------------
(***************************************************************************)
(* The off-chain payments of the loop-outs (payInvoice in loopout.go) and  *)
(* the routing plugin that they share (routing_plugin.go).  The payments   *)
(* run concurrently; at most one of them holds the plugin, which           *)
(* manipulates lnd's mission control between attempts and puts it back     *)
(* when it is released.                                                    *)
(*                                                                         *)
(* AcquireRoutingPlugin and ReleaseRoutingPlugin hold routingPluginMx from *)
(* beginning to end and are one step each.  Of mission control, the model  *)
(* has the pairs formed by the plugin's nodes and its target, with the     *)
(* same target for every payment; lnd's own changes to them are left out.  *)
(***************************************************************************)
EXTENDS Integers, FiniteSets

CONSTANTS
    Payers,             \* the calls of payInvoice
    Nobody,             \* not a payment
    UsesPlugin,         \* those that ask for the low/high plugin
    Nodes,              \* the peers of the target
    Fee,                \* the maximum fee of a peer
    Known,              \* the peers with an entry in mission control
    PaymentTimeout,     \* the timeout a payment asks for, 0 if none
    TotalPaymentTimeout, MaxPaymentRetries,
    MaxInterruptions    \* failing imports and crashes

ASSUME NodesAssumption ==
    /\ IsFiniteSet(Nodes) /\ Nodes # {}
    /\ Fee \in [Nodes -> Nat]
    /\ Known \subseteq Nodes
ASSUME PayersAssumption == UsesPlugin \subseteq Payers /\ Nobody \notin Payers
ASSUME TimeoutAssumption ==
    /\ MaxPaymentRetries \in Nat \ {0} /\ TotalPaymentTimeout \in Nat \ {0}
    /\ PaymentTimeout \in [Payers -> 0..TotalPaymentTimeout]
    /\ MaxInterruptions \in Nat

VARIABLES
    phase,      \* where a payment is
    held,       \* it has been given the plugin
    try,        \* tryCount
    retries,    \* maxRetries
    timeout,    \* the timeout of one attempt
    elapsed,    \* the time that its attempts may have taken
    routingPluginInstance,  \* the payment whose plugin is the instance
    mcState,    \* what a payment's plugin has saved
    mcChanged,
    mc,         \* mission control
    lost,       \* history: the changes of mission control can't be undone
    interruptions

payVars == <<phase, held, try, retries, timeout, elapsed>>
mcVars == <<routingPluginInstance, mcState, mcChanged, mc, lost, interruptions>>
paymentVars == <<payVars, mcVars>>

\* An entry of mission control: one that lnd made itself, none, the entry that Done
\* makes for a pair that had none, and those that the plugin makes.
Own == {"entry", "none", "capacity"}
Entries == Own \cup {"discouraged", "encouraged"}
\* mcState is nil before Init and after Done.
Nil == [n \in {} |-> "none"]

PaymentsTypeOK ==
    /\ phase \in [Payers -> {"idle", "before", "pay", "return", "done"}]
    /\ held \in [Payers -> BOOLEAN]
    /\ try \in [Payers -> Nat] /\ retries \in [Payers -> Nat]
    /\ timeout \in [Payers -> Nat] /\ elapsed \in [Payers -> Nat]
    /\ routingPluginInstance \in Payers \cup {Nobody}
    /\ mcState \in [Payers -> [Nodes -> Entries] \cup {Nil}]
    /\ mcChanged \in [Payers -> BOOLEAN]
    /\ mc \in [Nodes -> Entries]
    /\ lost \in BOOLEAN /\ interruptions \in 0..MaxInterruptions

InitPayments ==
    /\ phase = [p \in Payers |-> "idle"] /\ held = [p \in Payers |-> FALSE]
    /\ try = [p \in Payers |-> 0] /\ retries = [p \in Payers |-> 0]
    /\ timeout = [p \in Payers |-> 0] /\ elapsed = [p \in Payers |-> 0]
    /\ routingPluginInstance = Nobody
    /\ mcState = [p \in Payers |-> Nil] /\ mcChanged = [p \in Payers |-> FALSE]
    /\ mc = [n \in Nodes |-> IF n \in Known THEN "entry" ELSE "none"]
    /\ lost = FALSE /\ interruptions = 0

Interrupted == interruptions < MaxInterruptions /\ interruptions' = interruptions + 1

-----------------------------------------------------------------------------
(* payInvoice up to its first attempt *)

Timeout(p, plugin) ==
    IF PaymentTimeout[p] # 0 THEN PaymentTimeout[p]
    ELSE IF plugin THEN TotalPaymentTimeout \div MaxPaymentRetries
                   ELSE TotalPaymentTimeout

\* Mutant: the retries are not adjusted to the timeout.
RetriesUnadjusted(p, plugin) == IF plugin THEN MaxPaymentRetries ELSE 1

Retries(p, plugin) ==
    IF ~plugin THEN 1
    ELSE IF Timeout(p, plugin) * MaxPaymentRetries > TotalPaymentTimeout
         THEN TotalPaymentTimeout \div Timeout(p, plugin)
         ELSE MaxPaymentRetries

Prepare(p, plugin) ==
    /\ held' = [held EXCEPT ![p] = plugin]
    /\ timeout' = [timeout EXCEPT ![p] = Timeout(p, plugin)]
    /\ retries' = [retries EXCEPT ![p] = Retries(p, plugin)]
    /\ try' = [try EXCEPT ![p] = 1]
    /\ elapsed' = [elapsed EXCEPT ![p] = 0]
    /\ phase' = [phase EXCEPT ![p] = "before"]

\* Init of the plugin finds its target and saves the state of mission control.
InitPlugin(p) ==
    /\ mcState' = [mcState EXCEPT ![p] = mc]
    /\ mcChanged' = [mcChanged EXCEPT ![p] = FALSE]

\* The plugin is free and Init succeeds.
AcquireRoutingPlugin(p) ==
    /\ phase[p] = "idle"
    /\ p \in UsesPlugin /\ routingPluginInstance = Nobody
    /\ routingPluginInstance' = p
    /\ InitPlugin(p)
    /\ Prepare(p, TRUE)
    /\ UNCHANGED <<mc, lost, interruptions>>

\* No plugin is asked for, another payment has it, or it is not applicable.
WithoutPlugin(p) ==
    /\ phase[p] = "idle"
    /\ Prepare(p, FALSE)
    /\ UNCHANGED mcVars

\* The invoice cannot be decoded, or Init fails.
PayInvoiceFails(p) ==
    /\ phase[p] = "idle"
    /\ phase' = [phase EXCEPT ![p] = "done"]
    /\ UNCHANGED <<held, try, retries, timeout, elapsed, mcVars>>

-----------------------------------------------------------------------------
(* sendPaymentWithRetry *)

MinFee == CHOOSE f \in {Fee[n] : n \in Nodes} : \A n \in Nodes : f <= Fee[n]
MaxFee == CHOOSE f \in {Fee[n] : n \in Nodes} : \A n \in Nodes : f >= Fee[n]

\* The peers below a limit that grows from the lowest to the highest fee.
Discouraged(attempt, attempts) ==
    {n \in Nodes :
        Fee[n] < MinFee + ((MaxFee - MinFee) \div attempts) * attempt}

Import(D) == [n \in Nodes |-> IF n \in D THEN "discouraged" ELSE "encouraged"]

\* The plugin only intervenes from the second attempt on, and gives up when no peer
\* is left.  An import that fails may have taken effect.
BeforePayment(p) ==
    /\ phase[p] = "before"
    /\ LET D == Discouraged(try[p], retries[p]) IN
       \/ /\ ~held[p] \/ try[p] < 2
          /\ phase' = [phase EXCEPT ![p] = "pay"]
          /\ UNCHANGED mcVars
       \/ /\ held[p] /\ try[p] >= 2 /\ D = Nodes
          /\ phase' = [phase EXCEPT ![p] = "return"]
          /\ UNCHANGED mcVars
       \/ /\ held[p] /\ try[p] >= 2 /\ D # Nodes
          /\ mc' = Import(D)
          /\ mcChanged' = [mcChanged EXCEPT ![p] = TRUE]
          /\ phase' = [phase EXCEPT ![p] = "pay"]
          /\ UNCHANGED <<routingPluginInstance, mcState, lost, interruptions>>
       \/ /\ held[p] /\ try[p] >= 2 /\ D # Nodes /\ Interrupted
          /\ \/ UNCHANGED <<mc, lost>>
             \/ mc' = Import(D) /\ lost' = (lost \/ ~mcChanged[p])
          /\ phase' = [phase EXCEPT ![p] = "return"]
          /\ UNCHANGED <<routingPluginInstance, mcState, mcChanged>>
    /\ UNCHANGED <<held, try, retries, timeout, elapsed>>

\* The attempt ends within its timeout: the payment succeeds, fails or its stream
\* breaks, or it runs into the timeout and is tried again.
AwaitSendPayment(p) ==
    /\ phase[p] = "pay"
    /\ elapsed' = [elapsed EXCEPT ![p] = elapsed[p] + timeout[p]]
    /\ \/ phase' = [phase EXCEPT ![p] = "return"] /\ UNCHANGED try
       \/ /\ try[p] <= retries[p]
          /\ phase' = [phase EXCEPT ![p] = "before"]
          /\ try' = [try EXCEPT ![p] = try[p] + 1]
    /\ UNCHANGED <<held, retries, timeout, mcVars>>

-----------------------------------------------------------------------------
(* The end of payInvoice *)

\* What Done puts back.
Restored(q) == [n \in Nodes |-> IF mcState[q][n] = "none" THEN "capacity"
                                                          ELSE mcState[q][n]]

\* Done of the plugin of q.
Done(q) ==
    /\ mcState' = [mcState EXCEPT ![q] = Nil]
    /\ \/ mcState[q] = Nil /\ UNCHANGED <<mc, lost, interruptions>>
       \/ /\ mcState[q] # Nil /\ ~mcChanged[q]
          /\ UNCHANGED <<mc, lost, interruptions>>
       \/ /\ mcState[q] # Nil /\ mcChanged[q]
          /\ \/ mc' = Restored(q) /\ UNCHANGED <<lost, interruptions>>
             \/ Interrupted /\ mc' \in {mc, Restored(q)} /\ lost' = TRUE

\* Mutant: every payment releases the plugin.
DeferredAlways(p) == TRUE

\* Only a payment that was given the plugin releases it.
Deferred(p) == held[p]

ReleaseRoutingPlugin(p) ==
    /\ phase[p] = "return"
    /\ IF Deferred(p) /\ routingPluginInstance # Nobody
       THEN Done(routingPluginInstance) /\ routingPluginInstance' = Nobody
       ELSE UNCHANGED <<routingPluginInstance, mcState, mc, lost, interruptions>>
    /\ phase' = [phase EXCEPT ![p] = "done"]
    /\ held' = [held EXCEPT ![p] = FALSE]
    /\ UNCHANGED <<try, retries, timeout, elapsed, mcChanged>>

\* The daemon is killed and started again: the loop-outs are resumed and pay again.
Crash ==
    /\ Interrupted
    /\ phase' = [p \in Payers |-> IF phase[p] = "done" THEN "done" ELSE "idle"]
    /\ held' = [p \in Payers |-> FALSE]
    /\ routingPluginInstance' = Nobody
    /\ mcState' = [p \in Payers |-> Nil] /\ mcChanged' = [p \in Payers |-> FALSE]
    /\ lost' = (lost \/ \E n \in Nodes : mc[n] \notin Own)
    /\ UNCHANGED <<try, retries, timeout, elapsed, mc>>

NextPayment ==
    \/ \E p \in Payers : AcquireRoutingPlugin(p)
    \/ \E p \in Payers : WithoutPlugin(p)
    \/ \E p \in Payers : PayInvoiceFails(p)
    \/ \E p \in Payers : BeforePayment(p)
    \/ \E p \in Payers : AwaitSendPayment(p)
    \/ \E p \in Payers : ReleaseRoutingPlugin(p)
    \/ Crash

PaymentsSpec == InitPayments /\ [][NextPayment]_paymentVars

-----------------------------------------------------------------------------
(* Properties *)

\* When no payment has the plugin, nothing that the plugin did to mission control
\* is left, whatever other payments do at the same time and however the payment
\* ends: entries that were there are back, the others say that the peer's capacity
\* can be sent.  This excepts what the code cannot undo: the daemon is killed with
\* the changes in place, or an import's answer is lost (Init, BeforePayment, Done,
\* ReleaseRoutingPlugin).
MissionControlRestored ==
    routingPluginInstance = Nobody /\ ~lost =>
        \A n \in Nodes : /\ mc[n] \in Own
                         /\ n \in Known => mc[n] = "entry"

\* A payment takes at most the timeout of one attempt longer than
\* totalPaymentTimeout: sendPaymentWithRetry tries once more than maxRetries, which
\* payInvoice has adjusted to the total timeout.
TimeoutKept ==
    \A p \in Payers : elapsed[p] <= TotalPaymentTimeout + timeout[p]
=============================================================================
