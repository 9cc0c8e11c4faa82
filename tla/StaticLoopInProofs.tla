-------------------------- MODULE StaticLoopInProofs --------------------------
(***************************************************************************)
(* For any number of deposits, heights and failures: deposits of a static  *)
(* loop-in are released only when its invoice can never be paid, its       *)
(* outcome is what invoice and chain say, a stored rejection is kept, and  *)
(* the swap implements AtomicSwap.                                         *)
(*                                                                         *)
(* None of the invariants is inductive.  A release is safe because of what *)
(* the goroutine knows when it comes to it: the monitor has canceled the   *)
(* invoice or seen it canceled, UnlockDeposits has tried (Beliefs).  The   *)
(* timeout sweep is broadcast only in states that are entered with a       *)
(* canceled invoice, also by recovery (Timeouts), and the server has the   *)
(* signatures of the htlc whenever something depends on it (Signatures).   *)
(***************************************************************************)
EXTENDS StaticLoopIn, TLAPS

\* What the monitor knows of the invoice is true, and it goes on to release or to
\* sweep only with a canceled invoice.
Beliefs ==
    /\ known = "canceled" => inv = "canceled"
    /\ pc \in {"deadline", "timeout"} => inv = "canceled"
    /\ pc = "unlock" => state = "UnlockDeposits"
                        /\ (inv \in {"none", "canceled"} \/ lax)

\* The invoice is there from its creation on, and InitHtlcTx is not entered again.
Begins ==
    /\ state = "InitHtlcTx" /\ pc \in {"act", "invoice"} => inv = "none"
    /\ state = "InitHtlcTx" => pc # "enter"
    /\ pc \in {"invoice", "request", "store"} => state = "InitHtlcTx"
    /\ pc \in {"request", "store"} \/ dbState # "none" => inv # "none"
    /\ state \notin {"InitHtlcTx", "UnlockDeposits", "Failed"} => inv # "none"

Paid == {"PaymentReceived", "Succeeded", "SucceededTransitioningFailed"}
Timeout == {"SweepHtlcTimeout", "MonitorHtlcTimeoutSweep", "HtlcTimeoutSwept"}
Signed == Paid \cup Timeout \cup {"MonitorInvoiceAndHtlcTx"}

\* The server has the signatures in the states after SignHtlcTx, in memory or stored,
\* and not before; the htlc spends all deposits.
Signatures ==
    /\ state \in Signed \/ dbState \in Signed \/ signed \/ htlc # "none" => sigs
    /\ state \in {"InitHtlcTx", "SignHtlcTx"} => ~sigs
    /\ htlc # "none" => \A d \in Deposits : spent[d] = "htlc"

\* The timeout path is taken only with a canceled invoice.
Timeouts == state \in Timeout \/ dbState \in Timeout \/ txs # {} => inv = "canceled"

\* A swap that counts as paid or swept is.
Outcome ==
    /\ state \in Paid \/ dbState \in Paid \/ signed => inv = "settled"
    /\ "HtlcTimeoutSwept" = state \/ "HtlcTimeoutSwept" = dbState => htlc = "swept"

\* The deposits that this swap has locked, looped in or swept.
Held ==
    /\ pc = "act" /\ state = "InitHtlcTx" => locked = {}
    /\ pc \in {"invoice", "request", "store"} => \A d \in Deposits : dep[d] = "LoopingIn"
    /\ ReleasedOnlyUnpayable
    /\ \A d \in Deposits : /\ dep[d] = "LoopedIn" => inv = "settled"
                           /\ dep[d] = "HtlcTimeoutSwept" => htlc = "swept"

Control == Beliefs /\ Begins /\ Signatures /\ Timeouts /\ Outcome

Inv == TypeOK /\ Control /\ Held

-----------------------------------------------------------------------------
(* The tables. *)

\* No two rows of LoopInStatesV0 have the same state and event.
LEMMA Unique ==
    \A t, u \in LoopInStatesV0 : t[1] = u[1] /\ t[2] = u[2] => t[3] = u[3]
BY SMTT(60) DEF LoopInStatesV0

\* SendEvent goes where the table says.
LEMMA Row ==
    ASSUME NEW s, NEW e, NEW t, <<s, e, t>> \in LoopInStatesV0
    PROVE  To(s, e) = t
<1> DEFINE u == <<s, e, t>>
           c == CHOOSE r \in LoopInStatesV0 : r[1] = s /\ r[2] = e
<1>1. u[1] = s /\ u[2] = e /\ u[3] = t
  OBVIOUS
<1>2. c \in LoopInStatesV0 /\ c[1] = s /\ c[2] = e
  BY <1>1, Zenon
<1>q. QED BY <1>1, <1>2, Unique, Zenon DEF To

\* The transitions that the actions send.
LEMMA Rows ==
    /\ To("InitHtlcTx", "OnHtlcInitiated") = "SignHtlcTx"
    /\ To("InitHtlcTx", "OnError") = "UnlockDeposits"
    /\ To("SignHtlcTx", "OnHtlcTxSigned") = "MonitorInvoiceAndHtlcTx"
    /\ To("SignHtlcTx", "OnError") = "UnlockDeposits"
    /\ To("MonitorInvoiceAndHtlcTx", "OnPaymentReceived") = "PaymentReceived"
    /\ To("MonitorInvoiceAndHtlcTx", "OnSweepHtlcTimeout") = "SweepHtlcTimeout"
    /\ To("MonitorInvoiceAndHtlcTx", "OnSwapTimedOut") = "Failed"
    /\ To("MonitorInvoiceAndHtlcTx", "OnRecover") = "MonitorInvoiceAndHtlcTx"
    /\ To("MonitorInvoiceAndHtlcTx", "OnError") = "UnlockDeposits"
    /\ To("SweepHtlcTimeout", "OnHtlcTimeoutSweepPublished") = "MonitorHtlcTimeoutSweep"
    /\ To("MonitorHtlcTimeoutSweep", "OnHtlcTimeoutSwept") = "HtlcTimeoutSwept"
    /\ To("MonitorHtlcTimeoutSweep", "OnError") = "Failed"
    /\ To("PaymentReceived", "OnSucceeded") = "Succeeded"
    /\ To("PaymentReceived", "OnError") = "SucceededTransitioningFailed"
    /\ To("UnlockDeposits", "OnError") = "Failed"
<1>1. /\ <<"InitHtlcTx", "OnHtlcInitiated", "SignHtlcTx">> \in LoopInStatesV0
      /\ <<"InitHtlcTx", "OnError", "UnlockDeposits">> \in LoopInStatesV0
      /\ <<"SignHtlcTx", "OnHtlcTxSigned", "MonitorInvoiceAndHtlcTx">> \in LoopInStatesV0
      /\ <<"SignHtlcTx", "OnError", "UnlockDeposits">> \in LoopInStatesV0
      /\ <<"MonitorInvoiceAndHtlcTx", "OnPaymentReceived", "PaymentReceived">> \in LoopInStatesV0
      /\ <<"MonitorInvoiceAndHtlcTx", "OnSweepHtlcTimeout", "SweepHtlcTimeout">> \in LoopInStatesV0
      /\ <<"MonitorInvoiceAndHtlcTx", "OnSwapTimedOut", "Failed">> \in LoopInStatesV0
      /\ <<"MonitorInvoiceAndHtlcTx", "OnRecover", "MonitorInvoiceAndHtlcTx">> \in LoopInStatesV0
      /\ <<"MonitorInvoiceAndHtlcTx", "OnError", "UnlockDeposits">> \in LoopInStatesV0
      /\ <<"SweepHtlcTimeout", "OnHtlcTimeoutSweepPublished", "MonitorHtlcTimeoutSweep">> \in LoopInStatesV0
      /\ <<"MonitorHtlcTimeoutSweep", "OnHtlcTimeoutSwept", "HtlcTimeoutSwept">> \in LoopInStatesV0
      /\ <<"MonitorHtlcTimeoutSweep", "OnError", "Failed">> \in LoopInStatesV0
      /\ <<"PaymentReceived", "OnSucceeded", "Succeeded">> \in LoopInStatesV0
      /\ <<"PaymentReceived", "OnError", "SucceededTransitioningFailed">> \in LoopInStatesV0
      /\ <<"UnlockDeposits", "OnError", "Failed">> \in LoopInStatesV0
  BY Zenon DEF LoopInStatesV0
<1>q. QED BY <1>1, Row

\* Where recovery goes from a stored state.
LEMMA Recovers ==
    ASSUME NEW s \in PendingStates
    PROVE  /\ To(s, "OnRecover") \in PendingStates \cup {"Succeeded"}
           /\ To(s, "OnRecover") = s \/ s \notin Timeout \cup {"UnlockDeposits"}
           /\ To(s, "OnRecover") \in {s, "UnlockDeposits", "Succeeded"}
           /\ To(s, "OnRecover") = "Succeeded" <=> s = "PaymentReceived"
           /\ s \in {"InitHtlcTx", "SignHtlcTx"} => To(s, "OnRecover") = "UnlockDeposits"
           /\ To(s, "OnRecover") = "UnlockDeposits"
                => s \in {"InitHtlcTx", "SignHtlcTx", "UnlockDeposits"}
<1>1. /\ <<"InitHtlcTx", "OnRecover", "UnlockDeposits">> \in LoopInStatesV0
      /\ <<"SignHtlcTx", "OnRecover", "UnlockDeposits">> \in LoopInStatesV0
      /\ <<"MonitorInvoiceAndHtlcTx", "OnRecover", "MonitorInvoiceAndHtlcTx">> \in LoopInStatesV0
      /\ <<"SweepHtlcTimeout", "OnRecover", "SweepHtlcTimeout">> \in LoopInStatesV0
      /\ <<"MonitorHtlcTimeoutSweep", "OnRecover", "MonitorHtlcTimeoutSweep">> \in LoopInStatesV0
      /\ <<"PaymentReceived", "OnRecover", "Succeeded">> \in LoopInStatesV0
      /\ <<"UnlockDeposits", "OnRecover", "UnlockDeposits">> \in LoopInStatesV0
  BY Zenon DEF LoopInStatesV0
<1>2. /\ To("InitHtlcTx", "OnRecover") = "UnlockDeposits"
      /\ To("SignHtlcTx", "OnRecover") = "UnlockDeposits"
      /\ To("MonitorInvoiceAndHtlcTx", "OnRecover") = "MonitorInvoiceAndHtlcTx"
      /\ To("SweepHtlcTimeout", "OnRecover") = "SweepHtlcTimeout"
      /\ To("MonitorHtlcTimeoutSweep", "OnRecover") = "MonitorHtlcTimeoutSweep"
      /\ To("PaymentReceived", "OnRecover") = "Succeeded"
      /\ To("UnlockDeposits", "OnRecover") = "UnlockDeposits"
  BY <1>1, Row, Zenon
<1>q. QED BY <1>2, Zenon DEF PendingStates, Timeout

\* The states of a deposit that the actions name.
LEMMA DepositNames ==
    {"Deposited", "LoopingIn", "LoopedIn", "SweepHtlcTimeout", "HtlcTimeoutSwept",
     "Withdrawing", "Withdrawn"} \subseteq States
<1>1. /\ <<"Deposited", "OnWithdrawInitiated", "Withdrawing">> \in Transitions
      /\ <<"Withdrawing", "OnWithdrawn", "Withdrawn">> \in Transitions
      /\ <<"LoopingIn", "OnLoopedIn", "LoopedIn">> \in Transitions
      /\ <<"SweepHtlcTimeout", "OnHtlcTimeoutSwept", "HtlcTimeoutSwept">> \in Transitions
  BY Zenon DEF Transitions
<1>2. \A a, b, c : <<a, b, c>> \in Transitions => a \in States /\ c \in States
  <2>. SUFFICES ASSUME NEW a, NEW b, NEW c, <<a, b, c>> \in Transitions
                PROVE  a \in States /\ c \in States
    OBVIOUS
  <2>1. <<a, b, c>>[1] = a /\ <<a, b, c>>[3] = c
    OBVIOUS
  <2>q. QED BY <2>1, Zenon DEF States
<1>q. QED BY <1>1, <1>2, Zenon

-----------------------------------------------------------------------------
(* What a transition of deposits does. *)

\* The failures stay within their bound.
LEMMA FaultCounts == ASSUME TypeOK, Fault PROVE faults' \in 0 .. MaxFaults
BY FaultsAssumption DEF TypeOK, Fault

\* TransitionDeposits moves some of the deposits to the state it is asked for.
LEMMA Transitioned ==
    ASSUME TypeOK, NEW D \in SUBSET Deposits, NEW e, NEW t \in States,
           TransitionDeposits(D, e, t) \/ TransitionDepositsFails(D, e, t)
    PROVE  /\ dep' \in [Deposits -> States] /\ active' = active
           /\ \A d \in Deposits : dep'[d] = dep[d] \/ dep'[d] = t
           /\ locked' \subseteq Deposits /\ other' \subseteq Deposits
           /\ t # "LoopingIn" => locked' = locked
           /\ \A d \in locked' : d \in locked \/ dep'[d] = t
<1>1. CASE UNCHANGED depvars
  BY <1>1, Zenon DEF depvars, TypeOK
<1>2. CASE \E k \in Int : MovedUpTo(D, k, t)
  <2>. PICK k \in Int : MovedUpTo(D, k, t)
    BY <1>2, Zenon
  <2>1. /\ dep' = [d \in Deposits |-> IF d \in D /\ d <= k THEN t ELSE dep[d]]
        /\ active' = active
        /\ other' = other \ {d \in D : dep'[d] # dep[d]}
        /\ t # "LoopingIn" => locked' = locked
        /\ locked' \in {locked, locked \cup {d \in D : d <= k}}
    BY Zenon DEF MovedUpTo
  <2>2. /\ dep \in [Deposits -> States] /\ locked \subseteq Deposits
        /\ other \subseteq Deposits
    BY Zenon DEF TypeOK
  <2>q. QED BY <2>1, <2>2, Zenon
<1>3. NumDeposits \in Int /\ (\A k \in Deposits : k - 1 \in Int)
      /\ (\A k \in 0 .. NumDeposits : k \in Int)
  BY DepositsAssumption DEF Deposits
<1>q. QED
  BY <1>1, <1>2, <1>3, Zenon DEF TransitionDeposits, TransitionDepositsFails

\* A failing transition counts its failure.
LEMMA TransitionFaults ==
    ASSUME TypeOK, NEW D, NEW e, NEW t, TransitionDepositsFails(D, e, t)
    PROVE  faults' \in 0 .. MaxFaults
<1>1. faults' = faults \/ Fault
  BY Zenon DEF TransitionDepositsFails
<1>2. faults \in 0 .. MaxFaults
  BY Zenon DEF TypeOK
<1>q. QED BY <1>1, <1>2, FaultCounts, Zenon

-----------------------------------------------------------------------------
(* The control. *)

\* Every step keeps what the goroutine knows, what is stored and what the chain shows.
LEMMA ControlStep == Inv /\ [Next]_vars => Control'
<1>. SUFFICES ASSUME TypeOK, Control, [Next]_vars PROVE Control'
  BY Zenon DEF Inv
<1>. USE DEF Control, Beliefs, Begins, Signatures, Timeouts, Outcome, Signed, Paid, Timeout,
            PendingStates, FinalStates
<1>1. CASE UpdateLoopIn
  BY <1>1 DEF UpdateLoopIn, monvars, riskvars, ntfnvars, extvars, chainvars, ghosts,
     TypeOK
<1>2. CASE LockDeposits
  BY <1>2, Rows, Zenon
  DEF LockDeposits, At, SendEvent, monvars, riskvars, ntfnvars, watchvars, extvars,
      chainvars, ghosts, TypeOK
<1>3. CASE AddInvoice
  BY <1>3, Rows, Zenon
  DEF AddInvoice, At, SendEvent, monvars, riskvars, ntfnvars, watchvars, extvars,
      chainvars, ghosts, TypeOK
<1>4. CASE ServerStaticAddressLoopIn
  BY <1>4, Rows, Zenon
  DEF ServerStaticAddressLoopIn, At, CancelSwapInvoice, Canceled, CancelSwapInvoiceFails,
      SendEvent, monvars, riskvars, ntfnvars, watchvars, chainvars, ghosts, TypeOK
<1>5. CASE CreateLoopIn
  BY <1>5, Rows, Zenon
  DEF CreateLoopIn, At, SendEvent, Canceled, monvars, riskvars, ntfnvars, watchvars,
      extvars, chainvars, ghosts, TypeOK
<1>6. CASE SignHtlcTxAction
  BY <1>6, Rows, Zenon
  DEF SignHtlcTxAction, At, CancelSwapInvoice, Canceled, CancelSwapInvoiceFails,
      SendEvent, monvars, riskvars, ntfnvars, watchvars, chainvars, ghosts, TypeOK
<1>7. CASE MonitorSubscribe
  BY <1>7, Rows, Zenon
  DEF MonitorSubscribe, Monitoring, At, Return, SendEvent, LeaveMonitor,
      StartPaymentDeadline, Goto, Record, StartLegacyFallback, monvars, watchvars,
      extvars, chainvars, ghosts, TypeOK
<1>8. CASE RetryMonitor
  BY <1>8, Rows, Zenon
  DEF RetryMonitor, Monitoring, At, Return, SendEvent, LeaveMonitor, watchvars, extvars,
      chainvars, ghosts, TypeOK
<1>9. CASE DeadlinePassed
  BY <1>9, Zenon
  DEF DeadlinePassed, Monitoring, At, LockForTimeoutStep, NotForTimeout, Goto,
      AllForTimeout, monvars, riskvars, ntfnvars, watchvars, extvars, chainvars, TypeOK
<1>10. CASE RiskRejected
  BY <1>10, Rows DEF RiskRejected, Monitoring, At, Return, SendEvent, LeaveMonitor,
     CancelSwapInvoice, Canceled, CancelSwapInvoiceFails, Goto, monvars, watchvars,
     extvars, chainvars, ghosts, TypeOK
<1>11. CASE HtlcTimedOut
  BY <1>11, Rows, Zenon
  DEF HtlcTimedOut, Monitoring, At, LockForTimeoutStep, NotForTimeout, AllForTimeout,
      Return, SendEvent, LeaveMonitor, Goto, monvars, watchvars, extvars, chainvars,
      TypeOK
<1>12. CASE SweepHtlcTimeoutAction
  BY <1>12, Rows, Zenon
  DEF SweepHtlcTimeoutAction, At, SendEvent, monvars, riskvars, ntfnvars, chainvars,
      ghosts, TypeOK
<1>13. CASE MonitorHtlcTimeoutSweepAction
  BY <1>13, Rows, Zenon
  DEF MonitorHtlcTimeoutSweepAction, At, SweepIsSeen, SendEvent, monvars, riskvars,
      ntfnvars, watchvars, extvars, chainvars, ghosts, TypeOK
<1>14. CASE PaymentReceivedAction
  BY <1>14, Rows, Zenon
  DEF PaymentReceivedAction, At, SendEvent, monvars, riskvars, ntfnvars, watchvars,
      extvars, chainvars, ghosts, TypeOK
<1>15. CASE UnlockCancels
  BY <1>15, Zenon
  DEF UnlockCancels, At, CancelSwapInvoice, Canceled, CancelSwapInvoiceFails, Goto,
      monvars, riskvars, ntfnvars, watchvars, extvars, chainvars, TypeOK
<1>16. CASE UnlockReleases
  BY <1>16, Rows, Zenon
  DEF UnlockReleases, At, SendEvent, monvars, riskvars, ntfnvars, watchvars, extvars,
      chainvars, ghosts, TypeOK
<1>17. CASE HtlcConfirmed
  BY <1>17, Zenon
  DEF HtlcConfirmed, Monitoring, At, HtlcIsOnChain, Goto, LockForTimeoutStep,
      NotForTimeout, AllForTimeout, riskvars, ntfnvars, watchvars, extvars, chainvars,
      ghosts, TypeOK
<1>18. CASE HtlcUnconfirmed
  BY <1>18, Zenon
  DEF HtlcUnconfirmed, Monitoring, At, Goto, riskvars, ntfnvars, watchvars, extvars,
      chainvars, ghosts, TypeOK
<1>19. CASE SubscriptionFails
  BY <1>19, Zenon
  DEF SubscriptionFails, Monitoring, At, Goto, monvars, riskvars, ntfnvars, watchvars,
      extvars, chainvars, ghosts, TypeOK
<1>20. CASE DeadlineFires
  BY <1>20, Zenon
  DEF DeadlineFires, Monitoring, At, CancelInvoice, Goto, CancelSwapInvoice, Canceled,
      CancelSwapInvoiceFails, riskvars, ntfnvars, watchvars, extvars, chainvars, ghosts,
      TypeOK
<1>21. CASE RiskUpdate
  BY <1>21, Zenon
  DEF RiskUpdate, Monitoring, At, Record, StartPaymentDeadline, Goto, watchvars, extvars,
      chainvars, ghosts, TypeOK
<1>22. CASE Block
  BY <1>22, Zenon
  DEF Block, Monitoring, At, StartLegacyFallback, Record, Goto, CancelInvoice,
      CancelSwapInvoice, Canceled, CancelSwapInvoiceFails, ntfnvars, watchvars, extvars,
      chainvars, ghosts, TypeOK
<1>23. CASE InvoiceUpdate
  BY <1>23, Rows, Zenon
  DEF InvoiceUpdate, Monitoring, At, Return, SendEvent, LeaveMonitor, watchvars, extvars,
      chainvars, ghosts, TypeOK
<1>24. CASE SignSweepless
  BY <1>24, Zenon
  DEF SignSweepless, swapvars, monvars, riskvars, ntfnvars, watchvars, ghosts, TypeOK
<1>25. CASE HtlcPublished
  BY <1>25, Zenon
  DEF HtlcPublished, Unspent, clientvars, swapvars, riskvars, ntfnvars, watchvars, ghosts,
      monvars, TypeOK
<1>26. CASE NewBlock
  BY <1>26, Zenon
  DEF NewBlock, BlockIsMined, clientvars, swapvars, riskvars, ntfnvars, watchvars, ghosts,
      TypeOK
<1>27. CASE HtlcMined
  BY <1>27, Zenon
  DEF HtlcMined, BlockIsMined, clientvars, swapvars, riskvars, ntfnvars, watchvars,
      ghosts, TypeOK
<1>28. CASE Reorg
  BY <1>28, Zenon
  DEF Reorg, clientvars, swapvars, riskvars, ntfnvars, watchvars, ghosts, monvars, TypeOK
<1>29. CASE HtlcSpent
  BY <1>29, Zenon
  DEF HtlcSpent, clientvars, swapvars, riskvars, ntfnvars, watchvars, ghosts, monvars,
      TypeOK
<1>30. CASE SweeplessConfirms
  BY <1>30, Zenon
  DEF SweeplessConfirms, Unspent, clientvars, swapvars, riskvars, ntfnvars, watchvars,
      ghosts, monvars, TypeOK
<1>31. CASE ServerPays
  BY <1>31, Zenon
  DEF ServerPays, clientvars, swapvars, riskvars, ntfnvars, watchvars, ghosts, monvars,
      extvars, chainvars, TypeOK
<1>32. CASE \E x \in Decisions : Notify(x)
  BY <1>32 DEF Notify, Record, swapvars, monvars, watchvars, extvars, chainvars, ghosts,
     TypeOK
<1>33. CASE Stop
  BY <1>33, Zenon DEF Stop, watchvars, extvars, chainvars, ghosts, TypeOK
<1>34. CASE Restart
  BY <1>34, Recovers DEF Restart, SendEvent, Goto, monvars, ntfnvars, extvars,
     chainvars, ghosts, TypeOK
<1>35. CASE \E d \in Deposits : OtherTakes(d)
  BY <1>35 DEF OtherTakes, clientvars, swapvars, riskvars, ntfnvars, watchvars, ghosts,
     monvars, extvars, chainvars, TypeOK
<1>36. CASE \E d \in Deposits : OtherSpends(d)
  BY <1>36 DEF OtherSpends, clientvars, swapvars, riskvars, ntfnvars, watchvars, ghosts,
     monvars, TypeOK
<1>37. CASE \E d \in Deposits : SpentOutside(d)
  BY <1>37 DEF SpentOutside, clientvars, swapvars, riskvars, ntfnvars, watchvars,
     ghosts, monvars, TypeOK
<1>38. CASE \E d \in Deposits : Deactivate(d)
  BY <1>38 DEF Deactivate, clientvars, swapvars, riskvars, ntfnvars, watchvars, ghosts,
     monvars, extvars, chainvars, TypeOK
<1>39. CASE UNCHANGED vars
  BY <1>39, Zenon
  DEF vars, swapvars, monvars, riskvars, ntfnvars, extvars, chainvars, ghosts
<1>q. QED BY Zenon, <1>1, <1>2, <1>3, <1>4, <1>5, <1>6, <1>7, <1>8, <1>9, <1>10, <1>11, <1>12,
   <1>13, <1>14, <1>15, <1>16, <1>17, <1>18, <1>19, <1>20, <1>21, <1>22, <1>23, <1>24,
   <1>25, <1>26, <1>27, <1>28, <1>29, <1>30, <1>31, <1>32, <1>33, <1>34, <1>35, <1>36,
   <1>37, <1>38, <1>39, Zenon DEF Next, Step, Select, Chain

-----------------------------------------------------------------------------
(* The types. *)

\* Where the state machine and its goroutine can be.
SwapTypes ==
    /\ state \in PendingStates \cup FinalStates
    /\ dbState \in PendingStates \cup FinalStates \cup {"none"}
    /\ pc \in {"enter", "act", "done", "down", "invoice", "request", "store",
               "select", "retry", "deadline", "timeout", "rejected", "unlock"}
    /\ pc \in {"select", "retry", "deadline", "timeout", "rejected"} =>
         state = "MonitorInvoiceAndHtlcTx"
    /\ pc = "done" => state \in FinalStates \/ dbState \notin PendingStates
    /\ known \in {"open", "canceled"}
    /\ inv \in {"none", "open", "settled", "canceled"}

\* The decisions and the monitor's other locals.
RiskTypes ==
    /\ deadline \in {"off", "armed", "passed"}
    /\ decision \in Decisions \cup {"none"}
    /\ dbDecision \in Decisions \cup {"none"} /\ cache \in Decisions \cup {"none"}
    /\ updates \subseteq Decisions /\ sent \subseteq Decisions

FlagTypes ==
    /\ confirmed \in BOOLEAN /\ block \in BOOLEAN /\ durable \in BOOLEAN
    /\ asked \in BOOLEAN /\ sigs \in BOOLEAN /\ signed \in BOOLEAN
    /\ released \in BOOLEAN /\ lax \in BOOLEAN

DepTypes ==
    /\ dep \in [Deposits -> States]
    /\ active \subseteq Deposits /\ locked \subseteq Deposits
    /\ other \subseteq Deposits

ChainTypes ==
    /\ watch \in Versions \cup {0} /\ dbWatch \in Versions \cup {0}
    /\ sweptBy \in Versions \cup {0} /\ txs \subseteq Versions
    /\ htlc \in {"none", "mempool", "confirmed", "claimed", "swept"}
    /\ spent \in [Deposits -> {"no", "htlc", "sweepless", "other"}]
    /\ height \in 0 .. MaxHeight

FaultTypes == faults \in 0 .. MaxFaults

\* The parts make up the type invariant.
LEMMA TypesAre ==
    TypeOK <=> /\ SwapTypes /\ RiskTypes /\ FlagTypes /\ DepTypes /\ ChainTypes
               /\ FaultTypes
BY Zenon DEF TypeOK, SwapTypes, RiskTypes, FlagTypes, DepTypes, ChainTypes, FaultTypes

\* Every step keeps state machine, goroutine and invoice in their types.
LEMMA SwapTypeStep == Inv /\ [Next]_vars => SwapTypes'
<1>. SUFFICES ASSUME TypeOK, Control, [Next]_vars PROVE SwapTypes'
  BY Zenon DEF Inv
<1>. USE DEF Control, Begins, SwapTypes, TypeOK, PendingStates, FinalStates
<1>1. CASE UpdateLoopIn
  BY <1>1 DEF UpdateLoopIn, monvars, riskvars, ntfnvars, extvars, chainvars, ghosts
<1>2. CASE LockDeposits
  BY <1>2, Rows, Zenon
  DEF LockDeposits, At, SendEvent, monvars, riskvars, ntfnvars, watchvars, extvars,
      chainvars, ghosts
<1>3. CASE AddInvoice
  BY <1>3, Rows, Zenon
  DEF AddInvoice, At, SendEvent, monvars, riskvars, ntfnvars, watchvars, extvars,
      chainvars, ghosts
<1>4. CASE ServerStaticAddressLoopIn
  BY <1>4, Rows DEF ServerStaticAddressLoopIn, At, CancelSwapInvoice, Canceled,
     CancelSwapInvoiceFails, SendEvent, monvars, riskvars, ntfnvars, watchvars,
     chainvars, ghosts
<1>5. CASE CreateLoopIn
  BY <1>5, Rows DEF CreateLoopIn, At, SendEvent, Canceled, monvars, riskvars, ntfnvars,
     watchvars, extvars, chainvars, ghosts
<1>6. CASE SignHtlcTxAction
  BY <1>6, Rows DEF SignHtlcTxAction, At, CancelSwapInvoice, Canceled,
     CancelSwapInvoiceFails, SendEvent, monvars, riskvars, ntfnvars, watchvars,
     chainvars, ghosts
<1>7. CASE MonitorSubscribe
  BY <1>7, Rows DEF MonitorSubscribe, Monitoring, At, Return, SendEvent, LeaveMonitor,
     StartPaymentDeadline, Goto, Record, StartLegacyFallback, monvars, watchvars,
     extvars, chainvars, ghosts
<1>8. CASE RetryMonitor
  BY <1>8, Rows DEF RetryMonitor, Monitoring, At, Return, SendEvent, LeaveMonitor,
     watchvars, extvars, chainvars, ghosts
<1>9. CASE DeadlinePassed
  BY <1>9, Zenon
  DEF DeadlinePassed, Monitoring, At, LockForTimeoutStep, NotForTimeout, Goto,
      AllForTimeout, monvars, riskvars, ntfnvars, watchvars, extvars, chainvars
<1>10. CASE RiskRejected
  BY <1>10, Rows DEF RiskRejected, Monitoring, At, Return, SendEvent, LeaveMonitor,
     CancelSwapInvoice, Canceled, CancelSwapInvoiceFails, Goto, monvars, watchvars,
     extvars, chainvars, ghosts
<1>11. CASE HtlcTimedOut
  BY <1>11, Rows DEF HtlcTimedOut, Monitoring, At, LockForTimeoutStep, NotForTimeout,
     AllForTimeout, Return, SendEvent, LeaveMonitor, Goto, monvars, watchvars, extvars,
     chainvars
<1>12. CASE SweepHtlcTimeoutAction
  BY <1>12, Rows DEF SweepHtlcTimeoutAction, At, SendEvent, monvars, riskvars, ntfnvars,
     chainvars, ghosts
<1>13. CASE MonitorHtlcTimeoutSweepAction
  BY <1>13, Rows DEF MonitorHtlcTimeoutSweepAction, At, SweepIsSeen, SendEvent, monvars,
     riskvars, ntfnvars, watchvars, extvars, chainvars, ghosts
<1>14. CASE PaymentReceivedAction
  BY <1>14, Rows DEF PaymentReceivedAction, At, SendEvent, monvars, riskvars, ntfnvars,
     watchvars, extvars, chainvars, ghosts
<1>15. CASE UnlockCancels
  BY <1>15, Zenon
  DEF UnlockCancels, At, CancelSwapInvoice, Canceled, CancelSwapInvoiceFails, Goto,
      monvars, riskvars, ntfnvars, watchvars, extvars, chainvars
<1>16. CASE UnlockReleases
  BY <1>16, Rows, Zenon
  DEF UnlockReleases, At, SendEvent, monvars, riskvars, ntfnvars, watchvars, extvars,
      chainvars, ghosts
<1>17. CASE HtlcConfirmed
  BY <1>17, Zenon
  DEF HtlcConfirmed, Monitoring, At, HtlcIsOnChain, Goto, LockForTimeoutStep,
      NotForTimeout, AllForTimeout, riskvars, ntfnvars, watchvars, extvars, chainvars,
      ghosts
<1>18. CASE HtlcUnconfirmed
  BY <1>18, Zenon
  DEF HtlcUnconfirmed, Monitoring, At, Goto, riskvars, ntfnvars, watchvars, extvars,
      chainvars, ghosts
<1>19. CASE SubscriptionFails
  BY <1>19, Zenon
  DEF SubscriptionFails, Monitoring, At, Goto, monvars, riskvars, ntfnvars, watchvars,
      extvars, chainvars, ghosts
<1>20. CASE DeadlineFires
  BY <1>20, Zenon
  DEF DeadlineFires, Monitoring, At, CancelInvoice, Goto, CancelSwapInvoice, Canceled,
      CancelSwapInvoiceFails, riskvars, ntfnvars, watchvars, extvars, chainvars, ghosts
<1>21. CASE RiskUpdate
  BY <1>21, Zenon
  DEF RiskUpdate, Monitoring, At, Record, StartPaymentDeadline, Goto, watchvars, extvars,
      chainvars, ghosts
<1>22. CASE Block
  BY <1>22, Zenon
  DEF Block, Monitoring, At, StartLegacyFallback, Record, Goto, CancelInvoice,
      CancelSwapInvoice, Canceled, CancelSwapInvoiceFails, ntfnvars, watchvars, extvars,
      chainvars, ghosts
<1>23. CASE InvoiceUpdate
  BY <1>23, Rows DEF InvoiceUpdate, Monitoring, At, Return, SendEvent, LeaveMonitor,
     watchvars, extvars, chainvars, ghosts
<1>24. CASE SignSweepless
  BY <1>24, Zenon
  DEF SignSweepless, swapvars, monvars, riskvars, ntfnvars, watchvars, ghosts
<1>25. CASE HtlcPublished
  BY <1>25 DEF HtlcPublished, Unspent, clientvars, swapvars, riskvars, ntfnvars,
     watchvars, ghosts, monvars
<1>26. CASE NewBlock
  BY <1>26 DEF NewBlock, BlockIsMined, clientvars, swapvars, riskvars, ntfnvars,
     watchvars, ghosts
<1>27. CASE HtlcMined
  BY <1>27 DEF HtlcMined, BlockIsMined, clientvars, swapvars, riskvars, ntfnvars,
     watchvars, ghosts
<1>28. CASE Reorg
  BY <1>28 DEF Reorg, clientvars, swapvars, riskvars, ntfnvars, watchvars, ghosts,
     monvars
<1>29. CASE HtlcSpent
  BY <1>29 DEF HtlcSpent, clientvars, swapvars, riskvars, ntfnvars, watchvars, ghosts,
     monvars
<1>30. CASE SweeplessConfirms
  BY <1>30 DEF SweeplessConfirms, Unspent, clientvars, swapvars, riskvars, ntfnvars,
     watchvars, ghosts, monvars
<1>31. CASE ServerPays
  BY <1>31 DEF ServerPays, clientvars, swapvars, riskvars, ntfnvars, watchvars, ghosts,
     monvars, extvars, chainvars
<1>32. CASE \E x \in Decisions : Notify(x)
  BY <1>32 DEF Notify, Record, swapvars, monvars, watchvars, extvars, chainvars, ghosts
<1>33. CASE Stop
  BY <1>33, Zenon DEF Stop, watchvars, extvars, chainvars, ghosts
<1>34. CASE Restart
  BY <1>34, Recovers DEF Restart, SendEvent, Goto, monvars, ntfnvars, extvars,
     chainvars, ghosts
<1>35. CASE \E d \in Deposits : OtherTakes(d)
  BY <1>35 DEF OtherTakes, clientvars, swapvars, riskvars, ntfnvars, watchvars, ghosts,
     monvars, extvars, chainvars
<1>36. CASE \E d \in Deposits : OtherSpends(d)
  BY <1>36 DEF OtherSpends, clientvars, swapvars, riskvars, ntfnvars, watchvars, ghosts,
     monvars
<1>37. CASE \E d \in Deposits : SpentOutside(d)
  BY <1>37 DEF SpentOutside, clientvars, swapvars, riskvars, ntfnvars, watchvars,
     ghosts, monvars
<1>38. CASE \E d \in Deposits : Deactivate(d)
  BY <1>38 DEF Deactivate, clientvars, swapvars, riskvars, ntfnvars, watchvars, ghosts,
     monvars, extvars, chainvars
<1>39. CASE UNCHANGED vars
  BY <1>39 DEF vars, swapvars, monvars, riskvars, ntfnvars, watchvars, extvars,
     chainvars, ghosts
<1>q. QED BY Zenon, <1>1, <1>2, <1>3, <1>4, <1>5, <1>6, <1>7, <1>8, <1>9, <1>10, <1>11, <1>12,
   <1>13, <1>14, <1>15, <1>16, <1>17, <1>18, <1>19, <1>20, <1>21, <1>22, <1>23, <1>24,
   <1>25, <1>26, <1>27, <1>28, <1>29, <1>30, <1>31, <1>32, <1>33, <1>34, <1>35, <1>36,
   <1>37, <1>38, <1>39, Zenon DEF Next, Step, Select, Chain

\* Every step keeps the decisions in their types.
LEMMA RiskTypeStep == Inv /\ [Next]_vars => RiskTypes'
<1>. SUFFICES ASSUME TypeOK, Control, [Next]_vars PROVE RiskTypes'
  BY Zenon DEF Inv
<1>. USE DEF RiskTypes, TypeOK, Decisions
<1>1. CASE UpdateLoopIn
  BY <1>1, Zenon DEF UpdateLoopIn, monvars, riskvars, ntfnvars, extvars, chainvars, ghosts
<1>2. CASE LockDeposits
  BY <1>2, Zenon
  DEF LockDeposits, At, SendEvent, monvars, riskvars, ntfnvars, watchvars, extvars,
      chainvars, ghosts
<1>3. CASE AddInvoice
  BY <1>3, Zenon
  DEF AddInvoice, At, SendEvent, monvars, riskvars, ntfnvars, watchvars, extvars,
      chainvars, ghosts
<1>4. CASE ServerStaticAddressLoopIn
  BY <1>4, Zenon
  DEF ServerStaticAddressLoopIn, At, CancelSwapInvoice, Canceled, CancelSwapInvoiceFails,
      SendEvent, monvars, riskvars, ntfnvars, watchvars, chainvars, ghosts
<1>5. CASE CreateLoopIn
  BY <1>5, Zenon
  DEF CreateLoopIn, At, SendEvent, Canceled, monvars, riskvars, ntfnvars, watchvars,
      extvars, chainvars, ghosts
<1>6. CASE SignHtlcTxAction
  BY <1>6, Zenon
  DEF SignHtlcTxAction, At, CancelSwapInvoice, Canceled, CancelSwapInvoiceFails,
      SendEvent, monvars, riskvars, ntfnvars, watchvars, chainvars, ghosts
<1>7. CASE MonitorSubscribe
  BY <1>7, Zenon
  DEF MonitorSubscribe, Monitoring, At, Return, SendEvent, LeaveMonitor,
      StartPaymentDeadline, Goto, Record, StartLegacyFallback, monvars, watchvars,
      extvars, chainvars, ghosts
<1>8. CASE RetryMonitor
  BY <1>8, Zenon
  DEF RetryMonitor, Monitoring, At, Return, SendEvent, LeaveMonitor, watchvars, extvars,
      chainvars, ghosts
<1>9. CASE DeadlinePassed
  BY <1>9, Zenon
  DEF DeadlinePassed, Monitoring, At, LockForTimeoutStep, NotForTimeout, Goto,
      AllForTimeout, monvars, riskvars, ntfnvars, watchvars, extvars, chainvars
<1>10. CASE RiskRejected
  BY <1>10, Zenon
  DEF RiskRejected, Monitoring, At, Return, SendEvent, LeaveMonitor, CancelSwapInvoice,
      Canceled, CancelSwapInvoiceFails, Goto, monvars, watchvars, extvars, chainvars,
      ghosts
<1>11. CASE HtlcTimedOut
  BY <1>11, Zenon
  DEF HtlcTimedOut, Monitoring, At, LockForTimeoutStep, NotForTimeout, AllForTimeout,
      Return, SendEvent, LeaveMonitor, Goto, monvars, watchvars, extvars, chainvars
<1>12. CASE SweepHtlcTimeoutAction
  BY <1>12, Zenon
  DEF SweepHtlcTimeoutAction, At, SendEvent, monvars, riskvars, ntfnvars, chainvars,
      ghosts
<1>13. CASE MonitorHtlcTimeoutSweepAction
  BY <1>13, Zenon
  DEF MonitorHtlcTimeoutSweepAction, At, SweepIsSeen, SendEvent, monvars, riskvars,
      ntfnvars, watchvars, extvars, chainvars, ghosts
<1>14. CASE PaymentReceivedAction
  BY <1>14, Zenon
  DEF PaymentReceivedAction, At, SendEvent, monvars, riskvars, ntfnvars, watchvars,
      extvars, chainvars, ghosts
<1>15. CASE UnlockCancels
  BY <1>15, Zenon
  DEF UnlockCancels, At, CancelSwapInvoice, Canceled, CancelSwapInvoiceFails, Goto,
      monvars, riskvars, ntfnvars, watchvars, extvars, chainvars
<1>16. CASE UnlockReleases
  BY <1>16, Zenon
  DEF UnlockReleases, At, SendEvent, monvars, riskvars, ntfnvars, watchvars, extvars,
      chainvars, ghosts
<1>17. CASE HtlcConfirmed
  BY <1>17, Zenon
  DEF HtlcConfirmed, Monitoring, At, HtlcIsOnChain, Goto, LockForTimeoutStep,
      NotForTimeout, AllForTimeout, riskvars, ntfnvars, watchvars, extvars, chainvars,
      ghosts
<1>18. CASE HtlcUnconfirmed
  BY <1>18, Zenon
  DEF HtlcUnconfirmed, Monitoring, At, Goto, riskvars, ntfnvars, watchvars, extvars,
      chainvars, ghosts
<1>19. CASE SubscriptionFails
  BY <1>19, Zenon
  DEF SubscriptionFails, Monitoring, At, Goto, monvars, riskvars, ntfnvars, watchvars,
      extvars, chainvars, ghosts
<1>20. CASE DeadlineFires
  BY <1>20, Zenon
  DEF DeadlineFires, Monitoring, At, CancelInvoice, Goto, CancelSwapInvoice, Canceled,
      CancelSwapInvoiceFails, riskvars, ntfnvars, watchvars, extvars, chainvars, ghosts
<1>21. CASE RiskUpdate
  BY <1>21, Zenon
  DEF RiskUpdate, Monitoring, At, Record, StartPaymentDeadline, Goto, watchvars, extvars,
      chainvars, ghosts
<1>22. CASE Block
  BY <1>22, Zenon
  DEF Block, Monitoring, At, StartLegacyFallback, Record, Goto, CancelInvoice,
      CancelSwapInvoice, Canceled, CancelSwapInvoiceFails, ntfnvars, watchvars, extvars,
      chainvars, ghosts
<1>23. CASE InvoiceUpdate
  BY <1>23, Zenon
  DEF InvoiceUpdate, Monitoring, At, Return, SendEvent, LeaveMonitor, watchvars, extvars,
      chainvars, ghosts
<1>24. CASE SignSweepless
  BY <1>24, Zenon
  DEF SignSweepless, swapvars, monvars, riskvars, ntfnvars, watchvars, ghosts
<1>25. CASE HtlcPublished
  BY <1>25, Zenon
  DEF HtlcPublished, Unspent, clientvars, swapvars, riskvars, ntfnvars, watchvars, ghosts,
      monvars
<1>26. CASE NewBlock
  BY <1>26, Zenon
  DEF NewBlock, BlockIsMined, clientvars, swapvars, riskvars, ntfnvars, watchvars, ghosts
<1>27. CASE HtlcMined
  BY <1>27, Zenon
  DEF HtlcMined, BlockIsMined, clientvars, swapvars, riskvars, ntfnvars, watchvars, ghosts
<1>28. CASE Reorg
  BY <1>28, Zenon
  DEF Reorg, clientvars, swapvars, riskvars, ntfnvars, watchvars, ghosts, monvars
<1>29. CASE HtlcSpent
  BY <1>29, Zenon
  DEF HtlcSpent, clientvars, swapvars, riskvars, ntfnvars, watchvars, ghosts, monvars
<1>30. CASE SweeplessConfirms
  BY <1>30, Zenon
  DEF SweeplessConfirms, Unspent, clientvars, swapvars, riskvars, ntfnvars, watchvars,
      ghosts, monvars
<1>31. CASE ServerPays
  BY <1>31, Zenon
  DEF ServerPays, clientvars, swapvars, riskvars, ntfnvars, watchvars, ghosts, monvars,
      extvars, chainvars
<1>32. CASE \E x \in Decisions : Notify(x)
  BY <1>32, Zenon
  DEF Notify, Record, swapvars, monvars, watchvars, extvars, chainvars, ghosts
<1>33. CASE Stop
  BY <1>33, Zenon DEF Stop, watchvars, extvars, chainvars, ghosts
<1>34. CASE Restart
  BY <1>34, Zenon
  DEF Restart, SendEvent, Goto, monvars, ntfnvars, extvars, chainvars, ghosts
<1>35. CASE \E d \in Deposits : OtherTakes(d)
  BY <1>35, Zenon
  DEF OtherTakes, clientvars, swapvars, riskvars, ntfnvars, watchvars, ghosts, monvars,
      extvars, chainvars
<1>36. CASE \E d \in Deposits : OtherSpends(d)
  BY <1>36, Zenon
  DEF OtherSpends, clientvars, swapvars, riskvars, ntfnvars, watchvars, ghosts, monvars
<1>37. CASE \E d \in Deposits : SpentOutside(d)
  BY <1>37, Zenon
  DEF SpentOutside, clientvars, swapvars, riskvars, ntfnvars, watchvars, ghosts, monvars
<1>38. CASE \E d \in Deposits : Deactivate(d)
  BY <1>38, Zenon
  DEF Deactivate, clientvars, swapvars, riskvars, ntfnvars, watchvars, ghosts, monvars,
      extvars, chainvars
<1>39. CASE UNCHANGED vars
  BY <1>39, Zenon
  DEF vars, swapvars, monvars, riskvars, ntfnvars, watchvars, extvars, chainvars, ghosts
<1>q. QED BY Zenon, <1>1, <1>2, <1>3, <1>4, <1>5, <1>6, <1>7, <1>8, <1>9, <1>10, <1>11, <1>12,
   <1>13, <1>14, <1>15, <1>16, <1>17, <1>18, <1>19, <1>20, <1>21, <1>22, <1>23, <1>24,
   <1>25, <1>26, <1>27, <1>28, <1>29, <1>30, <1>31, <1>32, <1>33, <1>34, <1>35, <1>36,
   <1>37, <1>38, <1>39, Zenon DEF Next, Step, Select, Chain

\* Every step keeps the flags in their types.
LEMMA FlagTypeStep == Inv /\ [Next]_vars => FlagTypes'
<1>. SUFFICES ASSUME TypeOK, Control, [Next]_vars PROVE FlagTypes'
  BY Zenon DEF Inv
<1>. USE DEF FlagTypes, TypeOK
<1>1. CASE UpdateLoopIn
  BY <1>1, Zenon DEF UpdateLoopIn, monvars, riskvars, ntfnvars, extvars, chainvars,
     ghosts
<1>2. CASE LockDeposits
  BY <1>2, Zenon DEF LockDeposits, At, SendEvent, monvars, riskvars, ntfnvars,
     watchvars, extvars, chainvars, ghosts
<1>3. CASE AddInvoice
  BY <1>3, Zenon DEF AddInvoice, At, SendEvent, monvars, riskvars, ntfnvars, watchvars,
     extvars, chainvars, ghosts
<1>4. CASE ServerStaticAddressLoopIn
  BY <1>4, Zenon DEF ServerStaticAddressLoopIn, At, CancelSwapInvoice, Canceled,
     CancelSwapInvoiceFails, SendEvent, monvars, riskvars, ntfnvars, watchvars,
     chainvars, ghosts
<1>5. CASE CreateLoopIn
  BY <1>5, Zenon DEF CreateLoopIn, At, SendEvent, Canceled, monvars, riskvars, ntfnvars,
     watchvars, extvars, chainvars, ghosts
<1>6. CASE SignHtlcTxAction
  BY <1>6, Zenon DEF SignHtlcTxAction, At, CancelSwapInvoice, Canceled,
     CancelSwapInvoiceFails, SendEvent, monvars, riskvars, ntfnvars, watchvars,
     chainvars, ghosts
<1>7. CASE MonitorSubscribe
  BY <1>7, Zenon DEF MonitorSubscribe, Monitoring, At, Return, SendEvent, LeaveMonitor,
     StartPaymentDeadline, Goto, Record, StartLegacyFallback, monvars, watchvars,
     extvars, chainvars, ghosts
<1>8. CASE RetryMonitor
  BY <1>8, Zenon DEF RetryMonitor, Monitoring, At, Return, SendEvent, LeaveMonitor,
     watchvars, extvars, chainvars, ghosts
<1>9. CASE DeadlinePassed
  BY <1>9, Zenon DEF DeadlinePassed, Monitoring, At, LockForTimeoutStep, NotForTimeout,
     Goto, AllForTimeout, monvars, riskvars, ntfnvars, watchvars, extvars, chainvars
<1>10. CASE RiskRejected
  BY <1>10, Zenon DEF RiskRejected, Monitoring, At, Return, SendEvent, LeaveMonitor,
     CancelSwapInvoice, Canceled, CancelSwapInvoiceFails, Goto, monvars, watchvars,
     extvars, chainvars, ghosts
<1>11. CASE HtlcTimedOut
  BY <1>11, Zenon DEF HtlcTimedOut, Monitoring, At, LockForTimeoutStep, NotForTimeout,
     AllForTimeout, Return, SendEvent, LeaveMonitor, Goto, monvars, watchvars, extvars,
     chainvars
<1>12. CASE SweepHtlcTimeoutAction
  BY <1>12, Zenon DEF SweepHtlcTimeoutAction, At, SendEvent, monvars, riskvars,
     ntfnvars, chainvars, ghosts
<1>13. CASE MonitorHtlcTimeoutSweepAction
  BY <1>13, Zenon DEF MonitorHtlcTimeoutSweepAction, At, SweepIsSeen, SendEvent,
     monvars, riskvars, ntfnvars, watchvars, extvars, chainvars, ghosts
<1>14. CASE PaymentReceivedAction
  BY <1>14, Zenon DEF PaymentReceivedAction, At, SendEvent, monvars, riskvars, ntfnvars,
     watchvars, extvars, chainvars, ghosts
<1>15. CASE UnlockCancels
  BY <1>15, Zenon DEF UnlockCancels, At, CancelSwapInvoice, Canceled,
     CancelSwapInvoiceFails, Goto, monvars, riskvars, ntfnvars, watchvars, extvars,
     chainvars
<1>16. CASE UnlockReleases
  BY <1>16, Zenon DEF UnlockReleases, At, SendEvent, monvars, riskvars, ntfnvars,
     watchvars, extvars, chainvars, ghosts
<1>17. CASE HtlcConfirmed
  BY <1>17, Zenon DEF HtlcConfirmed, Monitoring, At, HtlcIsOnChain, Goto,
     LockForTimeoutStep, NotForTimeout, AllForTimeout, riskvars, ntfnvars, watchvars,
     extvars, chainvars, ghosts
<1>18. CASE HtlcUnconfirmed
  BY <1>18, Zenon DEF HtlcUnconfirmed, Monitoring, At, Goto, riskvars, ntfnvars,
     watchvars, extvars, chainvars, ghosts
<1>19. CASE SubscriptionFails
  BY <1>19, Zenon DEF SubscriptionFails, Monitoring, At, Goto, monvars, riskvars,
     ntfnvars, watchvars, extvars, chainvars, ghosts
<1>20. CASE DeadlineFires
  BY <1>20, Zenon DEF DeadlineFires, Monitoring, At, CancelInvoice, Goto,
     CancelSwapInvoice, Canceled, CancelSwapInvoiceFails, riskvars, ntfnvars, watchvars,
     extvars, chainvars, ghosts
<1>21. CASE RiskUpdate
  BY <1>21, Zenon DEF RiskUpdate, Monitoring, At, Record, StartPaymentDeadline, Goto,
     watchvars, extvars, chainvars, ghosts
<1>22. CASE Block
  BY <1>22, Zenon DEF Block, Monitoring, At, StartLegacyFallback, Record, Goto,
     CancelInvoice, CancelSwapInvoice, Canceled, CancelSwapInvoiceFails, ntfnvars,
     watchvars, extvars, chainvars, ghosts
<1>23. CASE InvoiceUpdate
  BY <1>23, Zenon DEF InvoiceUpdate, Monitoring, At, Return, SendEvent, LeaveMonitor,
     watchvars, extvars, chainvars, ghosts
<1>24. CASE SignSweepless
  BY <1>24, Zenon DEF SignSweepless, swapvars, monvars, riskvars, ntfnvars, watchvars,
     ghosts
<1>25. CASE HtlcPublished
  BY <1>25, Zenon DEF HtlcPublished, Unspent, clientvars, swapvars, riskvars, ntfnvars,
     watchvars, ghosts, monvars
<1>26. CASE NewBlock
  BY <1>26, Zenon DEF NewBlock, BlockIsMined, clientvars, swapvars, riskvars, ntfnvars,
     watchvars, ghosts
<1>27. CASE HtlcMined
  BY <1>27, Zenon DEF HtlcMined, BlockIsMined, clientvars, swapvars, riskvars, ntfnvars,
     watchvars, ghosts
<1>28. CASE Reorg
  BY <1>28, Zenon DEF Reorg, clientvars, swapvars, riskvars, ntfnvars, watchvars,
     ghosts, monvars
<1>29. CASE HtlcSpent
  BY <1>29, Zenon DEF HtlcSpent, clientvars, swapvars, riskvars, ntfnvars, watchvars,
     ghosts, monvars
<1>30. CASE SweeplessConfirms
  BY <1>30, Zenon DEF SweeplessConfirms, Unspent, clientvars, swapvars, riskvars,
     ntfnvars, watchvars, ghosts, monvars
<1>31. CASE ServerPays
  BY <1>31, Zenon DEF ServerPays, clientvars, swapvars, riskvars, ntfnvars, watchvars,
     ghosts, monvars, extvars, chainvars
<1>32. CASE \E x \in Decisions : Notify(x)
  BY <1>32, Zenon DEF Notify, Record, swapvars, monvars, watchvars, extvars, chainvars,
     ghosts
<1>33. CASE Stop
  BY <1>33, Zenon DEF Stop, watchvars, extvars, chainvars, ghosts
<1>34. CASE Restart
  BY <1>34, Zenon DEF Restart, SendEvent, Goto, monvars, ntfnvars, extvars, chainvars,
     ghosts
<1>35. CASE \E d \in Deposits : OtherTakes(d)
  BY <1>35, Zenon DEF OtherTakes, clientvars, swapvars, riskvars, ntfnvars, watchvars,
     ghosts, monvars, extvars, chainvars
<1>36. CASE \E d \in Deposits : OtherSpends(d)
  BY <1>36, Zenon DEF OtherSpends, clientvars, swapvars, riskvars, ntfnvars, watchvars,
     ghosts, monvars
<1>37. CASE \E d \in Deposits : SpentOutside(d)
  BY <1>37, Zenon DEF SpentOutside, clientvars, swapvars, riskvars, ntfnvars, watchvars,
     ghosts, monvars
<1>38. CASE \E d \in Deposits : Deactivate(d)
  BY <1>38, Zenon DEF Deactivate, clientvars, swapvars, riskvars, ntfnvars, watchvars,
     ghosts, monvars, extvars, chainvars
<1>39. CASE UNCHANGED vars
  BY <1>39, Zenon DEF vars, swapvars, monvars, riskvars, ntfnvars, watchvars, extvars,
     chainvars, ghosts
<1>q. QED BY Zenon, <1>1, <1>2, <1>3, <1>4, <1>5, <1>6, <1>7, <1>8, <1>9, <1>10, <1>11, <1>12,
   <1>13, <1>14, <1>15, <1>16, <1>17, <1>18, <1>19, <1>20, <1>21, <1>22, <1>23, <1>24,
   <1>25, <1>26, <1>27, <1>28, <1>29, <1>30, <1>31, <1>32, <1>33, <1>34, <1>35, <1>36,
   <1>37, <1>38, <1>39, Zenon DEF Next, Step, Select, Chain

\* Every step keeps the chain and the versions of the sweep in their types.
LEMMA ChainTypeStep == Inv /\ [Next]_vars => ChainTypes'
<1>. SUFFICES ASSUME TypeOK, Control, [Next]_vars PROVE ChainTypes'
  BY Zenon DEF Inv
<1>. USE DEF ChainTypes, TypeOK
<1>1. CASE UpdateLoopIn
  BY <1>1, Zenon DEF UpdateLoopIn, monvars, riskvars, ntfnvars, extvars, chainvars, ghosts
<1>2. CASE LockDeposits
  BY <1>2, Zenon
  DEF LockDeposits, At, SendEvent, monvars, riskvars, ntfnvars, watchvars, extvars,
      chainvars, ghosts
<1>3. CASE AddInvoice
  BY <1>3, Zenon
  DEF AddInvoice, At, SendEvent, monvars, riskvars, ntfnvars, watchvars, extvars,
      chainvars, ghosts
<1>4. CASE ServerStaticAddressLoopIn
  BY <1>4, Zenon
  DEF ServerStaticAddressLoopIn, At, CancelSwapInvoice, Canceled, CancelSwapInvoiceFails,
      SendEvent, monvars, riskvars, ntfnvars, watchvars, chainvars, ghosts
<1>5. CASE CreateLoopIn
  BY <1>5, Zenon
  DEF CreateLoopIn, At, SendEvent, Canceled, monvars, riskvars, ntfnvars, watchvars,
      extvars, chainvars, ghosts
<1>6. CASE SignHtlcTxAction
  BY <1>6, Zenon
  DEF SignHtlcTxAction, At, CancelSwapInvoice, Canceled, CancelSwapInvoiceFails,
      SendEvent, monvars, riskvars, ntfnvars, watchvars, chainvars, ghosts
<1>7. CASE MonitorSubscribe
  BY <1>7, Zenon
  DEF MonitorSubscribe, Monitoring, At, Return, SendEvent, LeaveMonitor,
      StartPaymentDeadline, Goto, Record, StartLegacyFallback, monvars, watchvars,
      extvars, chainvars, ghosts
<1>8. CASE RetryMonitor
  BY <1>8, Zenon
  DEF RetryMonitor, Monitoring, At, Return, SendEvent, LeaveMonitor, watchvars, extvars,
      chainvars, ghosts
<1>9. CASE DeadlinePassed
  BY <1>9, Zenon
  DEF DeadlinePassed, Monitoring, At, LockForTimeoutStep, NotForTimeout, Goto,
      AllForTimeout, monvars, riskvars, ntfnvars, watchvars, extvars, chainvars
<1>10. CASE RiskRejected
  BY <1>10, Zenon
  DEF RiskRejected, Monitoring, At, Return, SendEvent, LeaveMonitor, CancelSwapInvoice,
      Canceled, CancelSwapInvoiceFails, Goto, monvars, watchvars, extvars, chainvars,
      ghosts
<1>11. CASE HtlcTimedOut
  BY <1>11, Zenon
  DEF HtlcTimedOut, Monitoring, At, LockForTimeoutStep, NotForTimeout, AllForTimeout,
      Return, SendEvent, LeaveMonitor, Goto, monvars, watchvars, extvars, chainvars
<1>12. CASE SweepHtlcTimeoutAction
  BY <1>12, Zenon
  DEF SweepHtlcTimeoutAction, At, SendEvent, monvars, riskvars, ntfnvars, chainvars,
      ghosts
<1>13. CASE MonitorHtlcTimeoutSweepAction
  BY <1>13, Zenon
  DEF MonitorHtlcTimeoutSweepAction, At, SweepIsSeen, SendEvent, monvars, riskvars,
      ntfnvars, watchvars, extvars, chainvars, ghosts
<1>14. CASE PaymentReceivedAction
  BY <1>14, Zenon
  DEF PaymentReceivedAction, At, SendEvent, monvars, riskvars, ntfnvars, watchvars,
      extvars, chainvars, ghosts
<1>15. CASE UnlockCancels
  BY <1>15, Zenon
  DEF UnlockCancels, At, CancelSwapInvoice, Canceled, CancelSwapInvoiceFails, Goto,
      monvars, riskvars, ntfnvars, watchvars, extvars, chainvars
<1>16. CASE UnlockReleases
  BY <1>16, Zenon
  DEF UnlockReleases, At, SendEvent, monvars, riskvars, ntfnvars, watchvars, extvars,
      chainvars, ghosts
<1>17. CASE HtlcConfirmed
  BY <1>17, Zenon
  DEF HtlcConfirmed, Monitoring, At, HtlcIsOnChain, Goto, LockForTimeoutStep,
      NotForTimeout, AllForTimeout, riskvars, ntfnvars, watchvars, extvars, chainvars,
      ghosts
<1>18. CASE HtlcUnconfirmed
  BY <1>18, Zenon
  DEF HtlcUnconfirmed, Monitoring, At, Goto, riskvars, ntfnvars, watchvars, extvars,
      chainvars, ghosts
<1>19. CASE SubscriptionFails
  BY <1>19, Zenon
  DEF SubscriptionFails, Monitoring, At, Goto, monvars, riskvars, ntfnvars, watchvars,
      extvars, chainvars, ghosts
<1>20. CASE DeadlineFires
  BY <1>20, Zenon
  DEF DeadlineFires, Monitoring, At, CancelInvoice, Goto, CancelSwapInvoice, Canceled,
      CancelSwapInvoiceFails, riskvars, ntfnvars, watchvars, extvars, chainvars, ghosts
<1>21. CASE RiskUpdate
  BY <1>21, Zenon
  DEF RiskUpdate, Monitoring, At, Record, StartPaymentDeadline, Goto, watchvars, extvars,
      chainvars, ghosts
<1>22. CASE Block
  BY <1>22, Zenon
  DEF Block, Monitoring, At, StartLegacyFallback, Record, Goto, CancelInvoice,
      CancelSwapInvoice, Canceled, CancelSwapInvoiceFails, ntfnvars, watchvars, extvars,
      chainvars, ghosts
<1>23. CASE InvoiceUpdate
  BY <1>23, Zenon
  DEF InvoiceUpdate, Monitoring, At, Return, SendEvent, LeaveMonitor, watchvars, extvars,
      chainvars, ghosts
<1>24. CASE SignSweepless
  BY <1>24, Zenon
  DEF SignSweepless, swapvars, monvars, riskvars, ntfnvars, watchvars, ghosts
<1>25. CASE HtlcPublished
  BY <1>25, Zenon
  DEF HtlcPublished, Unspent, clientvars, swapvars, riskvars, ntfnvars, watchvars, ghosts,
      monvars
<1>0. ASSUME BlockIsMined, htlc' \in {htlc, "confirmed"} PROVE ChainTypes'
  <2>1. height' \in 0 .. MaxHeight
    BY <1>0, HeightAssumption DEF BlockIsMined
  <2>2. UNCHANGED <<watchvars, spent, txs, sweptBy>>
    BY <1>0, Zenon DEF BlockIsMined, clientvars
  <2>q. QED BY <1>0, <2>1, <2>2, Zenon DEF watchvars
<1>26. CASE NewBlock
  BY <1>0, <1>26, Zenon DEF NewBlock
<1>27. CASE HtlcMined
  BY <1>0, <1>27, Zenon DEF HtlcMined
<1>28. CASE Reorg
  BY <1>28, Zenon
  DEF Reorg, clientvars, swapvars, riskvars, ntfnvars, watchvars, ghosts, monvars
<1>29. CASE HtlcSpent
  BY <1>29, Zenon
  DEF HtlcSpent, clientvars, swapvars, riskvars, ntfnvars, watchvars, ghosts, monvars
<1>30. CASE SweeplessConfirms
  BY <1>30, Zenon
  DEF SweeplessConfirms, Unspent, clientvars, swapvars, riskvars, ntfnvars, watchvars,
      ghosts, monvars
<1>31. CASE ServerPays
  BY <1>31, Zenon
  DEF ServerPays, clientvars, swapvars, riskvars, ntfnvars, watchvars, ghosts, monvars,
      extvars, chainvars
<1>32. CASE \E x \in Decisions : Notify(x)
  BY <1>32, Zenon
  DEF Notify, Record, swapvars, monvars, watchvars, extvars, chainvars, ghosts
<1>33. CASE Stop
  BY <1>33, Zenon DEF Stop, watchvars, extvars, chainvars, ghosts
<1>34. CASE Restart
  BY <1>34, Zenon
  DEF Restart, SendEvent, Goto, monvars, ntfnvars, extvars, chainvars, ghosts
<1>35. CASE \E d \in Deposits : OtherTakes(d)
  BY <1>35, Zenon
  DEF OtherTakes, clientvars, swapvars, riskvars, ntfnvars, watchvars, ghosts, monvars,
      extvars, chainvars
<1>36. CASE \E d \in Deposits : OtherSpends(d)
  BY <1>36 DEF OtherSpends, clientvars, swapvars, riskvars, ntfnvars, watchvars, ghosts,
     monvars
<1>37. CASE \E d \in Deposits : SpentOutside(d)
  BY <1>37, Zenon
  DEF SpentOutside, clientvars, swapvars, riskvars, ntfnvars, watchvars, ghosts, monvars
<1>38. CASE \E d \in Deposits : Deactivate(d)
  BY <1>38, Zenon
  DEF Deactivate, clientvars, swapvars, riskvars, ntfnvars, watchvars, ghosts, monvars,
      extvars, chainvars
<1>39. CASE UNCHANGED vars
  BY <1>39, Zenon
  DEF vars, swapvars, monvars, riskvars, ntfnvars, watchvars, extvars, chainvars, ghosts
<1>q. QED BY Zenon, <1>1, <1>2, <1>3, <1>4, <1>5, <1>6, <1>7, <1>8, <1>9, <1>10, <1>11, <1>12,
   <1>13, <1>14, <1>15, <1>16, <1>17, <1>18, <1>19, <1>20, <1>21, <1>22, <1>23, <1>24,
   <1>25, <1>26, <1>27, <1>28, <1>29, <1>30, <1>31, <1>32, <1>33, <1>34, <1>35, <1>36,
   <1>37, <1>38, <1>39, Zenon DEF Next, Step, Select, Chain

\* Every step keeps within the bound of failures.
LEMMA FaultTypeStep == Inv /\ [Next]_vars => FaultTypes'
<1>. SUFFICES ASSUME TypeOK, [Next]_vars PROVE FaultTypes'
  BY Zenon DEF Inv
<1>1. faults' = faults \/ Fault
  BY Zenon DEF Next, Step, Select, Chain, vars, UpdateLoopIn, LockDeposits, AddInvoice,
     ServerStaticAddressLoopIn, CreateLoopIn, SignHtlcTxAction, MonitorSubscribe,
     RetryMonitor, DeadlinePassed, RiskRejected, HtlcTimedOut, SweepHtlcTimeoutAction,
     MonitorHtlcTimeoutSweepAction, PaymentReceivedAction, UnlockCancels, UnlockReleases,
     HtlcConfirmed, HtlcUnconfirmed, SubscriptionFails, DeadlineFires, RiskUpdate, Block,
     InvoiceUpdate, SignSweepless, HtlcPublished, NewBlock, HtlcMined, Reorg, HtlcSpent,
     SweeplessConfirms, ServerPays, Notify, Stop, Restart, OtherTakes, OtherSpends,
     SpentOutside, Deactivate, BlockIsMined, CancelSwapInvoice, CancelSwapInvoiceFails,
     CancelInvoice, LockForTimeoutStep, TransitionDepositsFails
<1>2. faults \in 0 .. MaxFaults
  BY Zenon DEF TypeOK
<1>q. QED BY <1>1, <1>2, FaultCounts, Zenon DEF FaultTypes

-----------------------------------------------------------------------------
(* The deposits. *)

\* A step that leaves the deposits to their states, and takes back neither an outcome
\* of the invoice nor a sweep.
Frame ==
    /\ UNCHANGED <<dep, locked>> /\ active' \subseteq Deposits
    /\ other' \subseteq Deposits
    /\ lax => lax'
    /\ htlc = "swept" => htlc' = "swept"
    /\ inv = "settled" => inv' = "settled"
    /\ inv \in {"none", "canceled"} => inv' \in {"none", "canceled"}
    /\ pc' \in {"invoice", "request", "store"} => pc \in {"invoice", "request", "store"}
    /\ pc' = "act" /\ state' = "InitHtlcTx" => pc = "act" /\ state = "InitHtlcTx"

\* Such a step keeps what is known of the deposits.
LEMMA FrameHolds == ASSUME TypeOK, Held, Frame PROVE DepTypes' /\ Held'
<1>1. DepTypes'
  BY Zenon DEF Frame, DepTypes, TypeOK
<1>2. Held'
  BY Zenon DEF Frame, Held, ReleasedOnlyUnpayable
<1>q. QED BY <1>1, <1>2, Zenon

\* A step of the swap that moves deposits to t keeps it too, if the invoice and the chain
\* allow t.
LEMMA MoveHolds ==
    ASSUME TypeOK, Held, NEW D \in SUBSET Deposits, NEW e,
           NEW t \in {"Deposited", "LoopedIn", "SweepHtlcTimeout", "HtlcTimeoutSwept"},
           TransitionDeposits(D, e, t) \/ TransitionDepositsFails(D, e, t),
           t = "Deposited" => inv \in {"none", "canceled"} \/ lax,
           t = "LoopedIn" => inv = "settled",
           t = "HtlcTimeoutSwept" => htlc = "swept",
           UNCHANGED <<inv, htlc, lax>>,
           pc' \notin {"act", "invoice", "request", "store"}
    PROVE  DepTypes' /\ Held'
<1>1. t \in States /\ t # "LoopingIn"
  BY DepositNames, Zenon
<1>2. /\ dep' \in [Deposits -> States] /\ active' = active
      /\ \A d \in Deposits : dep'[d] = dep[d] \/ dep'[d] = t
      /\ locked' \subseteq Deposits /\ other' \subseteq Deposits
      /\ locked' = locked
  BY <1>1, Transitioned, Zenon
<1>3. DepTypes'
  BY <1>2, Zenon DEF DepTypes, TypeOK
<1>4. ReleasedOnlyUnpayable'
  BY <1>2, Zenon DEF Held, ReleasedOnlyUnpayable
<1>5. \A d \in Deposits : /\ dep'[d] = "LoopedIn" => inv' = "settled"
                          /\ dep'[d] = "HtlcTimeoutSwept" => htlc' = "swept"
  BY <1>2, Zenon DEF Held
<1>q. QED BY <1>3, <1>4, <1>5, Zenon DEF Held

\* The transition to SweepHtlcTimeout keeps it.
LEMMA TimeoutHolds ==
    ASSUME TypeOK, Held, LockForTimeoutStep, UNCHANGED <<inv, htlc, lax>>,
           pc' \notin {"act", "invoice", "request", "store"}
    PROVE  DepTypes' /\ Held'
<1>1. CASE UNCHANGED depvars
  <2>1. Frame
    BY <1>1, Zenon DEF Frame, depvars, TypeOK
  <2>q. QED BY <2>1, FrameHolds, Zenon
<1>2. CASE ~ UNCHANGED depvars
  <2>1. NotForTimeout \in SUBSET Deposits
    BY Zenon DEF NotForTimeout
  <2>2. \/ TransitionDeposits(NotForTimeout, "OnSweepingHtlcTimeout", "SweepHtlcTimeout")
        \/ TransitionDepositsFails(NotForTimeout, "OnSweepingHtlcTimeout",
                                   "SweepHtlcTimeout")
    BY <1>2, Zenon DEF LockForTimeoutStep
  <2>q. QED BY <2>1, <2>2, MoveHolds, Zenon
<1>q. QED BY <1>1, <1>2, Zenon

\* Every step keeps the deposits in their types, and looped in, swept and released as
\* invoice and chain allow.
LEMMA HeldStep == Inv /\ [Next]_vars => DepTypes' /\ Held'
<1>. SUFFICES ASSUME TypeOK, Control, Held, [Next]_vars PROVE DepTypes' /\ Held'
  BY Zenon DEF Inv
<1>1. CASE UpdateLoopIn
  <2>1. Frame
    BY <1>1, Zenon
    DEF UpdateLoopIn, monvars, riskvars, ntfnvars, extvars, chainvars, ghosts, depvars,
        Frame, TypeOK, Control, Beliefs, Begins
  <2>q. QED BY <2>1, FrameHolds, Zenon
<1>2. CASE LockDeposits
  <2>1. \/ TransitionDeposits(Deposits, "OnLoopInInitiated", "LoopingIn")
        \/ TransitionDepositsFails(Deposits, "OnLoopInInitiated", "LoopingIn")
    BY <1>2, Zenon DEF LockDeposits
  <2>2. "LoopingIn" \in States /\ Deposits \in SUBSET Deposits
    BY DepositNames, Zenon
  <2>3. /\ dep' \in [Deposits -> States] /\ active' = active
        /\ \A d \in Deposits : dep'[d] = dep[d] \/ dep'[d] = "LoopingIn"
        /\ locked' \subseteq Deposits /\ other' \subseteq Deposits
        /\ \A d \in locked' : d \in locked \/ dep'[d] = "LoopingIn"
    BY <2>1, <2>2, Transitioned, Zenon
  <2>4. /\ state = "InitHtlcTx" /\ pc = "act" /\ inv = "none" /\ locked = {}
        /\ UNCHANGED <<inv, htlc>>
        /\ \/ TransitionDeposits(Deposits, "OnLoopInInitiated", "LoopingIn")
              /\ pc' = "invoice"
           \/ pc' = "enter"
    BY <1>2, Rows, Zenon
    DEF LockDeposits, At, SendEvent, extvars, chainvars, Held, Control, Begins
  <2>5. TransitionDeposits(Deposits, "OnLoopInInitiated", "LoopingIn")
          => \A d \in Deposits : dep'[d] = "LoopingIn"
    BY DepositsAssumption DEF TransitionDeposits, MovedUpTo, Deposits
  <2>6. DepTypes'
    BY <2>3, Zenon DEF DepTypes, TypeOK
  <2>q. QED BY <2>3, <2>4, <2>5, <2>6, Zenon DEF Held, ReleasedOnlyUnpayable
<1>3. CASE AddInvoice
  <2>1. CASE inv' = inv
    <3>1. Frame
      BY <1>3, <2>1, Rows, Zenon
      DEF AddInvoice, At, SendEvent, Frame, depvars, extvars, chainvars, ghosts, TypeOK
    <3>q. QED BY <3>1, FrameHolds, Zenon
  <2>2. CASE inv' = "open" /\ pc' = "request"
    <3>1. \A d \in Deposits : dep[d] = "LoopingIn"
      BY <1>3, Zenon DEF AddInvoice, At, Held
    <3>2. UNCHANGED <<dep, active, locked, other>> /\ locked \subseteq Deposits
      BY <1>3, Zenon DEF AddInvoice, depvars, TypeOK
    <3>3. DepTypes'
      BY <3>2, Zenon DEF DepTypes, TypeOK
    <3>q. QED BY <2>2, <3>1, <3>2, <3>3, Zenon DEF Held, ReleasedOnlyUnpayable
  <2>q. QED BY <1>3, <2>1, <2>2, Zenon DEF AddInvoice
<1>4. CASE ServerStaticAddressLoopIn
  <2>1. Frame
    BY <1>4, Rows, Zenon
    DEF ServerStaticAddressLoopIn, At, CancelSwapInvoice, Canceled,
        CancelSwapInvoiceFails, SendEvent, monvars, riskvars, ntfnvars, watchvars,
        chainvars, ghosts, depvars, Frame, TypeOK, Control, Beliefs, Begins
  <2>q. QED BY <2>1, FrameHolds, Zenon
<1>5. CASE CreateLoopIn
  <2>1. Frame
    BY <1>5, Rows, Zenon
    DEF CreateLoopIn, At, SendEvent, Canceled, monvars, riskvars, ntfnvars, watchvars,
        extvars, chainvars, ghosts, depvars, Frame, TypeOK, Control, Beliefs, Begins
  <2>q. QED BY <2>1, FrameHolds, Zenon
<1>6. CASE SignHtlcTxAction
  <2>1. Frame
    BY <1>6, Rows, Zenon
    DEF SignHtlcTxAction, At, CancelSwapInvoice, Canceled, CancelSwapInvoiceFails,
        SendEvent, monvars, riskvars, ntfnvars, watchvars, chainvars, ghosts, depvars,
        Frame, TypeOK, Control, Beliefs, Begins
  <2>q. QED BY <2>1, FrameHolds, Zenon
<1>7. CASE MonitorSubscribe
  <2>1. Frame
    BY <1>7, Rows, Zenon
    DEF MonitorSubscribe, Monitoring, At, Return, SendEvent, LeaveMonitor,
        StartPaymentDeadline, Goto, Record, StartLegacyFallback, monvars, watchvars,
        extvars, chainvars, ghosts, depvars, Frame, TypeOK, Control, Beliefs, Begins
  <2>q. QED BY <2>1, FrameHolds, Zenon
<1>8. CASE RetryMonitor
  <2>1. Frame
    BY <1>8, Rows, Zenon
    DEF RetryMonitor, Monitoring, At, Return, SendEvent, LeaveMonitor, watchvars, extvars,
        chainvars, ghosts, depvars, Frame, TypeOK, Control, Beliefs, Begins
  <2>q. QED BY <2>1, FrameHolds, Zenon
<1>9. CASE DeadlinePassed
  <2>1. /\ UNCHANGED <<inv, htlc, lax>> /\ inv = "canceled"
        /\ pc' \notin {"act", "invoice", "request", "store"}
    BY <1>9, Zenon
    DEF DeadlinePassed, Monitoring, At, Goto, extvars, chainvars, Control, Beliefs
  <2>2. \/ LockForTimeoutStep
        \/ TransitionDeposits(Deposits, "OnError", "Deposited")
        \/ TransitionDepositsFails(Deposits, "OnError", "Deposited")
    BY <1>9, Zenon DEF DeadlinePassed
  <2>q. QED BY <2>1, <2>2, MoveHolds, TimeoutHolds, Zenon
<1>10. CASE RiskRejected
  <2>1. Frame
    BY <1>10, Rows, Zenon
    DEF RiskRejected, Monitoring, At, Return, SendEvent, LeaveMonitor, CancelSwapInvoice,
        Canceled, CancelSwapInvoiceFails, Goto, monvars, watchvars, extvars, chainvars,
        ghosts, depvars, Frame, TypeOK, Control, Beliefs, Begins
  <2>q. QED BY <2>1, FrameHolds, Zenon
<1>11. CASE HtlcTimedOut
  <2>1. /\ UNCHANGED <<inv, htlc, lax>> /\ inv = "canceled"
        /\ pc' \notin {"act", "invoice", "request", "store"}
    BY <1>11, Rows, Zenon
    DEF HtlcTimedOut, Monitoring, At, Goto, Return, SendEvent, extvars, chainvars,
        Control, Beliefs
  <2>2. \/ LockForTimeoutStep
        \/ TransitionDeposits(Deposits, "OnError", "Deposited")
        \/ TransitionDepositsFails(Deposits, "OnError", "Deposited")
    BY <1>11, Zenon DEF HtlcTimedOut
  <2>q. QED BY <2>1, <2>2, MoveHolds, TimeoutHolds, Zenon
<1>12. CASE SweepHtlcTimeoutAction
  <2>1. Frame
    BY <1>12, Rows, Zenon
    DEF SweepHtlcTimeoutAction, At, SendEvent, monvars, riskvars, ntfnvars, chainvars,
        ghosts, depvars, Frame, TypeOK, Control, Beliefs, Begins
  <2>q. QED BY <2>1, FrameHolds, Zenon
<1>13. CASE MonitorHtlcTimeoutSweepAction
  <2>1. /\ UNCHANGED <<inv, htlc, lax>>
        /\ pc' \notin {"act", "invoice", "request", "store"}
        /\ UNCHANGED depvars \/ htlc = "swept"
    BY <1>13, Rows, Zenon
    DEF MonitorHtlcTimeoutSweepAction, At, SendEvent, SweepIsSeen, extvars, chainvars,
        ghosts, Control
  <2>2. \/ UNCHANGED depvars
        \/ TransitionDeposits(Deposits, "OnHtlcTimeoutSwept", "HtlcTimeoutSwept")
        \/ TransitionDepositsFails(Deposits, "OnHtlcTimeoutSwept", "HtlcTimeoutSwept")
    BY <1>13, Zenon DEF MonitorHtlcTimeoutSweepAction
  <2>3. CASE UNCHANGED depvars
    <3>1. Frame
      BY <2>1, <2>3, Zenon DEF Frame, depvars, TypeOK
    <3>q. QED BY <3>1, FrameHolds, Zenon
  <2>q. QED BY <2>1, <2>2, <2>3, MoveHolds, Zenon
<1>14. CASE PaymentReceivedAction
  <2>1. /\ UNCHANGED <<inv, htlc, lax>>
        /\ pc' \notin {"act", "invoice", "request", "store"}
        /\ inv = "settled"
    BY <1>14, Rows, Zenon
    DEF PaymentReceivedAction, At, SendEvent, extvars, chainvars, ghosts, Control,
        Outcome, Paid
  <2>2. \/ UNCHANGED depvars
        \/ TransitionDeposits(Deposits, "OnLoopedIn", "LoopedIn")
        \/ TransitionDepositsFails(Deposits, "OnLoopedIn", "LoopedIn")
    BY <1>14, Zenon DEF PaymentReceivedAction
  <2>3. CASE UNCHANGED depvars
    <3>1. Frame
      BY <2>1, <2>3, Zenon DEF Frame, depvars, TypeOK
    <3>q. QED BY <3>1, FrameHolds, Zenon
  <2>q. QED BY <2>1, <2>2, <2>3, MoveHolds, Zenon
<1>15. CASE UnlockCancels
  <2>1. Frame
    BY <1>15, Zenon
    DEF UnlockCancels, At, CancelSwapInvoice, Canceled, CancelSwapInvoiceFails, Goto,
        monvars, riskvars, ntfnvars, watchvars, extvars, chainvars, depvars, Frame,
        TypeOK, Control, Beliefs, Begins
  <2>q. QED BY <2>1, FrameHolds, Zenon
<1>16. CASE UnlockReleases
  <2>1. /\ UNCHANGED <<inv, htlc, lax>>
        /\ pc' \notin {"act", "invoice", "request", "store"}
        /\ inv \in {"none", "canceled"} \/ lax
    BY <1>16, Rows, Zenon
    DEF UnlockReleases, At, SendEvent, extvars, chainvars, ghosts, Control, Beliefs
  <2>2. \/ UNCHANGED depvars
        \/ TransitionDeposits(Deposits, "OnError", "Deposited")
        \/ TransitionDepositsFails(Deposits, "OnError", "Deposited")
    BY <1>16, Zenon DEF UnlockReleases
  <2>3. CASE UNCHANGED depvars
    <3>1. Frame
      BY <2>1, <2>3, Zenon DEF Frame, depvars, TypeOK
    <3>q. QED BY <3>1, FrameHolds, Zenon
  <2>q. QED BY <2>1, <2>2, <2>3, MoveHolds, Zenon
<1>17. CASE HtlcConfirmed
  <2>1. /\ UNCHANGED <<inv, htlc, lax>>
        /\ pc' \notin {"act", "invoice", "request", "store"}
    BY <1>17, Zenon DEF HtlcConfirmed, Goto, extvars, chainvars, ghosts
  <2>2. CASE UNCHANGED depvars
    <3>1. Frame
      BY <2>1, <2>2, Zenon DEF Frame, depvars, TypeOK
    <3>q. QED BY <3>1, FrameHolds, Zenon
  <2>3. CASE LockForTimeoutStep
    BY <2>1, <2>3, TimeoutHolds, Zenon
  <2>q. QED BY <1>17, <2>2, <2>3, Zenon DEF HtlcConfirmed
<1>18. CASE HtlcUnconfirmed
  <2>1. Frame
    BY <1>18, Zenon
    DEF HtlcUnconfirmed, Monitoring, At, Goto, riskvars, ntfnvars, watchvars, extvars,
        chainvars, ghosts, depvars, Frame, TypeOK, Control, Beliefs, Begins
  <2>q. QED BY <2>1, FrameHolds, Zenon
<1>19. CASE SubscriptionFails
  <2>1. Frame
    BY <1>19, Zenon
    DEF SubscriptionFails, Monitoring, At, Goto, monvars, riskvars, ntfnvars, watchvars,
        extvars, chainvars, ghosts, depvars, Frame, TypeOK, Control, Beliefs, Begins
  <2>q. QED BY <2>1, FrameHolds, Zenon
<1>20. CASE DeadlineFires
  <2>1. Frame
    BY <1>20, Zenon
    DEF DeadlineFires, Monitoring, At, CancelInvoice, Goto, CancelSwapInvoice, Canceled,
        CancelSwapInvoiceFails, riskvars, ntfnvars, watchvars, extvars, chainvars, ghosts,
        depvars, Frame, TypeOK, Control, Beliefs, Begins
  <2>q. QED BY <2>1, FrameHolds, Zenon
<1>21. CASE RiskUpdate
  <2>1. Frame
    BY <1>21, Zenon
    DEF RiskUpdate, Monitoring, At, Record, StartPaymentDeadline, Goto, watchvars,
        extvars, chainvars, ghosts, depvars, Frame, TypeOK, Control, Beliefs, Begins
  <2>q. QED BY <2>1, FrameHolds, Zenon
<1>22. CASE Block
  <2>1. Frame
    BY <1>22, Zenon
    DEF Block, Monitoring, At, StartLegacyFallback, Record, Goto, CancelInvoice,
        CancelSwapInvoice, Canceled, CancelSwapInvoiceFails, ntfnvars, watchvars, extvars,
        chainvars, ghosts, depvars, Frame, TypeOK, Control, Beliefs, Begins
  <2>q. QED BY <2>1, FrameHolds, Zenon
<1>23. CASE InvoiceUpdate
  <2>1. Frame
    BY <1>23, Rows, Zenon
    DEF InvoiceUpdate, Monitoring, At, Return, SendEvent, LeaveMonitor, watchvars,
        extvars, chainvars, ghosts, depvars, Frame, TypeOK, Control, Beliefs, Begins
  <2>q. QED BY <2>1, FrameHolds, Zenon
<1>24. CASE SignSweepless
  <2>1. Frame
    BY <1>24, Zenon
    DEF SignSweepless, swapvars, monvars, riskvars, ntfnvars, watchvars, ghosts, depvars,
        Frame, TypeOK, Control, Beliefs, Begins
  <2>q. QED BY <2>1, FrameHolds, Zenon
<1>25. CASE HtlcPublished
  <2>1. Frame
    BY <1>25, Zenon
    DEF HtlcPublished, Unspent, clientvars, swapvars, riskvars, ntfnvars, watchvars,
        ghosts, monvars, depvars, Frame, TypeOK, Control, Beliefs, Begins
  <2>q. QED BY <2>1, FrameHolds, Zenon
<1>26. CASE NewBlock
  <2>1. Frame
    BY <1>26, Zenon
    DEF NewBlock, BlockIsMined, clientvars, swapvars, riskvars, ntfnvars, watchvars,
        ghosts, depvars, Frame, TypeOK, Control, Beliefs, Begins
  <2>q. QED BY <2>1, FrameHolds, Zenon
<1>27. CASE HtlcMined
  <2>1. Frame
    BY <1>27, Zenon
    DEF HtlcMined, BlockIsMined, clientvars, swapvars, riskvars, ntfnvars, watchvars,
        ghosts, depvars, Frame, TypeOK, Control, Beliefs, Begins
  <2>q. QED BY <2>1, FrameHolds, Zenon
<1>28. CASE Reorg
  <2>1. Frame
    BY <1>28, Zenon
    DEF Reorg, clientvars, swapvars, riskvars, ntfnvars, watchvars, ghosts, monvars,
        depvars, Frame, TypeOK, Control, Beliefs, Begins
  <2>q. QED BY <2>1, FrameHolds, Zenon
<1>29. CASE HtlcSpent
  <2>1. Frame
    BY <1>29, Zenon
    DEF HtlcSpent, clientvars, swapvars, riskvars, ntfnvars, watchvars, ghosts, monvars,
        depvars, Frame, TypeOK, Control, Beliefs, Begins
  <2>q. QED BY <2>1, FrameHolds, Zenon
<1>30. CASE SweeplessConfirms
  <2>1. Frame
    BY <1>30, Zenon
    DEF SweeplessConfirms, Unspent, clientvars, swapvars, riskvars, ntfnvars, watchvars,
        ghosts, monvars, depvars, Frame, TypeOK, Control, Beliefs, Begins
  <2>q. QED BY <2>1, FrameHolds, Zenon
<1>31. CASE ServerPays
  <2>1. Frame
    BY <1>31, Zenon
    DEF ServerPays, clientvars, swapvars, riskvars, ntfnvars, watchvars, ghosts, monvars,
        extvars, chainvars, depvars, Frame, TypeOK, Control, Beliefs, Begins
  <2>q. QED BY <2>1, FrameHolds, Zenon
<1>32. CASE \E x \in Decisions : Notify(x)
  <2>1. Frame
    BY <1>32 DEF Notify, Record, swapvars, monvars, watchvars, extvars, chainvars,
       ghosts, depvars, Frame, TypeOK, Control, Beliefs, Begins
  <2>q. QED BY <2>1, FrameHolds, Zenon
<1>33. CASE Stop
  <2>1. Frame
    BY <1>33, Zenon
    DEF Stop, watchvars, extvars, chainvars, ghosts, depvars, Frame, TypeOK, Control,
        Beliefs, Begins
  <2>q. QED BY <2>1, FrameHolds, Zenon
<1>34. CASE Restart
  <2>1. Frame
    BY <1>34, Rows, Recovers DEF Restart, SendEvent, Goto, monvars, ntfnvars, extvars,
       chainvars, ghosts, depvars, Frame, TypeOK, Control, Beliefs, Begins,
       PendingStates
  <2>q. QED BY <2>1, FrameHolds, Zenon
<1>35. CASE \E d \in Deposits : OtherTakes(d)
  <2>. PICK d \in Deposits : OtherTakes(d)
    BY <1>35, Zenon
  <2>1. /\ dep' = [dep EXCEPT ![d] = "Withdrawing"] /\ dep[d] \in {"Deposited", "Withdrawing"}
        /\ UNCHANGED <<active, locked, inv, htlc, lax, pc, state>>
        /\ other' \subseteq Deposits
    BY Zenon DEF OtherTakes, clientvars, swapvars, ghosts, extvars, chainvars, TypeOK
  <2>2. /\ dep \in [Deposits -> States] /\ active \subseteq Deposits
        /\ locked \subseteq Deposits /\ "Withdrawing" \in States
    BY DepositNames, Zenon DEF TypeOK
  <2>3. \A c \in Deposits : dep'[c] = IF c = d THEN "Withdrawing" ELSE dep[c]
    BY <2>1, <2>2, Zenon
  <2>4. DepTypes'
    BY <2>1, <2>2, <2>3, Zenon DEF DepTypes
  <2>q. QED BY <2>1, <2>2, <2>3, <2>4, Zenon DEF Held, ReleasedOnlyUnpayable
<1>36. CASE \E d \in Deposits : OtherSpends(d)
  <2>. PICK d \in Deposits : OtherSpends(d)
    BY <1>36, Zenon
  <2>1. /\ dep' = [dep EXCEPT ![d] = "Withdrawn"] /\ dep[d] \in {"Deposited", "Withdrawing"}
        /\ UNCHANGED <<active, locked, inv, htlc, lax, pc, state>>
        /\ other' \subseteq Deposits
    BY Zenon DEF OtherSpends, clientvars, swapvars, ghosts, extvars, chainvars, TypeOK
  <2>2. /\ dep \in [Deposits -> States] /\ active \subseteq Deposits
        /\ locked \subseteq Deposits /\ "Withdrawn" \in States
    BY DepositNames, Zenon DEF TypeOK
  <2>3. \A c \in Deposits : dep'[c] = IF c = d THEN "Withdrawn" ELSE dep[c]
    BY <2>1, <2>2, Zenon
  <2>4. DepTypes'
    BY <2>1, <2>2, <2>3, Zenon DEF DepTypes
  <2>q. QED BY <2>1, <2>2, <2>3, <2>4, Zenon DEF Held, ReleasedOnlyUnpayable
<1>37. CASE \E d \in Deposits : SpentOutside(d)
  <2>1. Frame
    BY <1>37 DEF SpentOutside, clientvars, swapvars, riskvars, ntfnvars, watchvars,
       ghosts, monvars, depvars, Frame, TypeOK, Control, Beliefs, Begins
  <2>q. QED BY <2>1, FrameHolds, Zenon
<1>38. CASE \E d \in Deposits : Deactivate(d)
  <2>1. Frame
    BY <1>38 DEF Deactivate, clientvars, swapvars, riskvars, ntfnvars, watchvars,
       ghosts, monvars, extvars, chainvars, depvars, Frame, TypeOK, Control, Beliefs,
       Begins
  <2>q. QED BY <2>1, FrameHolds, Zenon
<1>39. CASE UNCHANGED vars
  <2>1. Frame
    BY <1>39, Zenon DEF vars, swapvars, depvars, extvars, chainvars, ghosts, Frame, TypeOK
  <2>q. QED BY <2>1, FrameHolds, Zenon
<1>q. QED BY Zenon, <1>1, <1>2, <1>3, <1>4, <1>5, <1>6, <1>7, <1>8, <1>9, <1>10, <1>11, <1>12,
  <1>13, <1>14, <1>15, <1>16, <1>17, <1>18, <1>19, <1>20, <1>21, <1>22, <1>23, <1>24,
  <1>25, <1>26, <1>27, <1>28, <1>29, <1>30, <1>31, <1>32, <1>33, <1>34, <1>35, <1>36,
  <1>37, <1>38, <1>39, Zenon DEF Next, Step, Select, Chain

-----------------------------------------------------------------------------
(* The inductive invariant. *)

\* The first state satisfies it.
LEMMA InitInv == Init => Inv
<1>. SUFFICES ASSUME Init PROVE Inv
  OBVIOUS
<1>1. dep \in [Deposits -> States] /\ (\A d \in Deposits : dep[d] = "Deposited")
  BY DepositNames, Zenon DEF Init
<1>2. spent \in [Deposits -> {"no", "htlc", "sweepless", "other"}]
  BY Zenon DEF Init
<1>3. height \in 0 .. MaxHeight /\ faults \in 0 .. MaxFaults
  BY HeightAssumption, FaultsAssumption DEF Init
<1>4. TypeOK
  BY <1>1, <1>2, <1>3, Zenon DEF Init, TypeOK, PendingStates
<1>5. Control
  BY Zenon DEF Init, Control, Beliefs, Begins, Signatures, Timeouts, Outcome, Signed, Paid,
     Timeout
<1>6. Held
  BY <1>1, Zenon DEF Init, Held, ReleasedOnlyUnpayable
<1>q. QED BY <1>4, <1>5, <1>6, Zenon DEF Inv

\* Every step of the swap, the notification manager, the chain and the other users of the
\* deposits keeps it.
LEMMA NextInv == Inv /\ [Next]_vars => Inv'
<1>. SUFFICES ASSUME Inv, [Next]_vars PROVE Inv'
  OBVIOUS
<1>1. Control' /\ Held' /\ DepTypes'
  BY ControlStep, HeldStep, Zenon
<1>2. SwapTypes' /\ RiskTypes' /\ FlagTypes' /\ ChainTypes' /\ FaultTypes'
  BY SwapTypeStep, RiskTypeStep, FlagTypeStep, ChainTypeStep, FaultTypeStep, Zenon
<1>3. TypeOK'
  BY <1>1, <1>2, TypesAre, PTL
<1>q. QED BY <1>1, <1>3, Zenon DEF Inv

\* It holds throughout.
LEMMA InvHolds == Spec => []Inv
BY InitInv, NextInv, PTL DEF Spec

-----------------------------------------------------------------------------
(* The theorems. *)

\* Every variable has its type, and the goroutine is at a point of the action of its
\* state.
THEOREM TypeCorrect == Spec => []TypeOK
<1>1. Inv => TypeOK
  BY Zenon DEF Inv
<1>q. QED BY <1>1, InvHolds, PTL

\* Deposits are released by the monitor, the deadline or UnlockDeposits only when the
\* invoice can never be paid, except where UnlockDeposits could not cancel it.
THEOREM ReleaseSafe == Spec => []ReleasedOnlyUnpayable
<1>1. Inv => ReleasedOnlyUnpayable
  BY Zenon DEF Inv, Held
<1>q. QED BY <1>1, InvHolds, PTL

\* What the state machine and the deposits say of the end of the swap, stored states
\* and sweepless signatures included, is what invoice and chain say.
THEOREM OutcomeCorrect == Spec => []OutcomeMatches
<1>1. Inv => OutcomeMatches
  BY Zenon DEF Inv, Control, Outcome, Held, OutcomeMatches, Paid
<1>q. QED BY <1>1, InvHolds, PTL

\* Neither the notification manager, the monitor, the legacy fallback nor a restart
\* replaces a stored rejection.
THEOREM RejectionKept == Spec => StoredRejectionKept
<1>1. [Next]_vars => [dbDecision = "rejected" => dbDecision' = "rejected"]_dbDecision
  <2>. SUFFICES ASSUME [Next]_vars, dbDecision = "rejected" PROVE dbDecision' = "rejected"
    OBVIOUS
  <2>1. \/ dbDecision' = dbDecision \/ Record("accepted") = "accepted"
        \/ \E x : dbDecision' = Record(x)
    BY Zenon DEF Next, Step, Select, Chain, vars, UpdateLoopIn, LockDeposits, AddInvoice,
       ServerStaticAddressLoopIn, CreateLoopIn, SignHtlcTxAction, MonitorSubscribe,
       RetryMonitor, DeadlinePassed, RiskRejected, HtlcTimedOut, SweepHtlcTimeoutAction,
       MonitorHtlcTimeoutSweepAction, PaymentReceivedAction, UnlockCancels, UnlockReleases,
       HtlcConfirmed, HtlcUnconfirmed, SubscriptionFails, DeadlineFires, RiskUpdate, Block,
       InvoiceUpdate, SignSweepless, HtlcPublished, NewBlock, HtlcMined, Reorg, HtlcSpent,
       SweeplessConfirms, ServerPays, Notify, Stop, Restart, OtherTakes, OtherSpends,
       SpentOutside, Deactivate, BlockIsMined, StartLegacyFallback, riskvars, clientvars
  <2>q. QED BY <2>1, Zenon DEF Record
<1>q. QED BY <1>1, PTL DEF Spec, StoredRejectionKept

\* The steps that are not about the htlc leave the first leg alone.
LEMMA LegKept ==
    ASSUME Next
    PROVE  \/ UNCHANGED <<sigs, htlc, spent>>
           \/ SignHtlcTxAction \/ HtlcPublished \/ HtlcMined \/ Reorg \/ HtlcSpent
           \/ SweeplessConfirms
           \/ \E d \in Deposits : OtherSpends(d) \/ SpentOutside(d)
BY Zenon DEF Next, Step, Select, Chain, UpdateLoopIn, LockDeposits, AddInvoice,
   ServerStaticAddressLoopIn, CreateLoopIn, MonitorSubscribe, RetryMonitor,
   DeadlinePassed, RiskRejected, HtlcTimedOut, SweepHtlcTimeoutAction,
   MonitorHtlcTimeoutSweepAction, PaymentReceivedAction, UnlockCancels, UnlockReleases,
   HtlcConfirmed, HtlcUnconfirmed, SubscriptionFails, DeadlineFires, RiskUpdate, Block,
   InvoiceUpdate, SignSweepless, NewBlock, ServerPays, Notify, Stop, Restart, OtherTakes,
   Deactivate, BlockIsMined, extvars, chainvars

\* The invoice is added once, settles by the payment and is canceled while it is open.
LEMMA PayKept ==
    ASSUME TypeOK, Control, Next
    PROVE  \/ inv' = inv \/ inv' = Canceled \/ ServerPays
           \/ inv = "none" /\ inv' = "open"
<1>1. AddInvoice => inv = "none" /\ inv' \in {"none", "open"}
  BY Zenon DEF AddInvoice, At, Control, Begins
<1>q. QED
  BY <1>1, Zenon DEF Next, Step, Select, Chain, UpdateLoopIn, LockDeposits,
     ServerStaticAddressLoopIn, CreateLoopIn, SignHtlcTxAction, MonitorSubscribe,
     RetryMonitor, DeadlinePassed, RiskRejected, HtlcTimedOut, SweepHtlcTimeoutAction,
     MonitorHtlcTimeoutSweepAction, PaymentReceivedAction, UnlockCancels, UnlockReleases,
     HtlcConfirmed, HtlcUnconfirmed, SubscriptionFails, DeadlineFires, RiskUpdate, Block,
     InvoiceUpdate, SignSweepless, HtlcPublished, NewBlock, HtlcMined, Reorg, HtlcSpent,
     SweeplessConfirms, Notify, Stop, Restart, OtherTakes, OtherSpends, SpentOutside,
     Deactivate, BlockIsMined, CancelSwapInvoice, CancelSwapInvoiceFails, CancelInvoice

\* Each step of the swap, the server, lnd and the chain is a step of AtomicSwap or
\* leaves both legs alone.
THEOREM Refinement == Spec => ImplementsAtomicSwap
<1>1. Init => AtomicSwap!AInit
  BY DepositsAssumption, Zenon DEF Init, AtomicSwap!AInit, Leg, PayLeg
<1>2. Inv /\ [Next]_vars => [AtomicSwap!ANext]_(AtomicSwap!avars)
  <2>. SUFFICES ASSUME TypeOK, Control, [Next]_vars
       PROVE AtomicSwap!ANext \/ UNCHANGED AtomicSwap!avars
    BY Zenon DEF Inv
  <2>. USE DEF Leg, PayLeg, AtomicSwap!ANext, AtomicSwap!avars, AtomicSwap!Lock,
              AtomicSwap!Pay, AtomicSwap!Kill, AtomicSwap!Claim, AtomicSwap!Reclaim
  <2>1. CASE UNCHANGED <<sigs, htlc, spent>> /\ Next
    <3>1. UNCHANGED Leg
      BY <2>1, Zenon
    <3>2. \/ UNCHANGED PayLeg
          \/ PayLeg = "open" /\ PayLeg' \in {"paid", "dead"}
      BY <2>1, PayKept, Zenon DEF Canceled, ServerPays
    <3>q. QED BY <3>1, <3>2, Zenon
  <2>2. CASE SignHtlcTxAction
    <3>1. /\ ~sigs /\ sigs' \in BOOLEAN
          /\ UNCHANGED <<htlc, spent>> /\ htlc = "none"
          /\ inv' = inv \/ (inv' = Canceled /\ sigs' = sigs)
      BY <2>2, Zenon
      DEF SignHtlcTxAction, At, CancelSwapInvoice, CancelSwapInvoiceFails, Control,
          Signatures, chainvars, TypeOK
    <3>q. QED BY <3>1, Zenon DEF Canceled
  <2>3. CASE HtlcPublished \/ HtlcMined \/ Reorg
    <3>1. /\ UNCHANGED <<sigs, inv>>
          /\ {htlc, htlc'} \subseteq {"none", "mempool", "confirmed"}
      BY <2>3, Zenon DEF HtlcPublished, HtlcMined, BlockIsMined, Reorg
    <3>2. \A d \in Deposits : spent'[d] = "sweepless" <=> spent[d] = "sweepless"
      BY <2>3, Zenon DEF HtlcPublished, Unspent, HtlcMined, BlockIsMined, Reorg
    <3>q. QED BY <3>1, <3>2, Zenon
  <2>4. CASE HtlcSpent
    BY <2>4, Zenon DEF HtlcSpent, Control, Signatures, Timeouts
  <2>5. CASE SweeplessConfirms
    <3>1. /\ spent' = [d \in Deposits |-> "sweepless"] /\ UNCHANGED <<htlc, inv, sigs>>
          /\ sigs /\ inv = "settled" /\ htlc = "none"
          /\ \A d \in Deposits : spent[d] = "no"
      BY <2>5, DepositsAssumption DEF SweeplessConfirms, Unspent, Control, Signatures,
         Outcome, Deposits
    <3>q. QED BY <3>1, DepositsAssumption, Zenon DEF Deposits
  <2>6. CASE \E d \in Deposits : OtherSpends(d) \/ SpentOutside(d)
    <3>. PICK d \in Deposits : OtherSpends(d) \/ SpentOutside(d)
      BY <2>6, Zenon
    <3>1. spent' = [spent EXCEPT ![d] = "other"] /\ spent[d] = "no"
          /\ UNCHANGED <<htlc, sigs, inv>>
      BY Zenon DEF OtherSpends, SpentOutside
    <3>2. \A c \in Deposits : spent'[c] = "sweepless" <=> spent[c] = "sweepless"
      BY <3>1, Zenon DEF TypeOK
    <3>q. QED BY <3>1, <3>2, Zenon
  <2>7. CASE UNCHANGED vars
    BY <2>7, Zenon DEF vars, extvars, chainvars
  <2>q. QED BY <2>1, <2>2, <2>3, <2>4, <2>5, <2>6, <2>7, LegKept, Zenon
<1>q. QED
  BY <1>1, <1>2, InvHolds, PTL DEF Spec, ImplementsAtomicSwap, AtomicSwap!ASpec
=============================================================================
