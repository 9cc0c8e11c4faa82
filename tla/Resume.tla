------------------------------- MODULE Resume -------------------------------
(***************************************************************************)
(* The resume manager (resumeManager in loopout.go).  The server notifies  *)
(* the client of loop-outs that it was not paid for; one goroutine puts    *)
(* each notification into reqChan, takes them out again, looks up swap and *)
(* payment and pays.  What fails is put back by a goroutine of its own     *)
(* after ten seconds.                                                      *)
(***************************************************************************)
EXTENDS Integers, Sequences, FiniteSets

CONSTANTS
    Notifications,  \* the notifications, each about a swap of its own
    IsLoopIn,       \* those about loop-ins
    ReqChanCap,     \* capacity of reqChan
    MaxFaults       \* failing calls

VARIABLES
    arrived,    \* the notifications that the server has sent
    waiting,    \* those that start has not received yet
    reqChan,
    blocked,    \* the notification that start is sending to reqChan
    retrying,   \* the notifications that are put back
    typ,        \* the type of the stored state of the swap
    serverCost, \* the stored server cost is not zero
    payment,    \* the swap payment as lnd knows it
    handled,    \* history: the notifications that were looked at
    faults

vars == <<arrived, waiting, reqChan, blocked, retrying, typ, serverCost, payment,
          handled, faults>>

Init ==
    /\ arrived = {} /\ waiting = {} /\ reqChan = <<>> /\ blocked = {}
    /\ retrying = {} /\ handled = {} /\ faults = 0
    /\ typ \in [Notifications -> {"pending", "fail", "success", "missing"}]
    /\ serverCost \in [Notifications -> BOOLEAN]
    /\ payment \in [Notifications -> {"unknown", "failed", "succeeded"}]

Notify(n) ==
    /\ n \notin arrived
    /\ arrived' = arrived \cup {n} /\ waiting' = waiting \cup {n}
    /\ UNCHANGED <<reqChan, blocked, retrying, typ, serverCost, payment, handled, faults>>

-----------------------------------------------------------------------------
(* The goroutine of start *)

\* It receives a notification, and then sends it to reqChan.
Receive(n) ==
    /\ blocked = {} /\ n \in waiting
    /\ waiting' = waiting \ {n} /\ blocked' = {n}
    /\ UNCHANGED <<arrived, reqChan, retrying, typ, serverCost, payment, handled, faults>>

SendToReqChan ==
    /\ blocked # {} /\ Len(reqChan) < ReqChanCap
    /\ \E n \in blocked : reqChan' = Append(reqChan, n)
    /\ blocked' = {}
    /\ UNCHANGED <<arrived, waiting, retrying, typ, serverCost, payment, handled, faults>>

\* resumeLoopOutPayment pays an invoice of the server.  Every update of the payment
\* counts as an error, also one without a failure: FailureReason.String() is never
\* empty.
ResumeLoopOutPayment(n) ==
    /\ payment' = [payment EXCEPT ![n] = "inflight"]
    /\ retrying' = retrying \cup {n}
    /\ UNCHANGED faults

\* A swap that is not paid for is one that succeeded, whose payment failed and for
\* which no server cost is stored.  An error while tracking the payment, such as that
\* lnd does not know it, ends the attempt without an error.
Unpaid(n) == typ[n] = "success" /\ payment[n] = "failed" /\ ~serverCost[n]

HandleUnfinishedSwap(n) ==
    \/ /\ n \in IsLoopIn \/ typ[n] = "missing"
       /\ retrying' = retrying \cup {n}
       /\ UNCHANGED <<payment, faults>>
    \/ /\ n \notin IsLoopIn /\ typ[n] # "missing"
       /\ \/ ~Unpaid(n) /\ UNCHANGED <<payment, retrying, faults>>
          \/ Unpaid(n) /\ ResumeLoopOutPayment(n)
          \/ /\ faults < MaxFaults /\ faults' = faults + 1
             /\ retrying' = retrying \cup {n} /\ UNCHANGED payment

HandleRequest ==
    /\ blocked = {} /\ reqChan # <<>>
    /\ HandleUnfinishedSwap(Head(reqChan))
    /\ reqChan' = Tail(reqChan)
    /\ handled' = handled \cup {Head(reqChan)}
    /\ UNCHANGED <<arrived, waiting, blocked, typ, serverCost>>

-----------------------------------------------------------------------------

Retry(n) ==
    /\ n \in retrying /\ Len(reqChan) < ReqChanCap
    /\ reqChan' = Append(reqChan, n) /\ retrying' = retrying \ {n}
    /\ UNCHANGED <<arrived, waiting, blocked, typ, serverCost, payment, handled, faults>>

\* lnd ends a payment.
PaymentEnds(n) ==
    /\ payment[n] = "inflight"
    /\ \E end \in {"failed", "succeeded"} : payment' = [payment EXCEPT ![n] = end]
    /\ UNCHANGED <<arrived, waiting, reqChan, blocked, retrying, typ, serverCost,
                   handled, faults>>

Next ==
    \/ \E n \in Notifications : Notify(n)
    \/ \E n \in Notifications : Receive(n)
    \/ SendToReqChan \/ HandleRequest
    \/ \E n \in Notifications : Retry(n)
    \/ \E n \in Notifications : PaymentEnds(n)

\* A select takes every case that is ready again and again; a sender gets its turn.
FairSpec ==
    /\ Init /\ [][Next]_vars
    /\ SF_vars(SendToReqChan) /\ SF_vars(HandleRequest)
    /\ \A n \in Notifications : SF_vars(Receive(n)) /\ SF_vars(Retry(n))

-----------------------------------------------------------------------------
(* Properties *)

\* Every notification of an unfinished swap is looked at: resumeManager "is
\* responsible for recovering unfinished swaps" (loopout.go).
UnfinishedIsHandled ==
    \A n \in Notifications : n \in arrived ~> n \in handled
=============================================================================
