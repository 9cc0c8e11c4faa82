----------------------------- MODULE SwapStates -----------------------------
(***************************************************************************)
(* The life-cycle states that loop-in and loop-out swaps share, as         *)
(* loopdb/swapstate.go enumerates them.  A swap is stored with one of      *)
(* these states; pending swaps are resumed after a restart, final swaps    *)
(* are never executed again.                                               *)
(***************************************************************************)

\* The states IsPending lists.
PendingStates ==
    {"Initiated", "HtlcPublished", "PreimageRevealed", "FailTemporary",
     "InvoiceSettled", "FailIncorrectHtlcAmt"}

\* All other states are final: success, or one of the kinds of failure.
FinalStates ==
    {"Success", "FailOffchainPayments", "FailTimeout", "FailSweepTimeout",
     "FailInsufficientValue", "FailAbandoned",
     "FailInsufficientConfirmedBalance", "FailIncorrectHtlcAmtSwept"}

SwapState == PendingStates \cup FinalStates

IsPending(s) == s \in PendingStates

IsFinal(s) == ~ IsPending(s)
=============================================================================
