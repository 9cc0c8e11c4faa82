----------------------------- MODULE AtomicSwap -----------------------------
(***************************************************************************)
(* What a loop-in promises both parties: the on-chain leg and the          *)
(* off-chain leg of the swap stand or fall together.  The htlc goes to the *)
(* server only against the paid invoice, and back to the client only when  *)
(* the invoice can never be paid.                                          *)
(***************************************************************************)
VARIABLES
    leg,    \* the htlc: "none", "locked", "claimed" or "refunded"
    pay     \* the invoice: "open", "paid" or "dead"

avars == <<leg, pay>>

AInit == leg = "none" /\ pay = "open"

Lock   == leg = "none" /\ leg' = "locked" /\ UNCHANGED pay
Pay    == pay = "open" /\ pay' = "paid" /\ UNCHANGED leg
Kill   == pay = "open" /\ pay' = "dead" /\ UNCHANGED leg
Claim  == leg = "locked" /\ pay = "paid" /\ leg' = "claimed" /\ UNCHANGED pay
Reclaim == leg = "locked" /\ pay = "dead" /\ leg' = "refunded" /\ UNCHANGED pay

ANext == Lock \/ Pay \/ Kill \/ Claim \/ Reclaim

ASpec == AInit /\ [][ANext]_avars
=============================================================================
