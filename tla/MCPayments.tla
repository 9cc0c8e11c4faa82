---------------------------- MODULE MCPayments ----------------------------
(* Three payments, two of which ask for the plugin, and three peers of the target. *)
EXTENDS Payments

MCFee == [n \in Nodes |-> CASE n = "n1" -> 1 [] n = "n2" -> 2 [] n = "n3" -> 3]
MCPaymentTimeout == [p \in Payers |-> IF p = "p2" THEN 4 ELSE 0]
=============================================================================
