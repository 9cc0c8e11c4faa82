------------------------------ MODULE MCDeposit ------------------------------
(***************************************************************************)
(* Deposit for TLC.  The goroutines that send events are interchangeable.  *)
(***************************************************************************)
EXTENDS Deposit, TLC

SenderSymmetry == Permutations(Senders)
=============================================================================
